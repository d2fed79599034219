--------------------------- MODULE ToolScheduler ---------------------------
(***************************************************************************)
(* CoreToolScheduler (packages/core/src/core/coreToolScheduler.ts): the    *)
(* scheduler that takes the tool calls of one model turn, asks the user    *)
(* where a tool requires it, starts the calls of a batch together, and     *)
(* hands the finished batch to its consumer.                               *)
(*                                                                         *)
(* The program is single threaded.  An action is one run-to-completion     *)
(* segment: the code between one wait (an await on I/O, on the user, on a  *)
(* tool, on the IDE) and the next.  An await on a promise that is already  *)
(* settled lets no input, timer or I/O event in, so it ends no segment.    *)
(*                                                                         *)
(* Operators named X_Y, next to X, are mutants: X with a plausible bug.    *)
(* Nothing uses them; they show that a property can fail.                  *)
(***************************************************************************)
EXTENDS Naturals, Sequences, SequencesExt

CONSTANTS
  Calls,       \* tool call requests (callId is unique in a session)
  Batches,     \* the arguments of schedule(); each has its own AbortSignal
  BatchOf,     \* the batch a call belongs to
  Asking,      \* calls whose tool may ask (the others need no confirmation)
  IdeCalls,    \* calls whose confirmation carries an ideConfirmation promise
  Handlers,    \* bound: handleConfirmationResponse invocations in flight
  Repeated,    \* bound: calls whose prompt may be answered again
  MaxLaunches, \* bound: executions of one call that are told apart
  None         \* "no batch", "no call"

CallsOf(b) == {c \in Calls : BatchOf[c] = b}

ASSUME ConstantsOK ==
  /\ BatchOf \in [Calls -> Batches]
  /\ \A b \in Batches : CallsOf(b) # {}  \* callers never schedule []
  /\ IdeCalls \subseteq Asking /\ Asking \subseteq Calls
  /\ Repeated \subseteq Calls
  /\ MaxLaunches \in Nat \ {0, 1}
  /\ None \notin Calls \cup Batches

Terminal == {"success", "error", "cancelled"}
Status == {"absent", "validating", "scheduled", "awaiting_approval",
           "executing"} \cup Terminal

(* ToolConfirmationOutcome; "ProceedInline" is ProceedOnce with newContent. *)
Proceed == {"ProceedOnce", "ProceedAlways", "ProceedInline"}
Outcome == Proceed \cup {"Cancel", "ModifyWithEditor"}

VARIABLES
  toolCalls,    \* [Calls -> Status]; "absent": not in this.toolCalls
  requestQueue, \* batches waiting for the running one
  scheduling,   \* the _schedule loop: batch, call under validation, the rest
  finalizing,   \* calls handed to onAllToolCallsComplete, {} when not running
  handler,      \* handleConfirmationResponse invocations
  prompts,      \* calls whose prompt a client still holds
  ide,          \* the ideConfirmation promise of a call
  aborted,      \* batches whose AbortSignal has fired
  running,      \* invocation.execute() promises not settled yet
  \* history variables: read by properties only
  submitted,    \* batches passed to schedule()
  rejected,     \* batches whose schedule() promise was rejected in the queue
  result,       \* the status a call was reported with
  launches,     \* how often a call was executed (saturates at MaxLaunches)
  consented,    \* calls the user, the IDE or the tool itself let through
  refused,      \* calls the user answered with Cancel
  again         \* calls decided a second time, or while an earlier answer
                \* was still worked on (see Overlaps)

consentVars == <<consented, refused, again>>
requestVars == <<submitted, rejected, requestQueue>>
callVars == <<toolCalls, prompts, finalizing, result, running, launches>>
vars == <<toolCalls, requestQueue, scheduling, finalizing, handler, prompts,
          ide, aborted, running, submitted, rejected, result, launches,
          consented, refused, again>>

NotScheduling == [batch |-> None, call |-> None, rest |-> {}]
Free == [pc |-> "free", call |-> None, outcome |-> "none", pending |-> {}]

HandlerState ==
  {Free} \cup [pc : {"onConfirm", "autoApprove", "editor", "inline"},
               call : Calls, outcome : Outcome, pending : SUBSET Calls]
Execution == [call : Calls, signal : Batches, nth : 1..MaxLaunches]
IdeState == {"none", "pending", "accepted", "rejected", "lost"}

TypeOK ==
  /\ toolCalls \in [Calls -> Status]
  /\ requestQueue \in Seq(Batches)
  /\ scheduling \in {NotScheduling}
       \cup [batch : Batches, call : Calls, rest : SUBSET Calls]
  /\ finalizing \subseteq Calls
  /\ handler \in [Handlers -> HandlerState]
  /\ prompts \subseteq Calls
  /\ ide \in [Calls -> IdeState]
  /\ aborted \subseteq Batches
  /\ running \subseteq Execution
  /\ submitted \subseteq Batches /\ rejected \subseteq Batches
  /\ result \in [Calls -> Terminal \cup {"none"}]
  /\ launches \in [Calls -> 0..MaxLaunches]
  /\ consented \subseteq Calls /\ refused \subseteq Calls /\ again \subseteq Calls

Init ==
  /\ toolCalls = [c \in Calls |-> "absent"]
  /\ requestQueue = <<>>
  /\ scheduling = NotScheduling
  /\ finalizing = {}
  /\ handler = [h \in Handlers |-> Free]
  /\ prompts = {} /\ aborted = {} /\ running = {}
  /\ ide = [c \in Calls |-> "none"]
  /\ submitted = {} /\ rejected = {}
  /\ result = [c \in Calls |-> "none"]
  /\ launches = [c \in Calls |-> 0]
  /\ consented = {} /\ refused = {} /\ again = {}

-----------------------------------------------------------------------------
(* The pieces every segment is made of.  st is a value of toolCalls.       *)

Live(st) == {c \in Calls : st[c] # "absent"}
IsScheduling == scheduling # NotScheduling
IsRunning_IgnoresPrompts ==
  finalizing # {} \/ \E c \in Calls : toolCalls[c] = "executing"
IsRunning_IgnoresReport ==
  \E c \in Calls : toolCalls[c] \in {"executing", "awaiting_approval"}
IsRunning ==
  \/ finalizing # {}
  \/ \E c \in Calls : toolCalls[c] \in {"executing", "awaiting_approval"}

(* setStatusInternal: a terminal call and a call that has left toolCalls   *)
(* keep their state; every other change is made, whatever the old status.  *)
SetStatus_NoGuard(st, c, new) ==
  [st EXCEPT ![c] = IF @ = "absent" THEN @ ELSE new]
SetStatus_RevivesCancelled(st, c, new) ==
  [st EXCEPT ![c] = IF @ \in {"absent", "success", "error"} THEN @ ELSE new]
SetStatus(st, c, new) ==
  [st EXCEPT ![c] = IF @ \in Terminal \cup {"absent"} THEN @ ELSE new]

(* checkAndNotifyCompletion, up to the await on onAllToolCallsComplete.    *)
(* fin is what isFinalizingToolCalls held when the check was made.  The    *)
(* clients are told of every change: they prompt for what awaits approval. *)
AllTerminal_Any(st) == \E c \in Live(st) : st[c] \in Terminal
AllTerminal(st) ==
  Live(st) # {} /\ \A c \in Live(st) : st[c] \in Terminal
Publish(st, fin) ==
  /\ prompts' = (prompts \cap Repeated) \cup {c \in Calls : st[c] = "awaiting_approval"}
  /\ toolCalls' = IF AllTerminal(st) THEN [c \in Calls |-> "absent"] ELSE st
  /\ finalizing' = IF AllTerminal(st) THEN Live(st) ELSE fin
  /\ result' = IF AllTerminal(st)
               THEN [c \in Calls |-> IF c \in Live(st) THEN st[c] ELSE result[c]]
               ELSE result
NoAttempt(st) == Publish(st, finalizing) /\ UNCHANGED <<running, launches>>

(* attemptExecutionOfScheduledCalls: nothing starts until every call of    *)
(* toolCalls is settled; then all scheduled calls start under one signal.  *)
Launchable_WaitsForSuccess(st) ==
  IF \A c \in Live(st) : st[c] \in {"scheduled", "success", "error"}
  THEN {c \in Calls : st[c] = "scheduled"}
  ELSE {}
Launchable(st) ==
  IF \A c \in Live(st) : st[c] \in Terminal \cup {"scheduled"}
  THEN {c \in Calls : st[c] = "scheduled"}
  ELSE {}
AfterAttempt_KeepsScheduled(st) == st
AfterAttempt(st) ==
  [c \in Calls |-> IF c \in Launchable(st) THEN "executing" ELSE st[c]]
OneMore(c) == IF launches[c] < MaxLaunches THEN launches[c] + 1 ELSE MaxLaunches
Attempt(st, signal, fin) ==
  /\ Publish(AfterAttempt(st), fin)
  /\ launches' = [c \in Calls |->
                    IF c \in Launchable(st) THEN OneMore(c) ELSE launches[c]]
  /\ running' = running \cup
       {[call |-> c, signal |-> signal, nth |-> OneMore(c)] : c \in Launchable(st)}


(* The event loop turns to the next event only when no invocation is left   *)
(* whose awaited promise has settled; those continue first, in either order. *)
EventTurn ==
  ~ \E h \in Handlers : /\ handler[h].pc = "onConfirm"
                        /\ ide[handler[h].call] \in {"accepted", "rejected"}

-----------------------------------------------------------------------------
(* schedule() and _schedule()                                              *)

(* The for loop of _schedule from the calls left to validate up to its next *)
(* await.  It visits them in request order; the model in any order, which  *)
(* is every order of a request.  An aborted signal stays aborted, so the    *)
(* loop then cancels all that is left and reaches its end.                  *)
LoopOn(st, b, rest, fin) ==
  \/ /\ rest # {} /\ b \notin aborted
     /\ \E c \in rest :
          scheduling' = [batch |-> b, call |-> c, rest |-> rest \ {c}]
     /\ Publish(st, fin) /\ UNCHANGED <<running, launches>>
  \/ /\ rest = {} \/ b \in aborted
     /\ scheduling' = NotScheduling
     /\ Attempt([c \in Calls |-> IF c \in rest THEN "cancelled" ELSE st[c]],
                b, fin)

(* toolCalls with the calls of b appended, those of bad as errors.          *)
Listed(b, bad) ==
  [c \in Calls |-> IF c \notin CallsOf(b) THEN toolCalls[c]
                  ELSE IF c \in bad THEN "error" ELSE "validating"]

(* _schedule up to its first await: a call whose tool is disabled, unknown  *)
(* or given invalid arguments is an error at once, the others validate.     *)
(* The isRunning() test that throws here never holds: see ReportsWhileIdle. *)
StartBatch(b, fin) ==
  \E bad \in SUBSET CallsOf(b) :
    LoopOn(Listed(b, bad), b, CallsOf(b) \ bad, fin)

Schedule(b) ==
  /\ EventTurn
  /\ b \notin submitted
  /\ ~ IsRunning /\ ~ IsScheduling
  /\ submitted' = submitted \cup {b}
  /\ StartBatch(b, finalizing)
  /\ UNCHANGED <<requestQueue, rejected, handler, ide, aborted, consentVars>>

Queued_First(b) == <<b>> \o requestQueue
Queued(b) == Append(requestQueue, b)
ScheduleQueued(b) ==
  /\ EventTurn
  /\ b \notin submitted
  /\ IsRunning \/ IsScheduling
  /\ submitted' = submitted \cup {b}
  /\ requestQueue' = Queued(b)
  /\ UNCHANGED <<callVars, scheduling, handler, ide, aborted, rejected,
                 consentVars>>

(* The signal fires.  A batch that waits in the queue leaves it and its     *)
(* promise is rejected; a batch queued with a signal that had already fired *)
(* gets no event and stays.                                                 *)
Abort(b) ==
  /\ EventTurn
  /\ b \notin aborted
  /\ aborted' = aborted \cup {b}
  /\ \/ \E i \in 1..Len(requestQueue) :
          /\ requestQueue[i] = b
          /\ requestQueue' = RemoveAt(requestQueue, i)
          /\ rejected' = rejected \cup {b}
     \/ /\ \A i \in 1..Len(requestQueue) : requestQueue[i] # b
        /\ UNCHANGED <<requestQueue, rejected>>
  /\ UNCHANGED <<callVars, scheduling, handler, ide, submitted, consentVars>>

(* shouldConfirmExecute settles for the call the loop waits on.             *)
Validated(new) ==
  /\ EventTurn
  /\ IsScheduling
  /\ LoopOn(SetStatus(toolCalls, scheduling.call, new),
            scheduling.batch, scheduling.rest, finalizing)
  /\ UNCHANGED <<requestVars, handler, aborted, refused, again>>

(* No details, YOLO mode or an allowed tool: scheduled without asking.      *)
NoConfirmation ==
  /\ Validated("scheduled")
  /\ consented' = consented \cup {scheduling.call}
  /\ UNCHANGED ide

AskUser_SkipsPrompt == Validated("scheduled") /\ UNCHANGED <<ide, consented>>
AskUser ==
  /\ scheduling.call \in Asking
  /\ Validated("awaiting_approval")
  /\ ide' = IF scheduling.call \in IdeCalls
            THEN [ide EXCEPT ![scheduling.call] = "pending"] ELSE ide
  /\ UNCHANGED consented

ValidationThrows == Validated("error") /\ UNCHANGED <<ide, consented>>

-----------------------------------------------------------------------------
(* handleConfirmationResponse.  h is the invocation, c its call, o the      *)
(* outcome; the signal is the one the call was scheduled with.              *)

Busy(h) == handler[h].pc # "free"
Release(h) == handler' = [handler EXCEPT ![h] = Free]
Wait(h, pc, c, o, pending) ==
  handler' = [handler EXCEPT
    ![h] = [pc |-> pc, call |-> c, outcome |-> o, pending |-> pending]]

(* New content for the file is applied before the call is scheduled.        *)
ApplyInline_RunsFirst(h, c, st) ==
  /\ Attempt(SetStatus(st, c, "scheduled"), BatchOf[c], finalizing)
  /\ Wait(h, "inline", c, "ProceedInline", {})
ApplyInline(h, c, st) ==
  NoAttempt(st) /\ Wait(h, "inline", c, "ProceedInline", {})

(* From the last await of onConfirm and auto-approval to the next one; st   *)
(* is toolCalls as auto-approval left it.                                   *)
Decide(h, c, o, st) ==
  \/ /\ o = "Cancel" \/ BatchOf[c] \in aborted
     /\ Attempt(SetStatus(st, c, "cancelled"), BatchOf[c], finalizing)
     /\ Release(h)
  \/ /\ o = "ModifyWithEditor" /\ BatchOf[c] \notin aborted
     /\ \/ \* the tool is not modifiable
           Attempt(st, BatchOf[c], finalizing) /\ Release(h)
        \/ \* getPreferredEditor() is undefined
           NoAttempt(st) /\ Release(h)
        \/ /\ NoAttempt(SetStatus(st, c, "awaiting_approval"))
           /\ Wait(h, "editor", c, o, {})
  \/ /\ o \in Proceed \ {"ProceedInline"} /\ BatchOf[c] \notin aborted
     /\ Attempt(SetStatus(st, c, "scheduled"), BatchOf[c], finalizing)
     /\ Release(h)
  \/ /\ o = "ProceedInline" /\ BatchOf[c] \notin aborted
     /\ ApplyInline(h, c, st)

(* autoApproveCompatiblePendingTools awaits shouldConfirmExecute of the     *)
(* pending calls one by one; with none left the answer itself is decided.   *)
AutoApproveOn(h, c, pending, st) ==
  IF pending = {}
  THEN Decide(h, c, "ProceedAlways", st)
  ELSE Wait(h, "autoApprove", c, "ProceedAlways", pending) /\ NoAttempt(st)

(* From the settled originalOnConfirm on: ProceedAlways first goes through  *)
(* the other calls that wait for approval at this moment.                   *)
AfterOnConfirm(h, c, o) ==
  IF o = "ProceedAlways"
  THEN AutoApproveOn(h, c,
         {d \in Calls \ {c} : toolCalls[d] = "awaiting_approval"}, toolCalls)
  ELSE Decide(h, c, o, toolCalls)

(* An answer to a call that no longer awaits approval: there is nothing to  *)
(* confirm and nothing to edit (the code throws for ModifyWithEditor), but  *)
(* the outcome is carried out all the same.                                 *)
AnswerLate(h, c, o) ==
  IF o = "ModifyWithEditor" /\ BatchOf[c] \notin aborted
  THEN UNCHANGED <<callVars, handler>>
  ELSE AfterOnConfirm(h, c, IF o = "ProceedInline" THEN "ProceedOnce" ELSE o)

(* A decision about c overlaps an earlier one that has taken effect or that *)
(* an invocation still works on.  Cancel during an edit does not.           *)
Overlaps(c, o) ==
  \/ toolCalls[c] \in {"scheduled", "absent"} \/ launches[c] > 0
  \/ \E h \in Handlers : /\ Busy(h) /\ handler[h].call = c
                         /\ ~ (o = "Cancel" /\ handler[h].pc = "editor")
Remember(c, o) == again' = IF Overlaps(c, o) THEN again \cup {c} ELSE again

(* The user answers a prompt that a client shows, also a second time or for *)
(* a call that is no longer waiting: the prompt of the terminal takes keys  *)
(* until it is rendered again, and two messages to the agent server may     *)
(* answer one call.  For an ordinary tool originalOnConfirm settles at      *)
(* once; for a call with an IDE diff it waits for the IDE's verdict.        *)
Answer(h, c, o) ==
  /\ EventTurn
  /\ ~ Busy(h) /\ c \in prompts
  /\ Overlaps(c, o) => c \in Repeated
  /\ IF toolCalls[c] # "awaiting_approval" THEN AnswerLate(h, c, o)
     ELSE IF c \in IdeCalls /\ ide[c] \notin {"accepted", "rejected"}
     THEN Wait(h, "onConfirm", c, o, {}) /\ UNCHANGED callVars
     ELSE AfterOnConfirm(h, c, o)
  /\ consented' = IF o \in Proceed THEN consented \cup {c} ELSE consented
  /\ refused' = IF o = "Cancel" THEN refused \cup {c} ELSE refused
  /\ Remember(c, o)
  /\ UNCHANGED <<requestVars, scheduling, ide, aborted>>

(* The clients show the prompts of the calls that still wait, no others.    *)
Rerender ==
  /\ EventTurn
  /\ prompts' = {c \in prompts : toolCalls[c] = "awaiting_approval"}
  /\ UNCHANGED <<toolCalls, finalizing, result, running, launches, requestVars,
                 scheduling, handler, ide, aborted, consentVars>>

(* The IDE (or ideClient.resolveDiffFromCli after an answer in the          *)
(* terminal) settles ideConfirmation; the .then of _schedule starts an      *)
(* invocation of its own.                                                   *)
IdeResolves(h, c, verdict) ==
  /\ EventTurn
  /\ ~ Busy(h) /\ ide[c] = "pending"
  /\ ide' = [ide EXCEPT ![c] = verdict]
  /\ LET o == IF verdict = "accepted" THEN "ProceedOnce" ELSE "Cancel"
     IN  /\ IF toolCalls[c] = "awaiting_approval"
            THEN Wait(h, "onConfirm", c, o, {}) /\ UNCHANGED callVars
            ELSE Decide(h, c, o, toolCalls)
         /\ consented' = IF o = "ProceedOnce" THEN consented \cup {c} ELSE consented
         /\ refused' = IF o = "Cancel" THEN refused \cup {c} ELSE refused
         /\ Remember(c, o)
  /\ UNCHANGED <<requestVars, scheduling, aborted>>

OnConfirmSettles(h) ==
  /\ handler[h].pc = "onConfirm"
  /\ ide[handler[h].call] \in {"accepted", "rejected"}
  /\ AfterOnConfirm(h, handler[h].call, handler[h].outcome)
  /\ UNCHANGED <<requestVars, scheduling, ide, aborted, consentVars>>

(* shouldConfirmExecute settles for a pending call d and no longer asks.    *)
AutoApprove(h, d) ==
  /\ EventTurn
  /\ handler[h].pc = "autoApprove" /\ d \in handler[h].pending
  /\ AutoApproveOn(h, handler[h].call, handler[h].pending \ {d},
                   SetStatus(toolCalls, d, "scheduled"))
  /\ consented' = consented \cup {d} /\ Remember(d, "ProceedAlways")
  /\ UNCHANGED <<requestVars, scheduling, ide, aborted, refused>>

(* It still asks (and, for an IDE call, has opened a second diff whose      *)
(* resolver replaced the first one's), or it throws.                        *)
StillPending(h, d) ==
  /\ EventTurn
  /\ handler[h].pc = "autoApprove" /\ d \in handler[h].pending
  /\ AutoApproveOn(h, handler[h].call, handler[h].pending \ {d}, toolCalls)
  /\ ide' = IF ide[d] = "pending" THEN [ide EXCEPT ![d] = "lost"] ELSE ide
  /\ UNCHANGED <<requestVars, scheduling, aborted, consentVars>>

(* setArgsInternal: new arguments the tool rejects make any call that is    *)
(* still listed an error, whatever its status.                              *)
SetArgs(st, c, valid) ==
  IF valid \/ st[c] = "absent" THEN st ELSE [st EXCEPT ![c] = "error"]

EditorCloses(h, valid) ==
  /\ EventTurn
  /\ handler[h].pc = "editor"
  /\ LET c == handler[h].call
     IN  Attempt(SetStatus(SetArgs(toolCalls, c, valid), c, "awaiting_approval"),
                 BatchOf[c], finalizing)
  /\ Release(h)
  /\ UNCHANGED <<requestVars, scheduling, ide, aborted, consentVars>>

(* modifyWithEditor rejects (the editor exits with an error), or            *)
(* getCurrentContent of an inline edit does: the answer is lost, the prompt *)
(* stays.                                                                   *)
EditFails(h) ==
  /\ EventTurn
  /\ handler[h].pc \in {"editor", "inline"}
  /\ Release(h)
  /\ UNCHANGED <<callVars, requestVars, scheduling, ide, aborted, consentVars>>

(* _applyInlineModify: getCurrentContent settles, the arguments change, the *)
(* prompt is refreshed and the call is scheduled.                           *)
InlineModified(h, valid) ==
  /\ EventTurn
  /\ handler[h].pc = "inline"
  /\ LET c == handler[h].call
     IN  Attempt(SetStatus(SetArgs(toolCalls, c, valid), c, "scheduled"),
                 BatchOf[c], finalizing)
  /\ Release(h)
  /\ UNCHANGED <<requestVars, scheduling, ide, aborted, consentVars>>

-----------------------------------------------------------------------------
(* Tools and the consumer of finished batches (external to the scheduler).  *)

(* invocation.execute() settles; after an abort its result is not looked at. *)
ToolSettles(r, new) ==
  /\ EventTurn
  /\ r \in running
  /\ IF r.signal \in aborted THEN new = "cancelled" ELSE new # "cancelled"
  /\ running' = running \ {r}
  /\ Publish(SetStatus(toolCalls, r.call, new), finalizing)
  /\ UNCHANGED <<requestVars, scheduling, handler, ide, aborted, launches,
                 consentVars>>

(* onAllToolCallsComplete settles: the queue's next batch starts in the     *)
(* same segment.                                                            *)
ReportDone_ForgetsQueue ==
  /\ EventTurn
  /\ finalizing # {} /\ finalizing' = {}
  /\ UNCHANGED <<requestVars, toolCalls, prompts, scheduling, handler, ide,
                 aborted, running, result, launches, consentVars>>
ReportDone ==
  /\ EventTurn
  /\ finalizing # {} /\ requestQueue = <<>>
  /\ finalizing' = {}
  /\ UNCHANGED <<requestVars, toolCalls, prompts, scheduling, handler, ide,
                 aborted, running, result, launches, consentVars>>

ReportDoneStartNext ==
  /\ EventTurn
  /\ finalizing # {} /\ requestQueue # <<>>
  /\ requestQueue' = Tail(requestQueue)
  /\ StartBatch(Head(requestQueue), {})
  /\ UNCHANGED <<submitted, rejected, handler, ide, aborted, consentVars>>

-----------------------------------------------------------------------------
RequestEvent ==
  \E b \in Batches : Schedule(b) \/ ScheduleQueued(b) \/ Abort(b)
ValidationEvent == NoConfirmation \/ AskUser \/ ValidationThrows
AnswerEvent(h) ==
  \E c \in Calls : \/ \E o \in Outcome : Answer(h, c, o)
                   \/ \E v \in {"accepted", "rejected"} : IdeResolves(h, c, v)
HandlerEvent(h) ==
  \/ \E d \in Calls : AutoApprove(h, d) \/ StillPending(h, d)
  \/ \E valid \in BOOLEAN : EditorCloses(h, valid) \/ InlineModified(h, valid)
  \/ EditFails(h) \/ OnConfirmSettles(h)
ToolEvent == \E r \in running, new \in Terminal : ToolSettles(r, new)
ReportEvent == ReportDone \/ ReportDoneStartNext

Next ==
  \/ RequestEvent \/ ValidationEvent \/ ToolEvent \/ ReportEvent \/ Rerender
  \/ \E h \in Handlers : AnswerEvent(h) \/ HandlerEvent(h)

Spec == Init /\ [][Next]_vars

-----------------------------------------------------------------------------
(* Safety                                                                  *)

(* While a batch is being reported no call is listed and no _schedule loop  *)
(* is under way, whatever stale answers are in flight.  This is why the     *)
(* "Cannot schedule new tool calls while other tool calls are actively      *)
(* running" of _schedule never rejects a request taken from the queue.      *)
ReportsWhileIdle ==
  finalizing # {} => Live(toolCalls) = {} /\ ~ IsScheduling

(* A request waits in the queue only while something is under way that will *)
(* take it out: only the end of a report does, so a queue next to an idle   *)
(* scheduler would be stuck for ever.                                       *)
NoLostWakeup ==
  requestQueue # <<>> =>
    Live(toolCalls) # {} \/ finalizing # {}

(* No tool runs that needed an approval it did not get, by the user, by the *)
(* IDE or by the tool's own shouldConfirmExecute.                           *)
ConsentBeforeExecution == \A c \in Calls : launches[c] > 0 => c \in consented

(* The next four hold for the calls that are decided once: nothing in the   *)
(* scheduler keeps a second decision from being carried out on a call that  *)
(* is scheduled or runs already, and it then runs again.                    *)

(* invocation.execute is called at most once for a request, however answers *)
(* to it and to other calls, auto-approvals, edits and aborts interleave.   *)
ExecutesAtMostOnce == \A c \in Calls \ again : launches[c] <= 1

(* A call the user or the IDE refused never runs and is never reported as   *)
(* done, whatever auto-approvals, edits and late answers come to it.        *)
RefusalHonoured ==
  \A c \in refused \ again : launches[c] = 0 /\ result[c] # "success"

(* A tool never runs while the user edits its arguments or while edited     *)
(* arguments are being applied to its call.                                 *)
NoRunDuringEdit ==
  \A h \in Handlers :
    handler[h].pc \in {"editor", "inline"} /\ handler[h].call \notin again =>
      \A r \in running : r.call # handler[h].call

(* A call moves forward only: nothing executing goes back to being          *)
(* scheduled or asked about, a success or an error is kept until it is      *)
(* reported, a cancelled call is reported as cancelled (or as an error, if  *)
(* it was cancelled during an edit whose arguments the tool then rejects),  *)
(* and a reported call never comes back.                                    *)
Keeps(old, new) == new = old \/ (old = "cancelled" /\ new = "error")
ForwardOnly ==
  [][\A c \in Calls \ again' :
       /\ toolCalls[c] = "executing" =>
            toolCalls'[c] \in {"executing", "absent"} \cup Terminal
       /\ toolCalls[c] \in Terminal =>
            \/ Keeps(toolCalls[c], toolCalls'[c])
            \/ toolCalls'[c] = "absent" /\ Keeps(toolCalls[c], result'[c])
       /\ result[c] # "none" => result'[c] = result[c]]_vars

-----------------------------------------------------------------------------
(* Liveness                                                                *)

(* Fairness: the promises of tools, of shouldConfirmExecute, of the editor  *)
(* and of the consumer settle, and a user whose prompt keeps coming back    *)
(* gives a decisive answer in the end (she may ask to modify a call any     *)
(* number of times before), in the terminal or in the IDE.                  *)
Fairness ==
  /\ WF_vars(ValidationEvent) /\ WF_vars(ReportEvent)
  /\ \A h \in Handlers : WF_vars(HandlerEvent(h))
  /\ \A c \in Calls :
       /\ WF_vars(\E r \in running, new \in Terminal :
                    r.call = c /\ ToolSettles(r, new))
       /\ SF_vars(\E h \in Handlers, o \in {"ProceedOnce", "Cancel"} :
                    toolCalls[c] = "awaiting_approval" /\ Answer(h, c, o))
       /\ WF_vars(\E h \in Handlers, v \in {"accepted", "rejected"} :
                    IdeResolves(h, c, v))

FairSpec == Spec /\ Fairness

Reported(b) == \A c \in CallsOf(b) : result[c] # "none" /\ c \notin finalizing

(* Every request ends: its results have been taken by the consumer, or its  *)
(* promise was rejected because it was aborted in the queue.  Only the loss *)
(* of an IDE's verdict, see StillPending, can keep the scheduler waiting.   *)
EveryRequestEnds ==
  \A b \in Batches :
    b \in submitted ~> \/ Reported(b) \/ b \in rejected
                       \/ \E c \in IdeCalls : ide[c] = "lost"

-----------------------------------------------------------------------------
(* Refinement: the scheduler serves requests as SerialRequests promises.    *)

ActiveBatch ==
  LET cs == IF finalizing # {} THEN finalizing ELSE Live(toolCalls)
  IN  IF cs = {} THEN None ELSE BatchOf[CHOOSE c \in cs : TRUE]

Requests == INSTANCE SerialRequests WITH
  waiting <- requestQueue, active <- ActiveBatch,
  finished <- {b \in Batches : Reported(b)}

(* Requests are served one at a time, first come first served, each ended   *)
(* exactly once or withdrawn from the queue, and the one being served ends; *)
(* for as long as no call is decided a second time: one that runs and is    *)
(* then scheduled again may stay so while others run, IsRunning does not    *)
(* see it, and the next request is mixed with its request.                  *)
ServesRequestsSerially ==
  /\ Requests!Init /\ [][again' # {} \/ Requests!Next]_(Requests!vars)
  /\ [](again = {}) => Requests!Progress

=============================================================================
