------------------------------ MODULE Subagent ------------------------------
(***************************************************************************)
(* One call of the task tool: TaskToolInvocation.execute                   *)
(* (packages/core/src/tools/task.ts) launches a subagent and runs its      *)
(* conversation, SubAgentScope.runInteractive or runNonInteractive         *)
(* (packages/core/src/core/subagent.ts), until the subagent is done, a     *)
(* limit is reached, something fails, or the user aborts.                  *)
(*                                                                         *)
(* An interactive subagent has a scheduler of its own and asks the user    *)
(* for approvals; ToolScheduler is the model of it, here it is reduced to  *)
(* what it promises: a call that is answered ends, and when all have ended *)
(* they are reported once.  Nobody sees its prompts unless a               *)
(* schedulerFactory was given.  A non-interactive one runs its tools one   *)
(* by one, no approval asked.  An action is the code between two awaits.              *)
(*                                                                         *)
(* Operators named X_Y, next to X, are mutants: X with a plausible bug.    *)
(***************************************************************************)
EXTENDS Naturals

CONSTANTS
  Slots,     \* what the model may request in one reply
  Emit,      \* the slot of the scope's own tool, self_emitvalue
  TurnBound  \* bound: turn limits of subagents that have one

ASSUME ConstantsOK == Emit \in Slots /\ TurnBound \in Nat \ {0}

VARIABLES
  interactive,  \* which of the two loops runs
  max_turns,    \* 0: no limit
  timed,        \* whether there is a max_time_minutes
  attended,     \* a schedulerFactory lets the terminal show its prompts
  pc,
  signal,       \* the signal of the request with the task call has fired
  aborted,      \* execute has seen it
  controller,   \* activeAbortController
  turns,        \* turnCounter
  late,         \* max_time_minutes have passed
  requested,    \* what the current reply requested
  call,         \* the state of each requested tool call
  channel,      \* completionResolver and pendingCompletedCalls
  emitted,      \* every declared output is in emitted_vars
  terminate_reason,
  result,       \* what execute returned
  disposals,    \* how often the runtime was disposed
  launched      \* history: there is a runtime to dispose of

\* what a run does not change
fixedVars == <<interactive, max_turns, timed, attended, launched>>
turnVars == <<turns, requested, emitted>>
toolVars == <<call, channel>>
endVars == <<terminate_reason, result, disposals>>
vars == <<fixedVars, turnVars, toolVars, endVars, pc, signal, aborted,
          controller, late>>

Reason == {"ERROR", "TIMEOUT", "GOAL", "MAX_TURNS"}
CallState == {"none", "listed", "validating", "prompt", "running", "ended"}

TypeOK ==
  /\ interactive \in BOOLEAN /\ timed \in BOOLEAN
  /\ attended \in BOOLEAN /\ launched \in BOOLEAN
  /\ max_turns \in 0..TurnBound
  /\ pc \in {"idle", "launching", "chat", "opening", "stream", "ending",
             "tools", "todos", "done"}
  /\ signal \in BOOLEAN /\ aborted \in BOOLEAN /\ late \in BOOLEAN
  /\ controller \in {"none", "live", "aborted"}
  /\ turns \in 0..TurnBound
  /\ requested \subseteq Slots
  /\ call \in [Slots -> CallState]
  /\ channel \in {"none", "waiting", "stored", "resolved"}
  /\ emitted \in BOOLEAN
  /\ terminate_reason \in Reason
  /\ result \in {"none", "success", "cancelled", "error"}
  /\ disposals \in 0..1

NoCalls == [s \in Slots |-> "none"]

Init ==
  /\ interactive \in BOOLEAN /\ timed \in BOOLEAN /\ attended \in BOOLEAN
  /\ launched = FALSE
  /\ max_turns \in 0..TurnBound
  /\ emitted \in BOOLEAN
  /\ pc = "idle"
  /\ signal = FALSE /\ aborted = FALSE /\ late = FALSE
  /\ controller = "none" /\ channel = "none"
  /\ turns = 0 /\ requested = {} /\ call = NoCalls
  /\ terminate_reason = "ERROR" /\ result = "none" /\ disposals = 0

-----------------------------------------------------------------------------
(* execute: returning                                                      *)

(* The result goes back, before or without a subagent.                     *)
ReturnEarly(r) ==
  /\ pc' = "done" /\ result' = r
  /\ UNCHANGED <<fixedVars, turnVars, toolVars, aborted, controller, late,
                 terminate_reason, disposals>>

(* execute disposes of the runtime before it returns, whatever the result. *)
Dispose_OnSuccess(r) ==
  /\ pc' = "done" /\ result' = r
  /\ disposals' = IF r = "success" THEN disposals + 1 ELSE disposals
Dispose(r) ==
  /\ pc' = "done" /\ result' = r
  /\ disposals' = disposals + 1

(* The end of a run: its finally forgets the controller.                   *)
Return_DisposesAgain(r) ==
  /\ pc' = "done" /\ result' = r
  /\ controller' = "none"
  /\ disposals' = disposals + (IF r = "cancelled" THEN 2 ELSE 1)
Return(r) == Dispose(r) /\ controller' = "none"

Finish == Return(IF aborted THEN "cancelled" ELSE "success")
Break(reason) == Finish /\ terminate_reason' = reason
Fail == Return("error") /\ terminate_reason' = "ERROR"

-----------------------------------------------------------------------------
(* execute: the launch                                                     *)

Execute ==
  /\ pc = "idle"
  /\ \/ signal /\ ReturnEarly("cancelled")
     \/ ~signal /\ ReturnEarly("error")      \* no orchestrator
     \/ /\ ~signal
        /\ pc' = "launching"
        /\ UNCHANGED <<turnVars, toolVars, endVars, aborted, controller, late>>
  /\ UNCHANGED <<fixedVars, signal>>

LaunchFails ==
  /\ pc = "launching" /\ ReturnEarly("error")
  /\ UNCHANGED <<fixedVars, signal>>

(* The listener is set up after the launch; a signal that fired meanwhile  *)
(* is looked at here.  cancel() finds no controller yet.                   *)
Launched_NoSecondLook ==
  /\ pc = "launching" /\ pc' = "chat" /\ launched' = TRUE
  /\ UNCHANGED <<interactive, max_turns, timed, attended, turnVars, toolVars,
                 endVars, signal, aborted, controller, late>>
Launched ==
  /\ pc = "launching" /\ pc' = "chat"
  /\ aborted' = signal /\ launched' = TRUE
  /\ UNCHANGED <<interactive, max_turns, timed, attended, turnVars, toolVars,
                 endVars, signal, controller, late>>

(* The user aborts.  Before the run has its controller execute remembers   *)
(* it, but the run never learns of it.                                     *)
Abort ==
  /\ pc # "done" /\ ~signal
  /\ signal' = TRUE
  /\ aborted' = (pc \notin {"idle", "launching"})
  /\ controller' = IF controller = "live" THEN "aborted" ELSE controller
  /\ UNCHANGED <<fixedVars, turnVars, toolVars, endVars, pc, late>>

(* max_time_minutes have passed since the run started.                     *)
Tick ==
  /\ timed /\ ~late /\ controller # "none"
  /\ late' = TRUE
  /\ UNCHANGED <<fixedVars, turnVars, toolVars, endVars, pc, signal, aborted,
                 controller>>

-----------------------------------------------------------------------------
(* The loop of the conversation, up to the next request to the model.      *)

NextTurn ==
  /\ turns' = IF turns < TurnBound THEN turns + 1 ELSE turns
  /\ requested' = {}
  /\ pc' = IF interactive THEN "stream" ELSE "opening"
  /\ UNCHANGED endVars

AtTurnLimit == max_turns # 0 /\ turns >= max_turns
LoopHead ==
  \/ /\ AtTurnLimit \/ late
     /\ Break(IF AtTurnLimit THEN "MAX_TURNS" ELSE "TIMEOUT")
     /\ UNCHANGED <<turns, requested>>
  \/ ~AtTurnLimit /\ ~late /\ NextTurn /\ UNCHANGED controller

(* createChatObject settles: with a chat, without one, or it throws.       *)
ChatReady ==
  /\ pc = "chat"
  /\ NextTurn /\ controller' = "live"
  /\ UNCHANGED <<fixedVars, toolVars, signal, aborted, late, emitted>>
NoChat ==
  /\ pc = "chat"
  /\ Finish \/ Return("error")
  /\ UNCHANGED <<fixedVars, turnVars, toolVars, signal, aborted, late,
                 terminate_reason>>

(* Between the controller and the try something throws (schedulerFactory,  *)
(* the declarations of tools): no finally forgets the controller.          *)
SetupFails ==
  /\ pc = "chat"
  /\ Dispose("error") /\ controller' = "live"
  /\ UNCHANGED <<fixedVars, turnVars, toolVars, signal, aborted, late,
                 terminate_reason>>

-----------------------------------------------------------------------------
(* The reply of the model.  In "stream" more of it is to come, in "ending" *)
(* only its end.                                                           *)

streamFrame == <<fixedVars, signal, aborted, late>>

Opened ==
  /\ pc = "opening"
  /\ \/ late /\ Break("TIMEOUT")
     \/ ~late /\ pc' = "stream" /\ UNCHANGED <<endVars, controller>>
  /\ UNCHANGED <<turnVars, toolVars, streamFrame>>

Request(s) ==
  /\ pc = "stream" /\ controller = "live"
  /\ s \notin requested /\ requested' = requested \cup {s}
  /\ UNCHANGED <<turns, emitted, toolVars, endVars, pc, controller,
                 streamFrame>>

LastEvent ==
  /\ pc = "stream" /\ controller = "live"
  /\ pc' = "ending"
  /\ UNCHANGED <<turnVars, toolVars, endVars, controller, streamFrame>>

(* The next event after an abort ends the run; Turn.run makes one of any   *)
(* error, so an aborted interactive stream cannot fail.                    *)
StreamCancelled ==
  /\ controller = "aborted"
  /\ pc = "stream" \/ (pc = "ending" /\ interactive)
  /\ Finish
  /\ UNCHANGED <<turnVars, toolVars, terminate_reason, streamFrame>>

StreamFails ==
  /\ pc \in {"opening", "stream", "ending"}
  /\ interactive => controller = "live"
  /\ Fail
  /\ UNCHANGED <<turnVars, toolVars, streamFrame>>

(* The loop of _schedule looks at the signal before it waits for a call's   *)
(* shouldConfirmExecute, and not after: once aborted, it cancels the calls  *)
(* it has not come to.  calls is the state the loop has left them in.       *)
Validate(calls) ==
  LET left == {s \in Slots : calls[s] = "listed"}
  IN  IF controller = "aborted" \/ left = {}
      THEN call' = [s \in Slots |-> IF s \in left THEN "ended" ELSE calls[s]]
      ELSE \E s \in left : call' = [calls EXCEPT ![s] = "validating"]

Scheduled == requested \ {Emit}
AwaitCompletedCalls == IF channel = "stored" THEN "resolved" ELSE "waiting"
Schedule ==
  /\ pc' = "tools"
  /\ channel' = AwaitCompletedCalls
  /\ Validate([s \in Slots |-> IF s \in Scheduled THEN "listed" ELSE "none"])
  /\ UNCHANGED <<turns, requested, controller, endVars>>

(* self_emitvalue is carried out at once; it may lack its arguments, or    *)
(* not be the last of the declared outputs.                                *)
Emits == emitted' \in IF Emit \in requested THEN {emitted, TRUE} ELSE {emitted}

(* The model has stopped: is everything done?                              *)
GoOn(where) ==
  \/ late /\ Break("TIMEOUT")
  \/ ~late /\ pc' = where /\ UNCHANGED <<controller, endVars>>

Replied ==
  \/ /\ interactive /\ requested # {}
     /\ Emits
     /\ \/ Scheduled # {} /\ Schedule
        \/ Scheduled = {} /\ LoopHead /\ UNCHANGED toolVars
  \/ /\ ~interactive \/ requested = {}
     /\ GoOn(IF requested = {} THEN "todos" ELSE "tools")
     /\ UNCHANGED <<turnVars, toolVars>>

StreamEnds == pc = "ending" /\ Replied /\ UNCHANGED streamFrame

(* An invalid stream is an event like others to runInteractive; it fails a *)
(* non-interactive run.                                                    *)
StreamInvalid ==
  /\ interactive /\ pc \in {"stream", "ending"} /\ controller = "live"
  /\ Replied
  /\ UNCHANGED streamFrame

-----------------------------------------------------------------------------
(* Tools                                                                   *)

toolFrame == <<turnVars, endVars, pc, controller, streamFrame>>
Becomes(s, st) == call' = [call EXCEPT ![s] = st]

(* The scheduler of an interactive run: a call is refused, asks the user,  *)
(* runs, and ends.  An abort takes no prompt back; it is looked at when the *)
(* answer comes.                                                           *)
Validated(s) ==
  /\ call[s] = "validating"
  /\ \E st \in {"prompt", "running", "ended"} : Validate([call EXCEPT ![s] = st])
  /\ UNCHANGED <<channel, toolFrame>>
Answered(s) ==
  /\ call[s] = "prompt" /\ attended
  /\ Becomes(s, "ended") \/ (controller = "live" /\ Becomes(s, "running"))
  /\ UNCHANGED <<channel, toolFrame>>
ToolEnds(s) ==
  /\ call[s] = "running"
  /\ Becomes(s, IF interactive THEN "ended" ELSE "none")
  /\ UNCHANGED <<channel, toolFrame>>

(* handleCompletion: the waiting promise is resolved, or the calls are     *)
(* kept for the next one who waits.                                        *)
HandleCompletion_ClearsFirst == IF channel = "waiting" THEN "none" ELSE "stored"
HandleCompletion == IF channel = "waiting" THEN "resolved" ELSE "stored"
Report ==
  /\ call # NoCalls /\ \A s \in Slots : call[s] \in {"none", "ended"}
  /\ call' = NoCalls
  /\ channel' = HandleCompletion
  /\ UNCHANGED toolFrame

CallsCompleted ==
  /\ pc = "tools" /\ interactive /\ channel = "resolved"
  /\ LoopHead
  /\ channel' = "none"
  /\ UNCHANGED <<call, emitted, streamFrame>>

(* processFunctionCalls of a non-interactive run: the requests one after   *)
(* the other, whether aborted or not; a call may be refused without running. *)
Perform(s) ==
  /\ pc = "tools" /\ ~interactive /\ call = NoCalls
  /\ s \in requested /\ requested' = requested \ {s}
  /\ \/ s = Emit /\ emitted' \in {emitted, TRUE} /\ UNCHANGED call
     \/ s # Emit /\ Becomes(s, "running") /\ UNCHANGED emitted
     \/ s # Emit /\ UNCHANGED <<call, emitted>>
  /\ UNCHANGED <<turns, channel, endVars, pc, controller, streamFrame>>
AllPerformed ==
  /\ pc = "tools" /\ ~interactive /\ call = NoCalls /\ requested = {}
  /\ LoopHead
  /\ UNCHANGED <<emitted, toolVars, streamFrame>>

(* The todo list was read: something is left to do, or outputs are         *)
(* missing, and the model is told so; or the goal is reached.              *)
TodosRead ==
  /\ pc = "todos"
  /\ \/ LoopHead
     \/ emitted /\ Break("GOAL") /\ UNCHANGED <<turns, requested>>
  /\ UNCHANGED <<emitted, toolVars, streamFrame>>

-----------------------------------------------------------------------------
Launching ==
  Execute \/ LaunchFails \/ Launched \/ ChatReady \/ NoChat \/ SetupFails
Streaming ==
  \/ Opened \/ LastEvent \/ StreamCancelled \/ StreamFails \/ StreamEnds
  \/ StreamInvalid \/ \E s \in Slots : Request(s)
UsingTools ==
  \/ Report \/ CallsCompleted \/ AllPerformed \/ TodosRead
  \/ \E s \in Slots : Validated(s) \/ Answered(s) \/ ToolEnds(s) \/ Perform(s)
Proceed == Launching \/ Streaming \/ UsingTools

Next == Proceed \/ Abort \/ Tick

Spec == Init /\ [][Next]_vars

(* The promises of the model server and of the tools settle, the user      *)
(* answers the prompts that are shown, and time passes.                    *)
FairSpec == Spec /\ WF_vars(Proceed) /\ WF_vars(Tick)

-----------------------------------------------------------------------------
(* A task the user aborted is never reported to the parent's model as      *)
(* done, at whatever moment the abort came: during the launch, when nobody *)
(* listens yet, before the run has anything to cancel, or while it runs.   *)
AbortIsReported == pc = "done" /\ signal => result # "success"

(* When the result goes back, nothing of the subagent goes on behind it:   *)
(* no tool runs, no prompt waits for an answer, no completion is left      *)
(* over.  Whatever the result, a runtime that was launched has been        *)
(* disposed of, and once.                                                  *)
QuietWhenReturned ==
  pc = "done" =>
    /\ call = NoCalls /\ channel = "none"
    /\ disposals = IF launched THEN 1 ELSE 0

(* A subagent with a limit of turns or time, and one that was told of the  *)
(* user's abort, ends: it never waits for a completion it missed, and      *)
(* nothing the model requests keeps it going.  The exception is a call     *)
(* that asks for an approval where no terminal shows it: neither limit nor *)
(* abort ends that wait.                                                   *)
MustEnd == max_turns # 0 \/ timed \/ controller = "aborted"
AsksNobody == ~attended /\ \E s \in Slots : call[s] = "prompt"
EndsWhenItMust == MustEnd ~> (pc = "done" \/ AsksNobody)

=============================================================================
