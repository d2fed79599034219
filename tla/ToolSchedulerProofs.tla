------------------------- MODULE ToolSchedulerProofs -------------------------
(***************************************************************************)
(* Theorems about ToolScheduler, for every value of its constants and for  *)
(* every client.                                                           *)
(*                                                                         *)
(* First type correctness, no execution without consent, and the queue of  *)
(* requests: they hold whatever answers come, and however often.  Then,    *)
(* for the calls that are decided once: such a call is executed at most    *)
(* once, never when it was refused and never during an edit of it, and it  *)
(* moves forward only.                                                     *)
(***************************************************************************)
EXTENDS ToolScheduler, TLAPS

(* The part of TypeOK that a change of toolCalls touches.                   *)
CallTypes ==
  /\ toolCalls \in [Calls -> Status]
  /\ finalizing \subseteq Calls
  /\ result \in [Calls -> Terminal \cup {"none"}]
  /\ running \subseteq Execution
  /\ launches \in [Calls -> 0..MaxLaunches]
  /\ prompts \subseteq Calls
LoopTypes ==
  scheduling \in {NotScheduling}
    \cup [batch : Batches, call : Calls, rest : SUBSET Calls]
AnswerTypes ==
  handler \in [Handlers -> HandlerState]
OtherTypes ==
  /\ requestQueue \in Seq(Batches)
  /\ ide \in [Calls -> IdeState]
  /\ aborted \subseteq Batches
  /\ submitted \subseteq Batches /\ rejected \subseteq Batches
  /\ consented \subseteq Calls /\ refused \subseteq Calls /\ again \subseteq Calls

(* TypeOK is these four parts.                                              *)
LEMMA TypeParts ==
  TypeOK <=> CallTypes /\ LoopTypes /\ AnswerTypes /\ OtherTypes
BY DEF TypeOK, CallTypes, LoopTypes, AnswerTypes, OtherTypes

-----------------------------------------------------------------------------
(* What the operators on toolCalls return.                                 *)

(* setStatusInternal keeps the shape of toolCalls.                          *)
LEMMA SetStatusType ==
  ASSUME NEW st \in [Calls -> Status], NEW c \in Calls, NEW new \in Status
  PROVE  SetStatus(st, c, new) \in [Calls -> Status]
BY DEF SetStatus

(* setArgsInternal keeps the shape of toolCalls.                            *)
LEMMA SetArgsType ==
  ASSUME NEW st \in [Calls -> Status], NEW c \in Calls, NEW valid
  PROVE  SetArgs(st, c, valid) \in [Calls -> Status]
BY DEF SetArgs, Status, Terminal

(* attemptExecutionOfScheduledCalls keeps the shape of toolCalls.           *)
LEMMA AfterAttemptType ==
  ASSUME NEW st \in [Calls -> Status]
  PROVE  AfterAttempt(st) \in [Calls -> Status]
BY DEF AfterAttempt, Status, Terminal

(* checkAndNotifyCompletion: toolCalls, the calls being reported and their  *)
(* results keep their shape.                                                *)
LEMMA PublishType ==
  ASSUME CallTypes, NEW st \in [Calls -> Status], NEW fin \in SUBSET Calls,
         Publish(st, fin)
  PROVE  /\ toolCalls' \in [Calls -> Status]
         /\ finalizing' \subseteq Calls
         /\ result' \in [Calls -> Terminal \cup {"none"}]
         /\ prompts' \subseteq Calls
<1>1. "absent" \in Status
  BY DEF Status
<1>2. toolCalls' \in [Calls -> Status]
  BY <1>1 DEF Publish
<1>3. finalizing' \subseteq Calls
  BY DEF Publish, Live
<1>4. AllTerminal(st) => \A c \in Live(st) : st[c] \in Terminal
  BY DEF AllTerminal
<1>5. result' \in [Calls -> Terminal \cup {"none"}]
  BY <1>4 DEF Publish, CallTypes
<1>6. prompts' \subseteq Calls
  BY DEF Publish, CallTypes
<1> QED
  BY <1>2, <1>3, <1>5, <1>6

(* An attempt to start calls, followed by the completion check.             *)
LEMMA AttemptType ==
  ASSUME CallTypes, ConstantsOK, NEW st \in [Calls -> Status],
         NEW fin \in SUBSET Calls, NEW b \in Batches, Attempt(st, b, fin)
  PROVE  CallTypes'
<1>1. AfterAttempt(st) \in [Calls -> Status] /\ Publish(AfterAttempt(st), fin)
  BY AfterAttemptType DEF Attempt
<1>2. \A c \in Calls : OneMore(c) \in 1..MaxLaunches
  BY DEF OneMore, CallTypes, ConstantsOK
<1>3. Launchable(st) \subseteq Calls
  BY DEF Launchable
<1>4. running' \subseteq Execution
  BY <1>2, <1>3 DEF Attempt, CallTypes, Execution
<1>5. launches' \in [Calls -> 0..MaxLaunches]
  BY <1>2 DEF Attempt, CallTypes, ConstantsOK
<1> QED
  BY <1>1, <1>4, <1>5, PublishType DEF CallTypes

(* A completion check that starts nothing.                                  *)
LEMMA NoAttemptType ==
  ASSUME CallTypes, NEW st \in [Calls -> Status], NoAttempt(st)
  PROVE  CallTypes'
BY PublishType DEF NoAttempt, CallTypes

(* The loop of _schedule up to its next await.                              *)
LEMMA LoopOnType ==
  ASSUME CallTypes, ConstantsOK, NEW st \in [Calls -> Status],
         NEW b \in Batches, NEW rest \in SUBSET Calls, NEW fin \in SUBSET Calls,
         LoopOn(st, b, rest, fin)
  PROVE  CallTypes' /\ LoopTypes'
<1>1. CASE \E c \in rest :
             /\ scheduling' = [batch |-> b, call |-> c, rest |-> rest \ {c}]
             /\ Publish(st, fin) /\ UNCHANGED <<running, launches>>
  <2>1. CallTypes'
    BY <1>1, PublishType DEF CallTypes
  <2>2. LoopTypes'
    BY <1>1 DEF LoopTypes
  <2> QED
    BY <2>1, <2>2
<1>2. CASE /\ scheduling' = NotScheduling
           /\ Attempt([c \in Calls |-> IF c \in rest THEN "cancelled" ELSE st[c]],
                      b, fin)
  <2> DEFINE left == [c \in Calls |-> IF c \in rest THEN "cancelled" ELSE st[c]]
  <2>1. left \in [Calls -> Status]
    BY DEF Status, Terminal
  <2>2. CallTypes'
    BY <1>2, <2>1, AttemptType
  <2> QED
    BY <1>2, <2>2 DEF LoopTypes
<1> QED
  BY <1>1, <1>2 DEF LoopOn

(* A new batch.                                                             *)
LEMMA StartBatchType ==
  ASSUME CallTypes, ConstantsOK, NEW b \in Batches, NEW fin \in SUBSET Calls,
         StartBatch(b, fin)
  PROVE  CallTypes' /\ LoopTypes'
<1>1. PICK bad \in SUBSET CallsOf(b) :
        LoopOn(Listed(b, bad), b, CallsOf(b) \ bad, fin)
  BY DEF StartBatch
<1>2. Listed(b, bad) \in [Calls -> Status]
  BY DEF Listed, CallTypes, Status, Terminal
<1>3. CallsOf(b) \ bad \in SUBSET Calls
  BY DEF CallsOf
<1> QED
  BY <1>1, <1>2, <1>3, LoopOnType

-----------------------------------------------------------------------------
(* handleConfirmationResponse.                                             *)

(* An invocation that returns leaves its slot free.                         *)
LEMMA ReleaseType ==
  ASSUME AnswerTypes, NEW h \in Handlers, Release(h)
  PROVE  handler' \in [Handlers -> HandlerState]
BY DEF AnswerTypes, Release, HandlerState

(* An invocation that waits for onConfirm, for a pending call, for the       *)
(* editor or for the file's content keeps its shape.                        *)
LEMMA WaitType ==
  ASSUME AnswerTypes, NEW h \in Handlers, NEW c \in Calls, NEW o \in Outcome,
         NEW pc \in {"onConfirm", "autoApprove", "editor", "inline"},
         NEW pending \in SUBSET Calls, Wait(h, pc, c, o, pending)
  PROVE  handler' \in [Handlers -> HandlerState]
BY DEF AnswerTypes, Wait, HandlerState

(* The part of handleConfirmationResponse after its awaits.                  *)
LEMMA DecideType ==
  ASSUME CallTypes, AnswerTypes, ConstantsOK, NEW h \in Handlers,
         NEW c \in Calls, NEW o \in Outcome, NEW st \in [Calls -> Status],
         Decide(h, c, o, st)
  PROVE  CallTypes' /\ AnswerTypes'
<1> USE DEF CallTypes
<1>1. finalizing \in SUBSET Calls /\ BatchOf[c] \in Batches
  BY DEF ConstantsOK
<1>2. \A new \in {"cancelled", "scheduled", "awaiting_approval"} :
        SetStatus(st, c, new) \in [Calls -> Status]
  BY SetStatusType DEF Status, Terminal
<1>3. CASE /\ Attempt(SetStatus(st, c, "cancelled"), BatchOf[c], finalizing)
           /\ Release(h)
  BY <1>1, <1>2, <1>3, AttemptType, ReleaseType DEF AnswerTypes
<1>4. CASE /\ Attempt(st, BatchOf[c], finalizing)
           /\ Release(h)
  BY <1>1, <1>4, AttemptType, ReleaseType DEF AnswerTypes
<1>5. CASE NoAttempt(st) /\ Release(h)
  BY <1>5, NoAttemptType, ReleaseType DEF AnswerTypes
<1>6. CASE /\ NoAttempt(SetStatus(st, c, "awaiting_approval"))
           /\ Wait(h, "editor", c, o, {})
  BY <1>2, <1>6, NoAttemptType, WaitType DEF AnswerTypes
<1>7. CASE /\ Attempt(SetStatus(st, c, "scheduled"), BatchOf[c], finalizing)
           /\ Release(h)
  BY <1>1, <1>2, <1>7, AttemptType, ReleaseType DEF AnswerTypes
<1>8. CASE o = "ProceedInline" /\ ApplyInline(h, c, st)
  BY <1>8, NoAttemptType, WaitType DEF AnswerTypes, ApplyInline
<1> QED
  BY <1>3, <1>4, <1>5, <1>6, <1>7, <1>8 DEF Decide

(* The loop of autoApproveCompatiblePendingTools up to its next await.       *)
LEMMA AutoApproveOnType ==
  ASSUME CallTypes, AnswerTypes, ConstantsOK, NEW h \in Handlers,
         NEW c \in Calls, NEW pending \in SUBSET Calls,
         NEW st \in [Calls -> Status], AutoApproveOn(h, c, pending, st)
  PROVE  CallTypes' /\ AnswerTypes'
<1>1. "ProceedAlways" \in Outcome
  BY DEF Outcome, Proceed
<1> QED
  BY <1>1, DecideType, WaitType, NoAttemptType DEF AutoApproveOn, AnswerTypes

(* The part of handleConfirmationResponse after originalOnConfirm.           *)
LEMMA AfterOnConfirmType ==
  ASSUME CallTypes, AnswerTypes, ConstantsOK, NEW h \in Handlers,
         NEW c \in Calls, NEW o \in Outcome, AfterOnConfirm(h, c, o)
  PROVE  CallTypes' /\ AnswerTypes'
<1>1. {d \in Calls \ {c} : toolCalls[d] = "awaiting_approval"} \in SUBSET Calls
  OBVIOUS
<1>2. toolCalls \in [Calls -> Status]
  BY DEF CallTypes
<1> QED
  BY <1>1, <1>2, AutoApproveOnType, DecideType DEF AfterOnConfirm

(* An answer to a call that no longer awaits approval.                      *)
LEMMA AnswerLateType ==
  ASSUME CallTypes, AnswerTypes, ConstantsOK, NEW h \in Handlers,
         NEW c \in Calls, NEW o \in Outcome, AnswerLate(h, c, o)
  PROVE  CallTypes' /\ AnswerTypes'
<1>1. CASE UNCHANGED <<callVars, handler>>
  BY <1>1 DEF callVars, CallTypes, AnswerTypes
<1>2. CASE \E p \in Outcome : AfterOnConfirm(h, c, p)
  BY <1>2, AfterOnConfirmType
<1>3. "ProceedOnce" \in Outcome
  BY DEF Outcome, Proceed
<1> QED
  BY <1>1, <1>2, <1>3 DEF AnswerLate

(* The signal handler's splice: a queue less one entry is a queue.          *)
LEMMA RemoveAtType ==
  ASSUME NEW S, NEW q \in Seq(S), NEW i \in 1..Len(q)
  PROVE  RemoveAt(q, i) \in Seq(S)
<1>1. SubSeq(q, 1, i - 1) \in Seq(S)
  OBVIOUS
<1>2. SubSeq(q, i + 1, Len(q)) \in Seq(S)
  OBVIOUS
<1> QED
  BY <1>1, <1>2 DEF RemoveAt

-----------------------------------------------------------------------------
(* Type correctness.                                                       *)

(* Every segment of the scheduler keeps the shape of its state.             *)
LEMMA TypeStep ==
  ASSUME TypeOK, ConstantsOK, [Next]_vars
  PROVE  TypeOK'
<1> USE TypeParts
<1> SUFFICES CallTypes' /\ LoopTypes' /\ AnswerTypes' /\ OtherTypes'
  BY DEF TypeOK, CallTypes, LoopTypes, AnswerTypes, OtherTypes
<1>0. CallTypes /\ LoopTypes /\ AnswerTypes /\ OtherTypes
  OBVIOUS
<1>1. ASSUME NEW b \in Batches, Schedule(b)
      PROVE  CallTypes' /\ LoopTypes' /\ AnswerTypes' /\ OtherTypes'
  BY <1>0, <1>1, StartBatchType
     DEF Schedule, consentVars, CallTypes, AnswerTypes, OtherTypes
<1>2. ASSUME NEW b \in Batches, ScheduleQueued(b)
      PROVE  CallTypes' /\ LoopTypes' /\ AnswerTypes' /\ OtherTypes'
  BY <1>0, <1>2 DEF ScheduleQueued, Queued, callVars, consentVars, CallTypes,
     LoopTypes, AnswerTypes, OtherTypes
<1>3. ASSUME NEW b \in Batches, Abort(b)
      PROVE  CallTypes' /\ LoopTypes' /\ AnswerTypes' /\ OtherTypes'
  <2>1. requestQueue' \in Seq(Batches)
    BY <1>0, <1>3, RemoveAtType DEF Abort, OtherTypes
  <2> QED
    BY <1>0, <1>3, <2>1
       DEF Abort, callVars, consentVars, CallTypes, LoopTypes, AnswerTypes,
           OtherTypes
<1>4. ASSUME NEW new \in {"scheduled", "awaiting_approval", "error"},
             Validated(new)
      PROVE  /\ CallTypes' /\ LoopTypes' /\ AnswerTypes'
             /\ scheduling.call \in Calls
  <2>1. /\ scheduling.call \in Calls /\ scheduling.batch \in Batches
        /\ scheduling.rest \in SUBSET Calls
    BY <1>0, <1>4 DEF Validated, IsScheduling, LoopTypes
  <2>2. SetStatus(toolCalls, scheduling.call, new) \in [Calls -> Status]
    BY <1>0, <2>1, SetStatusType DEF CallTypes, Status, Terminal
  <2> QED
    BY <1>0, <1>4, <2>1, <2>2, LoopOnType DEF Validated, CallTypes, AnswerTypes
<1>5. CASE NoConfirmation
  BY <1>0, <1>4, <1>5 DEF NoConfirmation, Validated, requestVars, OtherTypes
<1>6. CASE AskUser
  BY <1>0, <1>4, <1>6 DEF AskUser, Validated, requestVars, OtherTypes, IdeState
<1>7. CASE ValidationThrows
  BY <1>0, <1>4, <1>7 DEF ValidationThrows, Validated, requestVars, OtherTypes
<1>8. ASSUME NEW h \in Handlers, NEW c \in Calls, NEW o \in Outcome,
             Answer(h, c, o)
      PROVE  CallTypes' /\ LoopTypes' /\ AnswerTypes' /\ OtherTypes'
  <2>1. ASSUME Wait(h, "onConfirm", c, o, {}), UNCHANGED callVars
        PROVE  CallTypes' /\ AnswerTypes'
    BY <1>0, <2>1, WaitType DEF callVars, CallTypes, AnswerTypes
  <2>2. ASSUME AnswerLate(h, c, o) \/ AfterOnConfirm(h, c, o)
        PROVE  CallTypes' /\ AnswerTypes'
    BY <1>0, <2>2, AnswerLateType, AfterOnConfirmType
  <2>3. CallTypes' /\ AnswerTypes'
    BY <1>8, <2>1, <2>2 DEF Answer
  <2> QED
    BY <1>0, <1>8, <2>3 DEF Answer, Remember, requestVars, LoopTypes, OtherTypes
<1>9. ASSUME NEW h \in Handlers, NEW c \in Calls,
             NEW v \in {"accepted", "rejected"}, IdeResolves(h, c, v)
      PROVE  CallTypes' /\ LoopTypes' /\ AnswerTypes' /\ OtherTypes'
  <2> DEFINE o == IF v = "accepted" THEN "ProceedOnce" ELSE "Cancel"
  <2>1. o \in Outcome
    BY DEF Outcome, Proceed
  <2>2. \/ Wait(h, "onConfirm", c, o, {}) /\ UNCHANGED callVars
        \/ Decide(h, c, o, toolCalls)
    BY <1>9 DEF IdeResolves
  <2>3. CallTypes' /\ AnswerTypes'
    BY <1>0, <2>1, <2>2, DecideType, WaitType DEF callVars, CallTypes, AnswerTypes
  <2>4. again' \subseteq Calls
    BY <1>0, <1>9 DEF IdeResolves, Remember, OtherTypes
  <2> QED
    BY <1>0, <1>9, <2>3, <2>4
       DEF IdeResolves, requestVars, LoopTypes, OtherTypes, IdeState
<1>10. ASSUME NEW h \in Handlers, OnConfirmSettles(h)
       PROVE  CallTypes' /\ LoopTypes' /\ AnswerTypes' /\ OtherTypes'
  <2>1. handler[h].call \in Calls /\ handler[h].outcome \in Outcome
    BY <1>0, <1>10 DEF OnConfirmSettles, AnswerTypes, HandlerState, Free
  <2> QED
    BY <1>0, <1>10, <2>1, AfterOnConfirmType
       DEF OnConfirmSettles, requestVars, consentVars, LoopTypes, OtherTypes
<1>11. ASSUME NEW h \in Handlers, NEW d \in Calls,
              AutoApprove(h, d) \/ StillPending(h, d)
       PROVE  CallTypes' /\ LoopTypes' /\ AnswerTypes' /\ OtherTypes'
  <2>1. handler[h].call \in Calls /\ handler[h].pending \in SUBSET Calls
    BY <1>0, <1>11
       DEF AutoApprove, StillPending, AnswerTypes, HandlerState, Free
  <2>2. SetStatus(toolCalls, d, "scheduled") \in [Calls -> Status]
    BY <1>0, SetStatusType DEF CallTypes, Status
  <2>3. CallTypes' /\ AnswerTypes'
    BY <1>0, <1>11, <2>1, <2>2, AutoApproveOnType
       DEF AutoApprove, StillPending, CallTypes
  <2> QED
    BY <1>0, <1>11, <2>3 DEF AutoApprove, StillPending, Remember, requestVars,
       consentVars, LoopTypes, OtherTypes, IdeState
<1>12. ASSUME NEW h \in Handlers, NEW valid \in BOOLEAN,
              EditorCloses(h, valid) \/ InlineModified(h, valid)
       PROVE  CallTypes' /\ LoopTypes' /\ AnswerTypes' /\ OtherTypes'
  <2> DEFINE c == handler[h].call
  <2>1. c \in Calls /\ BatchOf[c] \in Batches
    BY <1>0, <1>12
       DEF EditorCloses, InlineModified, AnswerTypes, HandlerState, Free, ConstantsOK
  <2>2. SetArgs(toolCalls, c, valid) \in [Calls -> Status]
    BY <1>0, <2>1, SetArgsType DEF CallTypes
  <2>3. \A new \in {"awaiting_approval", "scheduled"} :
          SetStatus(SetArgs(toolCalls, c, valid), c, new) \in [Calls -> Status]
    BY <2>1, <2>2, SetStatusType DEF Status
  <2>4. /\ \E new \in {"awaiting_approval", "scheduled"} :
             Attempt(SetStatus(SetArgs(toolCalls, c, valid), c, new),
                     BatchOf[c], finalizing)
        /\ Release(h)
    BY <1>12 DEF EditorCloses, InlineModified
  <2>5. CallTypes' /\ AnswerTypes'
    BY <1>0, <2>1, <2>3, <2>4, AttemptType, ReleaseType
       DEF CallTypes, AnswerTypes
  <2> QED
    BY <1>0, <1>12, <2>5 DEF EditorCloses, InlineModified, requestVars,
       consentVars, LoopTypes, OtherTypes
<1>13. ASSUME NEW h \in Handlers, EditFails(h)
       PROVE  CallTypes' /\ LoopTypes' /\ AnswerTypes' /\ OtherTypes'
  BY <1>0, <1>13, ReleaseType DEF EditFails, requestVars, callVars, consentVars,
     CallTypes, LoopTypes, AnswerTypes, OtherTypes
<1>14. ASSUME NEW r \in running, NEW new \in Terminal, ToolSettles(r, new)
       PROVE  CallTypes' /\ LoopTypes' /\ AnswerTypes' /\ OtherTypes'
  <2>1. r.call \in Calls
    BY <1>0 DEF CallTypes, Execution
  <2>2. SetStatus(toolCalls, r.call, new) \in [Calls -> Status]
    BY <1>0, <2>1, SetStatusType DEF CallTypes, Status
  <2>3. CallTypes'
    BY <1>0, <1>14, <2>2, PublishType DEF ToolSettles, CallTypes
  <2> QED
    BY <1>0, <1>14, <2>3 DEF ToolSettles, requestVars, consentVars,
       LoopTypes, AnswerTypes, OtherTypes
<1>15. CASE ReportDone
  BY <1>0, <1>15 DEF ReportDone, requestVars, consentVars, CallTypes,
     LoopTypes, AnswerTypes, OtherTypes
<1>16. CASE ReportDoneStartNext
  <2>1. Head(requestQueue) \in Batches /\ Tail(requestQueue) \in Seq(Batches)
    BY <1>0, <1>16 DEF ReportDoneStartNext, OtherTypes
  <2> QED
    BY <1>0, <1>16, <2>1, StartBatchType
       DEF ReportDoneStartNext, consentVars, AnswerTypes, OtherTypes
<1>17. CASE UNCHANGED vars
  BY <1>0, <1>17
     DEF vars, CallTypes, LoopTypes, AnswerTypes, OtherTypes
<1>18. CASE Rerender
  BY <1>0, <1>18
     DEF Rerender, requestVars, consentVars, CallTypes, LoopTypes, AnswerTypes,
         OtherTypes
<1> QED
  BY <1>1, <1>2, <1>3, <1>5, <1>6, <1>7, <1>8, <1>9, <1>10, <1>11, <1>12,
     <1>13, <1>14, <1>15, <1>16, <1>17, <1>18
     DEF Next, RequestEvent, ValidationEvent, AnswerEvent, HandlerEvent,
         ToolEvent, ReportEvent

(* The scheduler's state has the declared shape in every reachable state,   *)
(* for any number of requests, calls, answers and any kind of client.       *)
THEOREM TypeCorrect ==
  Spec => []TypeOK
<1>1. Init => TypeOK
  BY ConstantsOK DEF Init, TypeOK, Status, IdeState, HandlerState, Free, NotScheduling,
         Terminal, ConstantsOK
<1>2. TypeOK /\ [Next]_vars => TypeOK'
  BY TypeStep, ConstantsOK
<1> QED
  BY <1>1, <1>2, PTL DEF Spec

-----------------------------------------------------------------------------
(* Consent.  launches[c] > 0 says little about the next step, so the        *)
(* invariant follows an approval along its way: answers being processed,    *)
(* calls cleared to start, calls started.                                   *)

Cleared(st) == {c \in Calls : st[c] \in {"scheduled", "executing"}}
ConsentInv ==
  /\ Cleared(toolCalls) \subseteq consented
  /\ \A c \in Calls : launches[c] > 0 => c \in consented
  /\ \A h \in Handlers :
       /\ handler[h].outcome \in Proceed => handler[h].call \in consented
       /\ handler[h].pc \in {"autoApprove", "inline"} => handler[h].outcome \in Proceed

(* A status other than "scheduled" and "executing" clears nothing, and      *)
(* neither do edited arguments.                                             *)
LEMMA SetStatusCleared ==
  ASSUME NEW st \in [Calls -> Status], NEW c \in Calls, NEW new \in Status
  PROVE  /\ Cleared(SetStatus(st, c, new)) \subseteq Cleared(st) \cup {c}
         /\ new \notin {"scheduled", "executing"} =>
              Cleared(SetStatus(st, c, new)) \subseteq Cleared(st)
         /\ \A valid \in BOOLEAN : Cleared(SetArgs(st, c, valid)) \subseteq Cleared(st)
BY DEF SetStatus, SetArgs, Cleared

(* The completion check clears nothing.                                     *)
LEMMA PublishCleared ==
  ASSUME NEW st \in [Calls -> Status], NEW fin, Publish(st, fin)
  PROVE  Cleared(toolCalls') \subseteq Cleared(st)
BY DEF Publish, Cleared

(* An attempt starts only calls that were cleared.                          *)
LEMMA AttemptConsent ==
  ASSUME NEW st \in [Calls -> Status], NEW b, NEW fin, Attempt(st, b, fin),
         Cleared(st) \subseteq consented', consented \subseteq consented',
         \A c \in Calls : launches[c] > 0 => c \in consented
  PROVE  /\ Cleared(toolCalls') \subseteq consented'
         /\ \A c \in Calls : launches'[c] > 0 => c \in consented'
<1>1. Launchable(st) \subseteq Cleared(st)
  BY DEF Launchable, Cleared
<1>2. Cleared(AfterAttempt(st)) \subseteq Cleared(st)
  BY <1>1 DEF AfterAttempt, Cleared
<1>3. Cleared(toolCalls') \subseteq consented'
  BY <1>2, AfterAttemptType, PublishCleared DEF Attempt
<1>4. \A c \in Calls : launches'[c] > 0 => c \in consented'
  BY <1>1 DEF Attempt
<1> QED
  BY <1>3, <1>4

(* The loop of _schedule clears nothing by itself.                          *)
LEMMA LoopOnConsent ==
  ASSUME NEW st \in [Calls -> Status], NEW b, NEW rest, NEW fin,
         LoopOn(st, b, rest, fin),
         Cleared(st) \subseteq consented', consented \subseteq consented',
         \A c \in Calls : launches[c] > 0 => c \in consented
  PROVE  /\ Cleared(toolCalls') \subseteq consented'
         /\ \A c \in Calls : launches'[c] > 0 => c \in consented'
<1>1. CASE Publish(st, fin) /\ UNCHANGED <<running, launches>>
  BY <1>1, PublishCleared
<1>2. CASE Attempt([c \in Calls |-> IF c \in rest THEN "cancelled" ELSE st[c]],
                   b, fin)
  <2> DEFINE left == [c \in Calls |-> IF c \in rest THEN "cancelled" ELSE st[c]]
  <2>1. left \in [Calls -> Status]
    BY DEF Status, Terminal
  <2>2. Cleared(left) \subseteq Cleared(st)
    BY DEF Cleared
  <2> QED
    BY <1>2, <2>1, <2>2, AttemptConsent
<1> QED
  BY <1>1, <1>2 DEF LoopOn

(* Invocations: what ConsentInv says of them.                               *)
HandlersConsent ==
  \A h \in Handlers :
    /\ handler[h].outcome \in Proceed => handler[h].call \in consented
    /\ handler[h].pc \in {"autoApprove", "inline"} => handler[h].outcome \in Proceed

(* An answer that is decided clears its call only if it is an approval.     *)
LEMMA DecideConsent ==
  ASSUME TypeOK, ConsentInv, consented \subseteq consented',
         NEW h \in Handlers, NEW c \in Calls, NEW o \in Outcome,
         o \in Proceed => c \in consented',
         NEW st \in [Calls -> Status], Cleared(st) \subseteq consented',
         Decide(h, c, o, st)
  PROVE  ConsentInv'
<1>1. /\ \A new \in {"cancelled", "awaiting_approval"} :
           Cleared(SetStatus(st, c, new)) \subseteq consented'
      /\ o \in Proceed =>
           Cleared(SetStatus(st, c, "scheduled")) \subseteq consented'
      /\ \A new \in {"cancelled", "awaiting_approval", "scheduled"} :
           SetStatus(st, c, new) \in [Calls -> Status]
  BY SetStatusCleared, SetStatusType DEF Status, Terminal
<1>2. \A x \in Calls : launches[x] > 0 => x \in consented
  BY DEF ConsentInv
<1>3. \/ Release(h)
      \/ Wait(h, "editor", c, o, {})
      \/ Wait(h, "inline", c, o, {}) /\ o \in Proceed
  BY DEF Decide, ApplyInline, Proceed
<1>4. HandlersConsent'
  <2>1. Free.outcome \notin Proceed /\ Free.pc \notin {"autoApprove", "inline"}
    BY DEF Free, Proceed
  <2>2. handler \in [Handlers -> HandlerState]
    BY DEF TypeOK
  <2>3. \A g \in Handlers : g # h => handler'[g] = handler[g]
    BY <1>3, <2>2 DEF Release, Wait
  <2>4. \/ handler'[h] = Free
        \/ /\ handler'[h].call = c /\ handler'[h].outcome = o
           /\ handler'[h].pc \in {"autoApprove", "inline"} => o \in Proceed
    BY <1>3, <2>2 DEF Release, Wait
  <2> QED
    BY <2>1, <2>3, <2>4 DEF HandlersConsent, ConsentInv
<1>5. /\ Cleared(toolCalls') \subseteq consented'
      /\ \A x \in Calls : launches'[x] > 0 => x \in consented'
  <2>1. CASE \E nst \in {st} \cup {SetStatus(st, c, new) :
                  new \in {"cancelled", "awaiting_approval"}} :
               Attempt(nst, BatchOf[c], finalizing) \/ NoAttempt(nst)
    BY <1>1, <1>2, <2>1, AttemptConsent, PublishCleared DEF NoAttempt
  <2>2. CASE /\ o \in Proceed
             /\ Attempt(SetStatus(st, c, "scheduled"), BatchOf[c], finalizing)
    BY <1>1, <1>2, <2>2, AttemptConsent
  <2> QED
    BY <2>1, <2>2 DEF Decide, ApplyInline
<1> QED
  BY <1>4, <1>5 DEF ConsentInv, HandlersConsent, Cleared

(* So does auto-approval, on behalf of its "always" answer.                 *)
LEMMA AutoApproveOnConsent ==
  ASSUME TypeOK, ConsentInv, consented \subseteq consented',
         NEW h \in Handlers, NEW c \in consented', c \in Calls,
         NEW pending \in SUBSET Calls,
         NEW st \in [Calls -> Status], Cleared(st) \subseteq consented',
         AutoApproveOn(h, c, pending, st)
  PROVE  ConsentInv'
<1>1. "ProceedAlways" \in Outcome /\ "ProceedAlways" \in Proceed
  BY DEF Outcome, Proceed
<1>2. CASE Decide(h, c, "ProceedAlways", st)
  BY <1>1, <1>2, DecideConsent
<1>3. CASE Wait(h, "autoApprove", c, "ProceedAlways", pending) /\ NoAttempt(st)
  <2>1. HandlersConsent'
    BY <1>1, <1>3 DEF Wait, TypeOK, HandlersConsent, ConsentInv
  <2>2. /\ Cleared(toolCalls') \subseteq consented'
        /\ \A x \in Calls : launches'[x] > 0 => x \in consented'
    BY <1>3, PublishCleared DEF NoAttempt, ConsentInv
  <2> QED
    BY <2>1, <2>2 DEF ConsentInv, HandlersConsent, Cleared
<1> QED
  BY <1>2, <1>3 DEF AutoApproveOn

(* So does an answer whose originalOnConfirm has settled.                   *)
LEMMA AfterOnConfirmConsent ==
  ASSUME TypeOK, ConsentInv, consented \subseteq consented',
         NEW h \in Handlers, NEW c \in Calls, NEW o \in Outcome,
         o \in Proceed => c \in consented', AfterOnConfirm(h, c, o)
  PROVE  ConsentInv'
<1>1. {d \in Calls \ {c} : toolCalls[d] = "awaiting_approval"} \in SUBSET Calls
  OBVIOUS
<1>2. Cleared(toolCalls) \subseteq consented' /\ toolCalls \in [Calls -> Status]
  BY DEF ConsentInv, TypeOK
<1>3. "ProceedAlways" \in Proceed
  BY DEF Proceed
<1> QED
  BY <1>1, <1>2, <1>3, AutoApproveOnConsent, DecideConsent DEF AfterOnConfirm

(* Every segment keeps the invariant.                                       *)
LEMMA ConsentStep ==
  ASSUME TypeOK, TypeOK', ConstantsOK, ConsentInv, [Next]_vars
  PROVE  ConsentInv'
<1> USE DEF ConsentInv
<1>0. toolCalls \in [Calls -> Status] /\ Cleared(toolCalls) \subseteq consented
  BY DEF TypeOK
<1>1. ASSUME NEW b \in Batches, NEW fin, StartBatch(b, fin),
             UNCHANGED <<handler, consented>>
      PROVE  ConsentInv'
  <2>1. PICK bad \in SUBSET CallsOf(b) :
          LoopOn(Listed(b, bad), b, CallsOf(b) \ bad, fin)
    BY <1>1 DEF StartBatch
  <2>2. Listed(b, bad) \in [Calls -> Status]
    BY <1>0 DEF Listed, Status, Terminal
  <2>3. Cleared(Listed(b, bad)) \subseteq Cleared(toolCalls)
    BY DEF Listed, Cleared
  <2>4. /\ Cleared(toolCalls') \subseteq consented'
        /\ \A x \in Calls : launches'[x] > 0 => x \in consented'
    BY <1>0, <1>1, <2>1, <2>2, <2>3, LoopOnConsent
  <2> QED
    BY <1>1, <2>4 DEF Cleared
<1>2. ASSUME NEW new \in Status, Validated(new), UNCHANGED handler,
             consented \subseteq consented',
             new \in {"scheduled", "executing"} => scheduling.call \in consented'
      PROVE  ConsentInv'
  <2>1. scheduling.call \in Calls
    BY <1>2 DEF Validated, IsScheduling, TypeOK
  <2> DEFINE st == SetStatus(toolCalls, scheduling.call, new)
  <2>2. st \in [Calls -> Status] /\ Cleared(st) \subseteq consented'
    BY <1>0, <1>2, <2>1, SetStatusType, SetStatusCleared
  <2>3. LoopOn(st, scheduling.batch, scheduling.rest, finalizing)
    BY <1>2 DEF Validated
  <2>4. /\ Cleared(toolCalls') \subseteq consented'
        /\ \A x \in Calls : launches'[x] > 0 => x \in consented'
    BY <1>2, <2>2, <2>3, LoopOnConsent
  <2> QED
    BY <1>2, <2>4 DEF Cleared
<1>3. ASSUME NEW b \in Batches, Schedule(b) \/ ScheduleQueued(b) \/ Abort(b)
      PROVE  ConsentInv'
  BY <1>1, <1>3 DEF Schedule, ScheduleQueued, Abort, callVars, consentVars, Cleared
<1>4. CASE NoConfirmation \/ AskUser \/ ValidationThrows
  BY <1>2, <1>4
     DEF NoConfirmation, AskUser, ValidationThrows, Validated, Status, Terminal
<1>5. ASSUME NEW h \in Handlers, NEW c \in Calls, NEW o \in Outcome,
             Answer(h, c, o)
      PROVE  ConsentInv'
  <2>1. consented \subseteq consented' /\ (o \in Proceed => c \in consented')
    BY <1>5 DEF Answer
  <2>2. ASSUME NEW p \in Outcome, p \in Proceed => o \in Proceed,
               AfterOnConfirm(h, c, p)
        PROVE  ConsentInv'
    BY <2>1, <2>2, AfterOnConfirmConsent
  <2>3. CASE /\ Wait(h, "onConfirm", c, o, {})
             /\ UNCHANGED callVars
    BY <2>1, <2>3 DEF Wait, TypeOK, Cleared, callVars
  <2>4. CASE UNCHANGED <<callVars, handler>>
    BY <2>1, <2>4 DEF Cleared, callVars
  <2>5. /\ "ProceedOnce" \in Outcome
        /\ o = "ProceedInline" => o \in Proceed
    BY DEF Outcome, Proceed
  <2>6. CASE AnswerLate(h, c, o)
    BY <2>2, <2>4, <2>5, <2>6 DEF AnswerLate
  <2> QED
    BY <1>5, <2>2, <2>3, <2>6 DEF Answer
<1>6. ASSUME NEW h \in Handlers, NEW c \in Calls,
             NEW v \in {"accepted", "rejected"}, IdeResolves(h, c, v)
      PROVE  ConsentInv'
  <2> DEFINE o == IF v = "accepted" THEN "ProceedOnce" ELSE "Cancel"
  <2>1. /\ consented \subseteq consented' /\ (o \in Proceed => c \in consented')
        /\ o \in Outcome
    BY <1>6 DEF IdeResolves, Outcome, Proceed
  <2>2. CASE Decide(h, c, o, toolCalls)
    BY <1>0, <2>1, <2>2, DecideConsent
  <2>3. CASE /\ Wait(h, "onConfirm", c, o, {})
             /\ UNCHANGED callVars
    BY <2>1, <2>3 DEF Wait, TypeOK, Cleared, callVars
  <2> QED
    BY <1>6, <2>2, <2>3 DEF IdeResolves
<1>7. ASSUME NEW h \in Handlers, OnConfirmSettles(h)
      PROVE  ConsentInv'
  <2>1. /\ handler[h].call \in Calls /\ handler[h].outcome \in Outcome
        /\ handler[h].outcome \in Proceed => handler[h].call \in consented
    BY <1>7 DEF OnConfirmSettles, TypeOK, HandlerState, Free
  <2> QED
    BY <1>7, <2>1, AfterOnConfirmConsent DEF OnConfirmSettles, consentVars
<1>8. ASSUME NEW h \in Handlers, NEW d \in Calls,
             AutoApprove(h, d) \/ StillPending(h, d)
      PROVE  ConsentInv'
  <2>1. /\ handler[h].call \in consented /\ handler[h].call \in Calls
        /\ handler[h].pending \ {d} \in SUBSET Calls
    <3>1. handler[h].pc = "autoApprove" /\ handler[h] \in HandlerState
      BY <1>8 DEF AutoApprove, StillPending, TypeOK
    <3>2. handler[h].call \in Calls /\ handler[h].pending \in SUBSET Calls
      BY <3>1 DEF HandlerState, Free
    <3> QED
      BY <3>1, <3>2
  <2>2. consented \subseteq consented'
    BY <1>8 DEF AutoApprove, StillPending, consentVars
  <2>3. \E st \in [Calls -> Status] :
          /\ Cleared(st) \subseteq consented'
          /\ AutoApproveOn(h, handler[h].call, handler[h].pending \ {d}, st)
    <3>1. CASE AutoApprove(h, d)
      <4>1. /\ SetStatus(toolCalls, d, "scheduled") \in [Calls -> Status]
            /\ Cleared(SetStatus(toolCalls, d, "scheduled")) \subseteq consented'
        BY <1>0, <3>1, SetStatusType, SetStatusCleared DEF AutoApprove, Status
      <4> QED
        BY <3>1, <4>1 DEF AutoApprove
    <3>2. CASE StillPending(h, d)
      BY <1>0, <2>2, <3>2 DEF StillPending
    <3> QED
      BY <1>8, <3>1, <3>2
  <2> QED
    BY <2>1, <2>2, <2>3, AutoApproveOnConsent
<1>9. ASSUME NEW h \in Handlers, NEW valid \in BOOLEAN,
             EditorCloses(h, valid) \/ InlineModified(h, valid)
      PROVE  ConsentInv'
  <2> DEFINE c == handler[h].call
             st == SetArgs(toolCalls, c, valid)
  <2>1. /\ c \in Calls /\ consented' = consented
        /\ InlineModified(h, valid) => c \in consented
    BY <1>9 DEF EditorCloses, InlineModified, consentVars, TypeOK, HandlerState,
       Free
  <2>2. st \in [Calls -> Status] /\ Cleared(st) \subseteq consented
    BY <1>0, <2>1, SetArgsType, SetStatusCleared DEF Status
  <2>3. \E new \in {"awaiting_approval", "scheduled"} :
          /\ new = "scheduled" => c \in consented
          /\ Attempt(SetStatus(st, c, new), BatchOf[c], finalizing)
    BY <1>9, <2>1 DEF EditorCloses, InlineModified
  <2>4. \A new \in {"awaiting_approval", "scheduled"} :
          (new = "scheduled" => c \in consented) =>
            /\ Cleared(SetStatus(st, c, new)) \subseteq consented
            /\ SetStatus(st, c, new) \in [Calls -> Status]
    BY <2>1, <2>2, SetStatusCleared, SetStatusType DEF Status
  <2>5. /\ Cleared(toolCalls') \subseteq consented'
        /\ \A x \in Calls : launches'[x] > 0 => x \in consented'
    BY <2>1, <2>3, <2>4, AttemptConsent
  <2>6. HandlersConsent'
    <3>1. handler' = [handler EXCEPT ![h] = Free]
      BY <1>9 DEF EditorCloses, InlineModified, Release
    <3>2. handler \in [Handlers -> HandlerState]
      BY DEF TypeOK
    <3>3. Free.outcome \notin Proceed /\ Free.pc \notin {"autoApprove", "inline"}
      BY DEF Free, Proceed
    <3> QED
      BY <2>1, <3>1, <3>2, <3>3 DEF HandlersConsent
  <2> QED
    BY <2>5, <2>6 DEF HandlersConsent, Cleared
<1>10. ASSUME NEW h \in Handlers, EditFails(h)
       PROVE  ConsentInv'
  BY <1>10 DEF EditFails, callVars, consentVars, Release, TypeOK, Free, Proceed,
               Cleared
<1>11. ASSUME NEW r \in running, NEW new \in Terminal, ToolSettles(r, new)
       PROVE  ConsentInv'
  <2>1. r.call \in Calls
    BY DEF TypeOK, Execution
  <2> DEFINE st == SetStatus(toolCalls, r.call, new)
  <2>2. st \in [Calls -> Status] /\ Cleared(st) \subseteq consented
    BY <1>0, <2>1, SetStatusType, SetStatusCleared DEF Status, Terminal
  <2>3. Cleared(toolCalls') \subseteq consented
    BY <1>11, <2>2, PublishCleared DEF ToolSettles
  <2> QED
    BY <1>11, <2>3 DEF ToolSettles, consentVars, Cleared
<1>12. CASE ReportEvent
  <2>1. CASE ReportDone
    BY <2>1 DEF ReportDone, consentVars, Cleared
  <2>2. CASE ReportDoneStartNext
    <3>1. Head(requestQueue) \in Batches
      BY <2>2 DEF ReportDoneStartNext, TypeOK
    <3> QED
      BY <1>1, <2>2, <3>1 DEF ReportDoneStartNext, consentVars
  <2> QED
    BY <1>12, <2>1, <2>2 DEF ReportEvent
<1>13. CASE UNCHANGED vars
  BY <1>13 DEF vars, Cleared
<1>14. CASE Rerender
  BY <1>14 DEF Rerender, consentVars, Cleared
<1> QED
  BY <1>3, <1>4, <1>5, <1>6, <1>7, <1>8, <1>9, <1>10, <1>11, <1>12, <1>13,
     <1>14
     DEF Next, RequestEvent, ValidationEvent, AnswerEvent, HandlerEvent, ToolEvent

(* No tool runs that needed an approval it did not get, whatever the client *)
(* does and however answers, auto-approvals, edits and the IDE interleave.  *)
THEOREM NoExecutionWithoutConsent ==
  Spec => []ConsentBeforeExecution
<1>1. Init => ConsentInv
  BY ConstantsOK DEF Init, ConsentInv, Cleared, Free, Proceed
<1>2. TypeOK /\ TypeOK' /\ ConsentInv /\ [Next]_vars => ConsentInv'
  BY ConsentStep, ConstantsOK
<1>3. ConsentInv => ConsentBeforeExecution
  BY DEF ConsentInv, ConsentBeforeExecution
<1> QED
  BY <1>1, <1>2, <1>3, TypeCorrect, PTL DEF Spec

-----------------------------------------------------------------------------
(***************************************************************************)
(* The queue, for every kind of client: a report meets an idle scheduler,  *)
(* and a request waits only while something will take it out.              *)
(*                                                                         *)
(* Both hang on one fact.  A call that is still being validated, or whose  *)
(* request is still in the queue, is Untouched: no prompt, no answer, no    *)
(* running tool and no IDE diff refers to it.  So whatever stale answer    *)
(* comes in, it cannot settle the call the _schedule loop waits for, and a *)
(* batch cannot be reported behind the back of the loop.                   *)
(***************************************************************************)


(* The request of c has not left the queue, or was never made.             *)
Fresh(c) == BatchOf[c] \notin submitted \/ BatchOf[c] \in Range(requestQueue)
Uncalled(c) == Fresh(c) \/ toolCalls[c] = "validating"

Untouched(c) ==
  /\ \A h \in Handlers : handler[h].call # c /\ c \notin handler[h].pending
  /\ \A r \in running : r.call # c
  /\ ide[c] = "none" /\ c \notin prompts

QueueOK ==
  /\ IsInjective(requestQueue)
  /\ Range(requestQueue) \subseteq submitted
FreshAbsent == \A c \in Calls : Fresh(c) => toolCalls[c] = "absent"
Apart == \A c \in Calls : Uncalled(c) => Untouched(c)
LoopValidates ==
  IsScheduling =>
    /\ scheduling.call \notin scheduling.rest
    /\ \A c \in scheduling.rest \cup {scheduling.call} :
         toolCalls[c] = "validating"
Idle == ReportsWhileIdle /\ LoopValidates
Awake == Live(toolCalls) # {} \/ finalizing # {}

QInv == TypeOK /\ QueueOK /\ FreshAbsent /\ Apart /\ Idle /\ NoLostWakeup

(* No segment makes a call one that has not been validated.                *)
Ahead == \A c \in Calls : Uncalled(c)' => Uncalled(c)

-----------------------------------------------------------------------------
(* Changes of toolCalls that leave the calls of the loop alone.            *)

Alike(old, new) ==
  \A c \in Calls : /\ old[c] = "absent" <=> new[c] = "absent"
                   /\ old[c] = "validating" <=> new[c] = "validating"

(* setStatusInternal on a call that is not being validated.                *)
LEMMA SetStatusAlike ==
  ASSUME NEW st \in [Calls -> Status], NEW c \in Calls,
         NEW new \in Status \ {"absent", "validating"}, st[c] # "validating"
  PROVE  Alike(st, SetStatus(st, c, new))
BY DEF Alike, SetStatus, Terminal

(* setArgsInternal on such a call.                                         *)
LEMMA SetArgsAlike ==
  ASSUME NEW st \in [Calls -> Status], NEW c \in Calls, NEW valid,
         st[c] # "validating"
  PROVE  Alike(st, SetArgs(st, c, valid))
BY DEF Alike, SetArgs

(* attemptExecutionOfScheduledCalls starts calls, nothing else.            *)
LEMMA AttemptAlike ==
  ASSUME NEW st \in [Calls -> Status]
  PROVE  Alike(st, AfterAttempt(st))
BY DEF Alike, AfterAttempt, Launchable

(* Two such changes make one.                                              *)
LEMMA AlikeTransitive ==
  ASSUME NEW s1, NEW s2, NEW s3, Alike(s1, s2), Alike(s2, s3)
  PROVE  Alike(s1, s3)
BY DEF Alike

(* A segment that lists nothing new and starts nothing that is not listed  *)
(* or is still being validated when it ends.                               *)
Calm ==
  /\ \A c \in Calls :
       /\ toolCalls'[c] = "validating" => toolCalls[c] = "validating"
       /\ toolCalls[c] = "absent" => toolCalls'[c] = "absent"
  /\ \A r \in running' :
       \/ r \in running
       \/ toolCalls[r.call] # "absent" /\ toolCalls'[r.call] # "validating"
  /\ \A c \in prompts' :
       \/ c \in prompts
       \/ toolCalls[c] # "absent" /\ toolCalls'[c] # "validating"
  /\ Idle'
  /\ Awake => Awake'

(* checkAndNotifyCompletion cannot report while the loop runs: the call it *)
(* waits for is listed and not terminal.                                   *)
LEMMA PublishCalm ==
  ASSUME TypeOK, Idle, NEW st \in [Calls -> Status], Alike(toolCalls, st),
         Publish(st, finalizing), UNCHANGED scheduling
  PROVE  /\ \A c \in Calls :
              /\ toolCalls'[c] = "validating" => toolCalls[c] = "validating"
              /\ toolCalls[c] = "absent" => toolCalls'[c] = "absent"
         /\ \A c \in prompts' :
              \/ c \in prompts
              \/ toolCalls[c] # "absent" /\ toolCalls'[c] # "validating"
         /\ Idle' /\ (Awake => Awake')
<1>0. \A c \in prompts' :
        \/ c \in prompts
        \/ toolCalls[c] # "absent" /\ toolCalls'[c] # "validating"
  BY DEF Publish, Alike
<1>1. Live(st) = Live(toolCalls)
  BY DEF Live, Alike
<1>2. CASE AllTerminal(st)
  <2>1. toolCalls' = [c \in Calls |-> "absent"] /\ finalizing' = Live(st)
    BY <1>2 DEF Publish
  <2>2. ~IsScheduling
    <3> SUFFICES ASSUME IsScheduling PROVE FALSE
      OBVIOUS
    <3>1. scheduling.call \in Calls
      BY DEF IsScheduling, TypeOK
    <3>2. st[scheduling.call] = "validating"
      BY <3>1 DEF Idle, LoopValidates, Alike
    <3> QED
      BY <1>2, <3>1, <3>2 DEF AllTerminal, Live, Terminal
  <2>3. Live(toolCalls)' = {} /\ ~IsScheduling'
    BY <2>1, <2>2 DEF Live, IsScheduling
  <2>4. finalizing' # {}
    BY <1>2, <2>1 DEF AllTerminal
  <2> QED
    BY <1>0, <2>1, <2>3, <2>4 DEF Idle, ReportsWhileIdle, LoopValidates, Awake
<1>3. CASE ~AllTerminal(st)
  <2>1. toolCalls' = st /\ finalizing' = finalizing
    BY <1>3 DEF Publish
  <2>2. Live(toolCalls)' = Live(toolCalls)
    BY <1>1, <2>1 DEF Live
  <2>3. ReportsWhileIdle'
    BY <2>1, <2>2 DEF Idle, ReportsWhileIdle, IsScheduling
  <2>4. LoopValidates'
    <3> SUFFICES ASSUME IsScheduling,
                        NEW c \in scheduling.rest \cup {scheduling.call}
                 PROVE  st[c] = "validating"
      BY <2>1 DEF Idle, LoopValidates, IsScheduling
    <3>1. c \in Calls
      BY DEF IsScheduling, TypeOK
    <3> QED
      BY <3>1 DEF Idle, LoopValidates, Alike
  <2> QED
    BY <1>0, <2>1, <2>2, <2>3, <2>4 DEF Idle, Awake, Alike
<1> QED
  BY <1>2, <1>3

(* A segment that only publishes its changes.                              *)
LEMMA NoAttemptCalm ==
  ASSUME TypeOK, Idle, NEW st \in [Calls -> Status], Alike(toolCalls, st),
         NoAttempt(st), UNCHANGED scheduling
  PROVE  Calm
BY PublishCalm DEF NoAttempt, Calm

(* A segment that publishes them and tries to start calls.                 *)
LEMMA AttemptCalm ==
  ASSUME TypeOK, Idle, NEW st \in [Calls -> Status], Alike(toolCalls, st),
         NEW b, Attempt(st, b, finalizing), UNCHANGED scheduling
  PROVE  Calm
<1>1. AfterAttempt(st) \in [Calls -> Status]
  BY AfterAttemptType
<1>2. Alike(toolCalls, AfterAttempt(st))
  BY AttemptAlike, AlikeTransitive
<1>3. Publish(AfterAttempt(st), finalizing)
  BY DEF Attempt
<1>4. ASSUME NEW r \in running', r \notin running
      PROVE  r.call \in Calls /\ toolCalls[r.call] \notin {"absent", "validating"}
  BY <1>4 DEF Attempt, Launchable, Alike
<1> QED
  BY <1>1, <1>2, <1>3, <1>4, PublishCalm DEF Calm

-----------------------------------------------------------------------------
(* handleConfirmationResponse.                                             *)

(* The invocation h ends or waits, and refers only to calls that are past  *)
(* their validation.                                                       *)
HandlerCalm(h) ==
  /\ \A g \in Handlers \ {h} : handler'[g] = handler[g]
  /\ \A c \in Calls : Uncalled(c) =>
       handler'[h].call # c /\ c \notin handler'[h].pending

(* An invocation that ends refers to no call any more.                     *)
LEMMA ReleaseCalm ==
  ASSUME AnswerTypes, ConstantsOK, NEW h \in Handlers, Release(h)
  PROVE  HandlerCalm(h)
<1>1. handler' = [handler EXCEPT ![h] = Free] /\ DOMAIN handler = Handlers
  BY DEF Release, AnswerTypes
<1>2. handler'[h] = Free
  BY <1>1
<1> QED
  BY <1>1, <1>2 DEF HandlerCalm, Free, ConstantsOK

(* An invocation that goes on waiting refers to called calls only.         *)
LEMMA WaitCalm ==
  ASSUME AnswerTypes, NEW h \in Handlers, NEW pc, NEW c \in Calls, NEW o,
         NEW pending \in SUBSET Calls, Wait(h, pc, c, o, pending),
         ~Uncalled(c), \A d \in pending : ~Uncalled(d)
  PROVE  HandlerCalm(h)
<1>1. /\ DOMAIN handler = Handlers
      /\ handler' = [handler EXCEPT
           ![h] = [pc |-> pc, call |-> c, outcome |-> o, pending |-> pending]]
  BY DEF Wait, AnswerTypes
<1>2. handler'[h].call = c /\ handler'[h].pending = pending
  BY <1>1
<1> QED
  BY <1>1, <1>2 DEF HandlerCalm

(* The decision, whatever auto-approval did before.                        *)
LEMMA DecideCalm ==
  ASSUME TypeOK, ConstantsOK, Idle, NEW h \in Handlers, NEW c \in Calls,
         ~Uncalled(c), NEW o \in Outcome, NEW st \in [Calls -> Status],
         Alike(toolCalls, st), Decide(h, c, o, st), UNCHANGED scheduling
  PROVE  Calm /\ HandlerCalm(h)
<1>1. AnswerTypes
  BY TypeParts
<1>2. \A new \in {"cancelled", "scheduled", "awaiting_approval"} :
        /\ SetStatus(st, c, new) \in [Calls -> Status]
        /\ Alike(toolCalls, SetStatus(st, c, new))
  <2> SUFFICES ASSUME NEW new \in {"cancelled", "scheduled", "awaiting_approval"}
               PROVE  /\ SetStatus(st, c, new) \in [Calls -> Status]
                      /\ Alike(toolCalls, SetStatus(st, c, new))
    OBVIOUS
  <2>1. new \in Status \ {"absent", "validating"}
    BY DEF Status, Terminal
  <2>2. st[c] # "validating"
    BY DEF Uncalled, Alike
  <2> QED
    BY <2>1, <2>2, SetStatusType, SetStatusAlike, AlikeTransitive
<1>3. CASE /\ Attempt(SetStatus(st, c, "cancelled"), BatchOf[c], finalizing)
           /\ Release(h)
  BY <1>1, <1>2, <1>3, AttemptCalm, ReleaseCalm
<1>4. CASE Attempt(st, BatchOf[c], finalizing) /\ Release(h)
  BY <1>1, <1>4, AttemptCalm, ReleaseCalm
<1>5. CASE NoAttempt(st) /\ Release(h)
  BY <1>1, <1>5, NoAttemptCalm, ReleaseCalm
<1>6. CASE /\ NoAttempt(SetStatus(st, c, "awaiting_approval"))
           /\ Wait(h, "editor", c, o, {})
  BY <1>1, <1>2, <1>6, NoAttemptCalm, WaitCalm
<1>7. CASE /\ Attempt(SetStatus(st, c, "scheduled"), BatchOf[c], finalizing)
           /\ Release(h)
  BY <1>1, <1>2, <1>7, AttemptCalm, ReleaseCalm
<1>8. CASE NoAttempt(st) /\ Wait(h, "inline", c, "ProceedInline", {})
  BY <1>1, <1>8, NoAttemptCalm, WaitCalm
<1> QED
  BY <1>3, <1>4, <1>5, <1>6, <1>7, <1>8 DEF Decide, ApplyInline

(* Auto-approval goes on to its next call, or ends.                        *)
LEMMA AutoApproveOnCalm ==
  ASSUME TypeOK, ConstantsOK, Idle, NEW h \in Handlers, NEW c \in Calls,
         ~Uncalled(c), NEW pending \in SUBSET Calls,
         \A d \in pending : ~Uncalled(d), NEW st \in [Calls -> Status],
         Alike(toolCalls, st), AutoApproveOn(h, c, pending, st),
         UNCHANGED scheduling
  PROVE  Calm /\ HandlerCalm(h)
<1>1. AnswerTypes
  BY TypeParts
<1>2. "ProceedAlways" \in Outcome
  BY DEF Outcome, Proceed
<1>3. CASE pending = {}
  BY <1>2, <1>3, DecideCalm DEF AutoApproveOn
<1>4. CASE pending # {}
  BY <1>1, <1>4, NoAttemptCalm, WaitCalm DEF AutoApproveOn
<1> QED
  BY <1>3, <1>4

(* What follows the await of onConfirm.                                    *)
LEMMA AfterOnConfirmCalm ==
  ASSUME TypeOK, ConstantsOK, Idle, FreshAbsent, NEW h \in Handlers,
         NEW c \in Calls, ~Uncalled(c), NEW o \in Outcome,
         AfterOnConfirm(h, c, o), UNCHANGED scheduling
  PROVE  Calm /\ HandlerCalm(h)
<1> DEFINE waiting == {d \in Calls \ {c} : toolCalls[d] = "awaiting_approval"}
<1>1. \A d \in waiting : ~Uncalled(d)
  BY DEF Uncalled, FreshAbsent
<1>2. toolCalls \in [Calls -> Status] /\ Alike(toolCalls, toolCalls)
  BY DEF TypeOK, Alike
<1>3. waiting \in SUBSET Calls
  OBVIOUS
<1>4. CASE o = "ProceedAlways"
  <2>1. AutoApproveOn(h, c, waiting, toolCalls)
    BY <1>4 DEF AfterOnConfirm
  <2> HIDE DEF waiting
  <2> QED
    BY <1>1, <1>2, <1>3, <2>1, AutoApproveOnCalm
<1>5. CASE o # "ProceedAlways"
  BY <1>2, <1>5, DecideCalm DEF AfterOnConfirm
<1> QED
  BY <1>4, <1>5

(* The invariant after a calm segment that leaves the queue alone.  ide    *)
(* may change for calls that are past their validation only.               *)
LEMMA CalmKeeps ==
  ASSUME QInv, TypeOK', Calm,
         UNCHANGED <<requestQueue, submitted>>,
         handler' = handler \/ \E h \in Handlers : HandlerCalm(h),
         \A c \in Calls : Uncalled(c)' => ide'[c] = ide[c]
  PROVE  QInv' /\ Ahead
<1>1. \A c \in Calls : Fresh(c)' <=> Fresh(c)
  BY DEF Fresh
<1>2. \A c \in Calls : Uncalled(c)' => Uncalled(c)
  BY <1>1 DEF Uncalled, Calm
<1>3. QueueOK'
  BY DEF QInv, QueueOK
<1>4. FreshAbsent'
  BY <1>1 DEF QInv, FreshAbsent, Calm
<1>5. Apart'
  <2> SUFFICES ASSUME NEW c \in Calls, Uncalled(c)' PROVE Untouched(c)'
    BY DEF Apart
  <2>0. Uncalled(c)
    BY <1>2
  <2>1. Untouched(c) /\ toolCalls[c] \in {"absent", "validating"}
    BY <2>0 DEF QInv, Apart, Uncalled, FreshAbsent
  <2>2. \A h \in Handlers : handler'[h].call # c /\ c \notin handler'[h].pending
    BY <2>0, <2>1 DEF Untouched, HandlerCalm
  <2>3. toolCalls[c] = "absent" \/ toolCalls'[c] = "validating"
    BY <1>1 DEF QInv, FreshAbsent, Uncalled
  <2>4. \A r \in running' : r.call # c
    BY <2>1, <2>3 DEF Untouched, Calm
  <2>5. c \notin prompts'
    BY <2>1, <2>3 DEF Untouched, Calm
  <2> QED
    BY <2>1, <2>2, <2>4, <2>5 DEF Untouched
<1>6. NoLostWakeup'
  BY DEF QInv, NoLostWakeup, Awake, Calm
<1> QED
  BY <1>2, <1>3, <1>4, <1>5, <1>6 DEF QInv, Calm, Ahead

-----------------------------------------------------------------------------
(* The _schedule loop.                                                     *)

(* The loop, with nothing being reported: it goes on to a call that is     *)
(* being validated, or it ends and the completion check takes over.        *)
LEMMA LoopOnOK ==
  ASSUME TypeOK, NEW st \in [Calls -> Status], NEW b,
         NEW rest \in SUBSET Calls, \A c \in rest : st[c] = "validating",
         Live(st) # {}, LoopOn(st, b, rest, {})
  PROVE  /\ Idle' /\ Awake'
         /\ \A c \in Calls :
              /\ toolCalls'[c] = "validating" => st[c] = "validating"
              /\ st[c] = "absent" => toolCalls'[c] = "absent"
         /\ \A r \in running' :
              \/ r \in running
              \/ r.call \in Calls /\ st[r.call] = "scheduled"
         /\ \A c \in prompts' : c \in prompts \/ st[c] = "awaiting_approval"
<1>0. \A c \in prompts' : c \in prompts \/ st[c] = "awaiting_approval"
  BY DEF LoopOn, Attempt, Publish, AfterAttempt
<1>1. CASE \E c \in rest :
             /\ scheduling' = [batch |-> b, call |-> c, rest |-> rest \ {c}]
             /\ Publish(st, {}) /\ UNCHANGED <<running, launches>>
  <2>1. PICK c \in rest :
          /\ scheduling' = [batch |-> b, call |-> c, rest |-> rest \ {c}]
          /\ Publish(st, {}) /\ UNCHANGED <<running, launches>>
    BY <1>1
  <2>2. ~AllTerminal(st)
    BY DEF AllTerminal, Live, Terminal
  <2>3. toolCalls' = st /\ finalizing' = {}
    BY <2>1, <2>2 DEF Publish
  <2>4. LoopValidates'
    BY <2>1, <2>3 DEF LoopValidates
  <2>5. ReportsWhileIdle' /\ Awake'
    BY <2>3 DEF ReportsWhileIdle, Awake, Live
  <2> QED
    BY <1>0, <2>1, <2>3, <2>4, <2>5 DEF Idle
<1>2. CASE /\ scheduling' = NotScheduling
           /\ Attempt([c \in Calls |-> IF c \in rest THEN "cancelled" ELSE st[c]],
                      b, {})
  <2> DEFINE left == [c \in Calls |-> IF c \in rest THEN "cancelled" ELSE st[c]]
             after == AfterAttempt(left)
  <2>1. /\ Publish(after, {})
        /\ \A c \in Calls : left[c] = IF c \in rest THEN "cancelled" ELSE st[c]
    BY <1>2 DEF Attempt
  <2>2. \A c \in Calls :
          after[c] = IF c \in Launchable(left) THEN "executing" ELSE left[c]
    BY DEF AfterAttempt
  <2>3. \A c \in Launchable(left) : c \in Calls /\ st[c] = "scheduled"
    BY <2>1 DEF Launchable
  <2>4. \A c \in Calls : /\ after[c] = "validating" => st[c] = "validating"
                         /\ st[c] = "absent" <=> after[c] = "absent"
    BY <2>1, <2>2, <2>3
  <2>5. \A r \in running' :
          \/ r \in running
          \/ r.call \in Calls /\ st[r.call] = "scheduled"
    BY <1>2, <2>3 DEF Attempt
  <2>6. Live(after) = Live(st)
    BY <2>4 DEF Live
  <2>7. ~IsScheduling'
    BY <1>2 DEF IsScheduling
  <2> HIDE DEF after, left
  <2>8. CASE AllTerminal(after)
    <3>1. toolCalls' = [c \in Calls |-> "absent"] /\ finalizing' = Live(after)
      BY <2>1, <2>8 DEF Publish
    <3> QED
      BY <1>0, <2>5, <2>6, <2>7, <3>1
      DEF Idle, ReportsWhileIdle, LoopValidates, Awake, Live
  <2>9. CASE ~AllTerminal(after)
    <3>1. toolCalls' = after /\ finalizing' = {}
      BY <2>1, <2>9 DEF Publish
    <3>2. Live(toolCalls)' # {}
      BY <2>6, <3>1 DEF Live
    <3> QED
      BY <1>0, <2>4, <2>5, <2>7, <3>1, <3>2
      DEF Idle, ReportsWhileIdle, LoopValidates, Awake
  <2> QED
    BY <2>8, <2>9
<1> QED
  BY <1>1, <1>2 DEF LoopOn

(* shouldConfirmExecute settles.                                           *)
LEMMA ValidatedCalm ==
  ASSUME QInv, NEW new \in {"scheduled", "awaiting_approval", "error"},
         Validated(new)
  PROVE  /\ Calm
         /\ scheduling.call \in Calls /\ ~Fresh(scheduling.call)
         /\ toolCalls'[scheduling.call] # "validating"
<1> DEFINE c == scheduling.call
           st == SetStatus(toolCalls, c, new)
<1>1. /\ c \in Calls /\ scheduling.rest \in SUBSET Calls
      /\ c \notin scheduling.rest /\ toolCalls \in [Calls -> Status]
      /\ \A d \in scheduling.rest \cup {c} : toolCalls[d] = "validating"
  BY DEF Validated, IsScheduling, QInv, TypeOK, Idle, LoopValidates
<1>2. finalizing = {}
  BY DEF Validated, QInv, Idle, ReportsWhileIdle
<1>3. st[c] = new /\ \A d \in Calls \ {c} : st[d] = toolCalls[d]
  BY <1>1 DEF SetStatus, Terminal
<1>4. st \in [Calls -> Status]
  BY <1>1, SetStatusType DEF Status, Terminal
<1>5. \A d \in scheduling.rest : st[d] = "validating"
  BY <1>1, <1>3
<1>6. Live(st) # {}
  BY <1>1, <1>3 DEF Live
<1>7. LoopOn(st, scheduling.batch, scheduling.rest, {})
  BY <1>2 DEF Validated
<1>8. TypeOK
  BY DEF QInv
<1>9. ~Fresh(c)
  BY <1>1 DEF QInv, FreshAbsent
<1> HIDE DEF st
<1>10. /\ Idle' /\ Awake'
       /\ \A d \in Calls :
            /\ toolCalls'[d] = "validating" => st[d] = "validating"
            /\ st[d] = "absent" => toolCalls'[d] = "absent"
       /\ \A r \in running' :
            \/ r \in running
            \/ r.call \in Calls /\ st[r.call] = "scheduled"
       /\ \A d \in prompts' : d \in prompts \/ st[d] = "awaiting_approval"
  BY <1>1, <1>4, <1>5, <1>6, <1>7, <1>8, LoopOnOK
<1>11. \A d \in Calls : /\ st[d] = "validating" => toolCalls[d] = "validating"
                        /\ toolCalls[d] = "absent" <=> st[d] = "absent"
  BY <1>1, <1>3
<1>12. new # "validating"
  OBVIOUS
<1>13. prompts' \subseteq Calls /\ \A d \in Calls :
         st[d] = "awaiting_approval" =>
           toolCalls[d] # "absent" /\ toolCalls'[d] # "validating"
  BY <1>7, <1>10, <1>11, <1>8 DEF LoopOn, Attempt, Publish, TypeOK
<1>14. \A r \in running' :
         \/ r \in running
         \/ toolCalls[r.call] # "absent" /\ toolCalls'[r.call] # "validating"
  BY <1>10, <1>11
<1>15. \A d \in Calls :
         /\ toolCalls'[d] = "validating" => toolCalls[d] = "validating"
         /\ toolCalls[d] = "absent" => toolCalls'[d] = "absent"
  BY <1>10, <1>11
<1>16. toolCalls'[c] # "validating"
  BY <1>1, <1>3, <1>10, <1>12
<1> QED
  BY <1>1, <1>9, <1>10, <1>13, <1>14, <1>15, <1>16 DEF Calm

(* A batch begins, at once or from the queue.  Its calls were fresh, so    *)
(* nothing refers to them.                                                 *)
LEMMA BatchBegins ==
  ASSUME QInv, ConstantsOK, TypeOK', NEW b \in Batches, StartBatch(b, {}),
         UNCHANGED <<handler, ide>>, QueueOK',
         \A c \in CallsOf(b) : Fresh(c),
         \A c \in Calls : Fresh(c)' => Fresh(c) /\ c \notin CallsOf(b)
  PROVE  QInv' /\ Ahead
<1>1. PICK bad \in SUBSET CallsOf(b) :
        LoopOn(Listed(b, bad), b, CallsOf(b) \ bad, {})
  BY DEF StartBatch
<1> DEFINE st == Listed(b, bad)
           rest == CallsOf(b) \ bad
<1>2. TypeOK /\ toolCalls \in [Calls -> Status]
  BY DEF QInv, TypeOK
<1>3. st \in [Calls -> Status]
  BY <1>2 DEF Listed, Status, Terminal
<1>4. /\ \A c \in CallsOf(b) : st[c] \in {"error", "validating"}
      /\ \A c \in rest : st[c] = "validating"
      /\ \A c \in Calls \ CallsOf(b) : st[c] = toolCalls[c]
  BY DEF Listed, CallsOf
<1>5. rest \in SUBSET Calls /\ LoopOn(st, b, rest, {})
  BY <1>1 DEF CallsOf
<1>6. Live(st) # {}
  <2>1. PICK c \in CallsOf(b) : TRUE
    BY DEF ConstantsOK
  <2> QED
    BY <1>4, <2>1 DEF Live, CallsOf
<1> HIDE DEF st, rest
<1>7. /\ Idle' /\ Awake'
      /\ \A c \in Calls :
           /\ toolCalls'[c] = "validating" => st[c] = "validating"
           /\ st[c] = "absent" => toolCalls'[c] = "absent"
      /\ \A r \in running' :
           \/ r \in running
           \/ r.call \in Calls /\ st[r.call] = "scheduled"
      /\ \A c \in prompts' : c \in prompts \/ st[c] = "awaiting_approval"
  BY <1>2, <1>3, <1>4, <1>5, <1>6, LoopOnOK
<1>8. FreshAbsent'
  BY <1>4, <1>7 DEF QInv, FreshAbsent
<1>11. Ahead
  BY <1>4, <1>7 DEF Uncalled, Ahead
<1>9. Apart'
  <2> SUFFICES ASSUME NEW c \in Calls, Uncalled(c)' PROVE Untouched(c)'
    BY DEF Apart
  <2>1. Uncalled(c)
    BY <1>11 DEF Ahead
  <2>2. Untouched(c) /\ toolCalls[c] \in {"absent", "validating"}
    BY <2>1 DEF QInv, Apart, Uncalled, FreshAbsent
  <2>3. st[c] # "scheduled"
    BY <1>4, <2>2
  <2>4. \A r \in running' : r.call # c
    BY <1>7, <2>2, <2>3 DEF Untouched
  <2>5. c \notin prompts'
    BY <1>4, <1>7, <2>2 DEF Untouched
  <2> QED
    BY <2>2, <2>4, <2>5 DEF Untouched
<1>10. NoLostWakeup'
  BY <1>7 DEF NoLostWakeup, Awake
<1> QED
  BY <1>7, <1>8, <1>9, <1>10, <1>11 DEF QInv

-----------------------------------------------------------------------------
(* The queue.                                                              *)

(* A request at the end of the queue.                                      *)
LEMMA AppendRange ==
  ASSUME NEW S, NEW q \in Seq(S), NEW b \in S
  PROVE  /\ Range(Append(q, b)) = Range(q) \cup {b}
         /\ IsInjective(q) /\ b \notin Range(q) => IsInjective(Append(q, b))
<1> DEFINE r == Append(q, b)
<1>1. /\ DOMAIN q = 1..Len(q) /\ DOMAIN r = 1..(Len(q) + 1)
      /\ Len(q) \in Nat
      /\ \A j \in 1..Len(q) : r[j] = q[j]
      /\ r[Len(q) + 1] = b
  OBVIOUS
<1> HIDE DEF r
<1>2. Range(r) \subseteq Range(q) \cup {b}
  BY <1>1 DEF Range
<1>3. Range(q) \subseteq Range(r)
  BY <1>1 DEF Range
<1>4. b \in Range(r)
  BY <1>1 DEF Range
<1>5. ASSUME IsInjective(q), b \notin Range(q) PROVE IsInjective(r)
  BY <1>1, <1>5 DEF IsInjective, Range
<1> QED
  BY <1>2, <1>3, <1>4, <1>5 DEF r

(* The request at the head of the queue leaves it.                         *)
LEMMA TailRange ==
  ASSUME NEW S, NEW q \in Seq(S), q # <<>>
  PROVE  /\ Range(Tail(q)) \subseteq Range(q) /\ Head(q) \in Range(q)
         /\ IsInjective(q) =>
              IsInjective(Tail(q)) /\ Head(q) \notin Range(Tail(q))
BY DEF Range, IsInjective

(* A request is taken out of the queue.                                    *)
LEMMA RemoveAtRange ==
  ASSUME NEW S, NEW q \in Seq(S), NEW i \in 1..Len(q)
  PROVE  /\ Range(RemoveAt(q, i)) \subseteq Range(q)
         /\ IsInjective(q) => IsInjective(RemoveAt(q, i))
<1> DEFINE r == RemoveAt(q, i)
<1>1. r \in Seq(S)
  BY RemoveAtType
<1>2. /\ Len(r) = Len(q) - 1
      /\ \A j \in 1..Len(r) : r[j] = IF j < i THEN q[j] ELSE q[j + 1]
  <2> DEFINE front == SubSeq(q, 1, i - 1)
             back == SubSeq(q, i + 1, Len(q))
  <2>1. /\ front \in Seq(S) /\ back \in Seq(S)
        /\ Len(front) = i - 1 /\ Len(back) = Len(q) - i
        /\ \A j \in 1..(i - 1) : front[j] = q[j]
        /\ \A j \in 1..(Len(q) - i) : back[j] = q[i + j]
    OBVIOUS
  <2>2. r = front \o back
    BY DEF RemoveAt
  <2> HIDE DEF front, back, r
  <2>3. Len(r) = Len(q) - 1
    BY <2>1, <2>2
  <2>4. ASSUME NEW j \in 1..Len(r), j < i PROVE r[j] = q[j]
    BY <2>1, <2>2, <2>3, <2>4
  <2>5. ASSUME NEW j \in 1..Len(r), ~(j < i) PROVE r[j] = q[j + 1]
    <3>1. r[j] = back[j - (i - 1)]
      BY <2>1, <2>2, <2>3, <2>5
    <3>2. j - (i - 1) \in 1..(Len(q) - i) /\ i + (j - (i - 1)) = j + 1
      BY <2>3, <2>5
    <3> QED
      BY <2>1, <3>1, <3>2
  <2> QED
    BY <2>3, <2>4, <2>5
<1> HIDE DEF r
<1>3. DOMAIN r = 1..Len(r) /\ DOMAIN q = 1..Len(q)
  BY <1>1
<1>4. Range(r) \subseteq Range(q)
  BY <1>2, <1>3 DEF Range
<1>5. ASSUME IsInjective(q) PROVE IsInjective(r)
  BY <1>2, <1>3, <1>5 DEF IsInjective
<1> QED
  BY <1>4, <1>5 DEF r

-----------------------------------------------------------------------------
(* Every segment keeps the invariant.                                      *)

(* A request arrives, waits, or is withdrawn from the queue.               *)
LEMMA RequestSteps ==
  ASSUME QInv, ConstantsOK, TypeOK', RequestEvent
  PROVE  QInv' /\ Ahead
<1> USE DEF QInv
<1>0. requestQueue \in Seq(Batches) /\ DOMAIN requestQueue = 1..Len(requestQueue)
  BY DEF TypeOK
<1>1. ASSUME NEW b \in Batches, Schedule(b) PROVE QInv' /\ Ahead
  <2>1. finalizing = {} /\ b \notin submitted /\ submitted' = submitted \cup {b}
        /\ requestQueue' = requestQueue /\ UNCHANGED <<handler, ide>>
    BY <1>1 DEF Schedule, IsRunning
  <2>2. StartBatch(b, {})
    BY <1>1, <2>1 DEF Schedule
  <2>3. QueueOK'
    BY <2>1 DEF QueueOK
  <2>4. \A c \in CallsOf(b) : Fresh(c)
    BY <2>1 DEF Fresh, CallsOf
  <2>5. b \notin Range(requestQueue)
    BY <2>1 DEF QueueOK
  <2>6. \A c \in Calls : Fresh(c)' => Fresh(c) /\ c \notin CallsOf(b)
    BY <2>1, <2>5 DEF Fresh, CallsOf
  <2> QED
    BY <2>1, <2>2, <2>3, <2>4, <2>6, BatchBegins
<1>2. ASSUME NEW b \in Batches, ScheduleQueued(b) PROVE QInv' /\ Ahead
  <2>1. /\ b \notin submitted /\ submitted' = submitted \cup {b}
        /\ requestQueue' = Append(requestQueue, b)
        /\ UNCHANGED <<toolCalls, prompts, scheduling, finalizing, handler, ide,
                       running>>
    BY <1>2 DEF ScheduleQueued, Queued, callVars
  <2>2. /\ Range(requestQueue') = Range(requestQueue) \cup {b}
        /\ b \notin Range(requestQueue)
        /\ IsInjective(requestQueue')
    BY <1>0, <2>1, AppendRange DEF QueueOK
  <2>3. QueueOK'
    BY <2>1, <2>2 DEF QueueOK
  <2>4. \A c \in Calls : Fresh(c)' <=> Fresh(c)
    BY <2>1, <2>2 DEF Fresh
  <2>5. FreshAbsent' /\ Apart' /\ Ahead
    BY <2>1, <2>4 DEF FreshAbsent, Apart, Uncalled, Untouched, Ahead
  <2>6. Idle'
    BY <2>1 DEF Idle, ReportsWhileIdle, LoopValidates, IsScheduling, Live
  <2>7. Awake
    <3>1. CASE IsScheduling
      <4>1. scheduling.call \in Calls /\ toolCalls[scheduling.call] = "validating"
        BY <3>1 DEF TypeOK, IsScheduling, Idle, LoopValidates
      <4> QED
        BY <4>1 DEF Awake, Live
    <3>2. CASE IsRunning
      BY <3>2 DEF IsRunning, Awake, Live
    <3> QED
      BY <1>2, <3>1, <3>2 DEF ScheduleQueued
  <2>8. NoLostWakeup'
    BY <2>1, <2>7 DEF NoLostWakeup, Awake, Live
  <2> QED
    BY <2>3, <2>5, <2>6, <2>8
<1>3. ASSUME NEW b \in Batches, Abort(b) PROVE QInv' /\ Ahead
  <2>1. UNCHANGED <<toolCalls, prompts, scheduling, finalizing, handler, ide,
                    running, submitted>>
    BY <1>3 DEF Abort, callVars
  <2>2. /\ Range(requestQueue') \subseteq Range(requestQueue)
        /\ IsInjective(requestQueue')
        /\ requestQueue' # <<>> => requestQueue # <<>>
    <3>1. CASE requestQueue' = requestQueue
      BY <3>1 DEF QueueOK
    <3>2. ASSUME NEW i \in 1..Len(requestQueue),
                 requestQueue' = RemoveAt(requestQueue, i)
          PROVE  /\ Range(requestQueue') \subseteq Range(requestQueue)
                 /\ IsInjective(requestQueue')
                 /\ requestQueue' # <<>> => requestQueue # <<>>
      BY <1>0, <3>2, RemoveAtRange DEF QueueOK
    <3> QED
      BY <1>3, <3>1, <3>2 DEF Abort
  <2>3. QueueOK'
    BY <2>1, <2>2 DEF QueueOK
  <2>4. \A c \in Calls : Fresh(c)' => Fresh(c)
    BY <2>1, <2>2 DEF Fresh
  <2>5. FreshAbsent' /\ Apart' /\ Ahead
    BY <2>1, <2>4 DEF FreshAbsent, Apart, Uncalled, Untouched, Ahead
  <2>6. Idle'
    BY <2>1 DEF Idle, ReportsWhileIdle, LoopValidates, IsScheduling, Live
  <2>7. NoLostWakeup'
    BY <2>1, <2>2 DEF NoLostWakeup, Live
  <2> QED
    BY <2>3, <2>5, <2>6, <2>7
<1> QED
  BY <1>1, <1>2, <1>3 DEF RequestEvent

(* A call is validated.                                                    *)
LEMMA ValidationSteps ==
  ASSUME QInv, ConstantsOK, TypeOK', ValidationEvent
  PROVE  QInv' /\ Ahead
<1>1. PICK new \in {"scheduled", "awaiting_approval", "error"} : Validated(new)
  BY Zenon DEF ValidationEvent, NoConfirmation, AskUser, ValidationThrows
<1>2. UNCHANGED <<requestQueue, submitted>> /\ handler' = handler
  BY <1>1 DEF Validated, requestVars
<1>3. PICK c \in Calls : /\ c = scheduling.call /\ ~Fresh(c)
                         /\ toolCalls'[c] # "validating"
  BY <1>1, ValidatedCalm
<1>4. ~Uncalled(c)'
  BY <1>2, <1>3 DEF Uncalled, Fresh
<1>5. \A d \in Calls \ {c} : ide'[d] = ide[d]
  BY <1>3
  DEF ValidationEvent, NoConfirmation, AskUser, ValidationThrows, QInv, TypeOK
<1>6. \A d \in Calls : Uncalled(d)' => ide'[d] = ide[d]
  BY <1>4, <1>5
<1>7. Calm
  BY <1>1, ValidatedCalm
<1> QED
  BY <1>2, <1>6, <1>7, CalmKeeps

(* The call of an invocation under way is past its validation, and so are  *)
(* the calls it is auto-approving.                                         *)
LEMMA HandledIsCalled ==
  ASSUME QInv, NEW h \in Handlers
  PROVE  \A c \in Calls : c = handler[h].call \/ c \in handler[h].pending
                            => ~Uncalled(c)
BY DEF QInv, Apart, Untouched

(* An answer arrives, from the terminal, a server or the IDE.              *)
LEMMA AnswerSteps ==
  ASSUME QInv, ConstantsOK, TypeOK', NEW h \in Handlers, AnswerEvent(h)
  PROVE  QInv' /\ Ahead
<1>0. AnswerTypes /\ TypeOK /\ Idle /\ FreshAbsent
      /\ toolCalls \in [Calls -> Status] /\ Alike(toolCalls, toolCalls)
  BY TypeParts DEF QInv, TypeOK, Alike
<1>1. ASSUME NEW c \in Calls, NEW o \in Outcome, Answer(h, c, o) PROVE QInv' /\ Ahead
  <2>1. UNCHANGED <<requestQueue, submitted, scheduling, ide>>
    BY <1>1 DEF Answer, requestVars
  <2>2. ~Uncalled(c)
    BY <1>1 DEF Answer, QInv, Apart, Untouched
  <2>3. CASE Wait(h, "onConfirm", c, o, {}) /\ UNCHANGED callVars
    <3>1. Calm
      BY <1>0, <2>1, <2>3 DEF Calm, Idle, ReportsWhileIdle, LoopValidates,
                              IsScheduling, Live, Awake, callVars
    <3>2. HandlerCalm(h)
      BY <1>0, <2>2, <2>3, WaitCalm
    <3> QED
      BY <2>1, <3>1, <3>2, CalmKeeps
  <2>4. ASSUME NEW p \in Outcome, AfterOnConfirm(h, c, p) PROVE QInv' /\ Ahead
    <3>1. Calm /\ HandlerCalm(h)
      BY <1>0, <2>1, <2>2, <2>4, AfterOnConfirmCalm
    <3> QED
      BY <2>1, <3>1, CalmKeeps
  <2>5. CASE UNCHANGED <<callVars, handler>>
    <3>1. Calm
      BY <1>0, <2>1, <2>5 DEF Calm, Idle, ReportsWhileIdle, LoopValidates,
                              IsScheduling, Live, Awake, callVars
    <3> QED
      BY <2>1, <2>5, <3>1, CalmKeeps
  <2>6. "ProceedOnce" \in Outcome
    BY DEF Outcome, Proceed
  <2> QED
    BY <1>1, <2>3, <2>4, <2>5, <2>6 DEF Answer, AnswerLate
<1>2. ASSUME NEW c \in Calls, NEW v \in {"accepted", "rejected"},
             IdeResolves(h, c, v)
      PROVE  QInv' /\ Ahead
  <2> DEFINE o == IF v = "accepted" THEN "ProceedOnce" ELSE "Cancel"
  <2>0. o \in Outcome
    BY DEF Outcome, Proceed
  <2>1. UNCHANGED <<requestQueue, submitted, scheduling>>
    BY <1>2 DEF IdeResolves, requestVars
  <2>2. ~Uncalled(c)
    BY <1>2 DEF IdeResolves, QInv, Apart, Untouched
  <2>3. \A d \in Calls \ {c} : ide'[d] = ide[d]
    BY <1>2 DEF IdeResolves, QInv, TypeOK
  <2>4. \/ Wait(h, "onConfirm", c, o, {}) /\ UNCHANGED callVars
        \/ Decide(h, c, o, toolCalls)
    BY <1>2 DEF IdeResolves
  <2> HIDE DEF o
  <2>5. Calm /\ HandlerCalm(h)
    <3>1. CASE Wait(h, "onConfirm", c, o, {}) /\ UNCHANGED callVars
      <4>1. Calm
        BY <1>0, <2>1, <3>1 DEF Calm, Idle, ReportsWhileIdle, LoopValidates,
                                IsScheduling, Live, Awake, callVars
      <4> QED
        BY <1>0, <2>2, <3>1, <4>1, WaitCalm
    <3>2. CASE Decide(h, c, o, toolCalls)
      BY <1>0, <2>0, <2>1, <2>2, <3>2, DecideCalm
    <3> QED
      BY <2>4, <3>1, <3>2
  <2>6. ~Uncalled(c)'
    BY <2>1, <2>2, <2>5 DEF Uncalled, Fresh, Calm
  <2> QED
    BY <2>1, <2>3, <2>5, <2>6, CalmKeeps
<1> QED
  BY <1>1, <1>2 DEF AnswerEvent

(* The awaits of handleConfirmationResponse settle.                        *)
LEMMA HandlerSteps ==
  ASSUME QInv, ConstantsOK, TypeOK', NEW h \in Handlers, HandlerEvent(h)
  PROVE  QInv' /\ Ahead
<1>0. AnswerTypes /\ TypeOK /\ Idle /\ FreshAbsent
      /\ toolCalls \in [Calls -> Status] /\ Alike(toolCalls, toolCalls)
      /\ handler[h] \in HandlerState
  BY TypeParts DEF QInv, TypeOK, Alike
<1>1. ASSUME NEW d \in Calls, AutoApprove(h, d) \/ StillPending(h, d)
      PROVE  QInv' /\ Ahead
  <2>1. UNCHANGED <<requestQueue, submitted, scheduling>>
    BY <1>1 DEF AutoApprove, StillPending, requestVars
  <2>2. PICK c \in Calls, pending \in SUBSET Calls :
          /\ c = handler[h].call /\ pending = handler[h].pending
          /\ ~Uncalled(c) /\ \A e \in pending : ~Uncalled(e)
    BY <1>0, <1>1, HandledIsCalled
    DEF AutoApprove, StillPending, HandlerState, Free
  <2>3. d \in pending /\ toolCalls[d] # "validating"
    BY <1>1, <2>2 DEF AutoApprove, StillPending, Uncalled
  <2>4. PICK st \in {toolCalls, SetStatus(toolCalls, d, "scheduled")} :
          AutoApproveOn(h, c, pending \ {d}, st)
    BY <1>1, <2>2, Zenon DEF AutoApprove, StillPending
  <2>5. st \in [Calls -> Status] /\ Alike(toolCalls, st)
    <3>1. "scheduled" \in Status \ {"absent", "validating"}
      BY DEF Status
    <3>2. CASE st = toolCalls
      BY <1>0, <3>2
    <3>3. CASE st = SetStatus(toolCalls, d, "scheduled")
      <4>1. /\ SetStatus(toolCalls, d, "scheduled") \in [Calls -> Status]
            /\ Alike(toolCalls, SetStatus(toolCalls, d, "scheduled"))
        BY <1>0, <2>3, <3>1, SetStatusType, SetStatusAlike
      <4> QED
        BY <3>3, <4>1
    <3> QED
      BY <3>2, <3>3
  <2>6. Calm /\ HandlerCalm(h)
    <3>1. pending \ {d} \in SUBSET Calls /\ \A e \in pending \ {d} : ~Uncalled(e)
      BY <2>2
    <3> QED
      BY <1>0, <2>1, <2>2, <2>4, <2>5, <3>1, AutoApproveOnCalm
  <2>7. \A e \in Calls : Uncalled(e)' => ide'[e] = ide[e]
    <3>1. ~Uncalled(d)'
      BY <2>1, <2>2, <2>3, <2>6 DEF Uncalled, Fresh, Calm
    <3>2. \A e \in Calls \ {d} : ide'[e] = ide[e]
      BY <1>0, <1>1 DEF AutoApprove, StillPending, TypeOK
    <3> QED
      BY <3>1, <3>2
  <2> QED
    BY <2>1, <2>6, <2>7, CalmKeeps
<1>2. ASSUME NEW valid \in BOOLEAN, EditorCloses(h, valid) \/ InlineModified(h, valid)
      PROVE  QInv' /\ Ahead
  <2>1. UNCHANGED <<requestQueue, submitted, scheduling, ide>>
    BY <1>2 DEF EditorCloses, InlineModified, requestVars
  <2>2. PICK c \in Calls : c = handler[h].call /\ ~Uncalled(c)
    BY <1>0, <1>2, HandledIsCalled
    DEF EditorCloses, InlineModified, HandlerState, Free
  <2> DEFINE edited == SetArgs(toolCalls, c, valid)
  <2>3. toolCalls[c] # "validating"
    BY <2>2 DEF Uncalled
  <2>4. /\ edited \in [Calls -> Status] /\ Alike(toolCalls, edited)
        /\ edited[c] # "validating"
    BY <1>0, <2>3, SetArgsType, SetArgsAlike DEF Alike
  <2>5. PICK new \in {"awaiting_approval", "scheduled"} :
          Attempt(SetStatus(edited, c, new), BatchOf[c], finalizing)
    BY <1>2, <2>2, Zenon DEF EditorCloses, InlineModified
  <2>6. new \in Status \ {"absent", "validating"}
    BY DEF Status
  <2> HIDE DEF edited
  <2>7. /\ SetStatus(edited, c, new) \in [Calls -> Status]
        /\ Alike(toolCalls, SetStatus(edited, c, new))
    BY <2>4, <2>6, SetStatusType, SetStatusAlike, AlikeTransitive
  <2>8. Calm
    BY <1>0, <2>1, <2>5, <2>7, AttemptCalm
  <2>9. HandlerCalm(h)
    BY <1>0, <1>2, ReleaseCalm DEF EditorCloses, InlineModified
  <2> QED
    BY <2>1, <2>8, <2>9, CalmKeeps
<1>3. ASSUME EditFails(h) PROVE QInv' /\ Ahead
  <2>1. UNCHANGED <<requestQueue, submitted, scheduling, ide, toolCalls,
                    prompts, finalizing, running>>
    BY <1>3 DEF EditFails, requestVars, callVars
  <2>2. HandlerCalm(h)
    BY <1>0, <1>3, ReleaseCalm DEF EditFails
  <2>3. Calm
    BY <1>0, <2>1 DEF Calm, Idle, ReportsWhileIdle, LoopValidates,
                      IsScheduling, Live, Awake
  <2> QED
    BY <2>1, <2>2, <2>3, CalmKeeps
<1>4. ASSUME OnConfirmSettles(h) PROVE QInv' /\ Ahead
  <2>1. UNCHANGED <<requestQueue, submitted, scheduling, ide>>
    BY <1>4 DEF OnConfirmSettles, requestVars
  <2>2. PICK c \in Calls, o \in Outcome :
          /\ c = handler[h].call /\ o = handler[h].outcome /\ ~Uncalled(c)
    BY <1>0, <1>4, HandledIsCalled DEF OnConfirmSettles, HandlerState, Free
  <2>3. AfterOnConfirm(h, c, o)
    BY <1>4, <2>2 DEF OnConfirmSettles
  <2>4. Calm /\ HandlerCalm(h)
    BY <1>0, <2>1, <2>2, <2>3, AfterOnConfirmCalm
  <2> QED
    BY <2>1, <2>4, CalmKeeps
<1> QED
  BY <1>1, <1>2, <1>3, <1>4 DEF HandlerEvent

(* A tool settles: its call was started, so it is past its validation.     *)
LEMMA ToolSteps ==
  ASSUME QInv, ConstantsOK, TypeOK', ToolEvent
  PROVE  QInv' /\ Ahead
<1>1. PICK r \in running, new \in Terminal : ToolSettles(r, new)
  BY DEF ToolEvent
<1>2. TypeOK /\ Idle /\ toolCalls \in [Calls -> Status]
  BY DEF QInv, TypeOK
<1>3. r.call \in Calls /\ toolCalls[r.call] # "validating"
  BY DEF QInv, TypeOK, Execution, Apart, Untouched, Uncalled
<1>4. new \in Status \ {"absent", "validating"}
  BY DEF Status, Terminal
<1> DEFINE st == SetStatus(toolCalls, r.call, new)
<1>5. st \in [Calls -> Status] /\ Alike(toolCalls, st)
  BY <1>2, <1>3, <1>4, SetStatusType, SetStatusAlike
<1>6. /\ Publish(st, finalizing) /\ running' = running \ {r}
      /\ UNCHANGED <<requestQueue, submitted, scheduling, handler, ide>>
  BY <1>1 DEF ToolSettles, requestVars
<1> HIDE DEF st
<1>7. Calm
  BY <1>2, <1>5, <1>6, PublishCalm DEF Calm
<1> QED
  BY <1>6, <1>7, CalmKeeps

(* The report ends; the next request, if any, leaves the queue and begins. *)
LEMMA ReportSteps ==
  ASSUME QInv, ConstantsOK, TypeOK', ReportEvent
  PROVE  QInv' /\ Ahead
<1> USE DEF QInv
<1>1. CASE ReportDone
  <2>1. /\ requestQueue = <<>> /\ finalizing' = {} /\ finalizing # {}
        /\ UNCHANGED <<requestQueue, submitted, toolCalls, prompts, scheduling,
                       handler, ide, running>>
    BY <1>1 DEF ReportDone, requestVars
  <2>2. QueueOK' /\ NoLostWakeup'
    BY <2>1 DEF QueueOK, NoLostWakeup
  <2>3. FreshAbsent' /\ Apart' /\ Ahead
    BY <2>1 DEF FreshAbsent, Apart, Fresh, Uncalled, Untouched, Ahead
  <2>4. Idle'
    BY <2>1 DEF Idle, ReportsWhileIdle, LoopValidates, IsScheduling
  <2> QED
    BY <2>2, <2>3, <2>4
<1>2. CASE ReportDoneStartNext
  <2>1. requestQueue # <<>> /\ requestQueue \in Seq(Batches)
    BY <1>2 DEF ReportDoneStartNext, TypeOK
  <2>2. PICK b \in Batches : b = Head(requestQueue)
    BY <2>1
  <2>3. /\ StartBatch(b, {}) /\ requestQueue' = Tail(requestQueue)
        /\ UNCHANGED <<submitted, handler, ide>>
    BY <1>2, <2>2 DEF ReportDoneStartNext
  <2>4. /\ Range(requestQueue') \subseteq Range(requestQueue)
        /\ b \in Range(requestQueue)
        /\ IsInjective(requestQueue') /\ b \notin Range(requestQueue')
    BY <2>1, <2>2, <2>3, TailRange DEF QueueOK
  <2>5. QueueOK'
    BY <2>3, <2>4 DEF QueueOK
  <2>6. \A c \in CallsOf(b) : Fresh(c)
    BY <2>4 DEF Fresh, CallsOf
  <2>7. \A c \in Calls : Fresh(c)' => Fresh(c) /\ c \notin CallsOf(b)
    BY <2>3, <2>4 DEF Fresh, CallsOf, QueueOK
  <2> QED
    BY <2>3, <2>5, <2>6, <2>7, BatchBegins
<1> QED
  BY <1>1, <1>2 DEF ReportEvent

(* Every step keeps the invariant.                                         *)
LEMMA QStep ==
  ASSUME QInv, ConstantsOK, [Next]_vars
  PROVE  QInv' /\ Ahead
<1>1. TypeOK'
  BY TypeStep DEF QInv
<1>2. CASE UNCHANGED vars
  BY <1>1, <1>2
  DEF vars, Ahead, QInv, QueueOK, FreshAbsent, Apart, Fresh, Uncalled, Untouched, Idle,
      ReportsWhileIdle, LoopValidates, NoLostWakeup, IsScheduling, Live
<1>3. CASE Rerender
  BY <1>1, <1>3
  DEF Rerender, Ahead, requestVars, QInv, QueueOK, FreshAbsent, Apart, Fresh, Uncalled,
      Untouched, Idle, ReportsWhileIdle, LoopValidates, NoLostWakeup,
      IsScheduling, Live
<1> QED
  BY <1>1, <1>2, <1>3, RequestSteps, ValidationSteps, ToolSteps, ReportSteps,
     AnswerSteps, HandlerSteps DEF Next

(* It holds at the start.                                                  *)
LEMMA QInit ==
  ASSUME ConstantsOK, Init
  PROVE  QInv
<1>1. TypeOK
  BY DEF Init, TypeOK, Status, IdeState, HandlerState, Free, NotScheduling,
         Terminal, ConstantsOK
<1>2. QueueOK
  BY DEF Init, QueueOK, IsInjective, Range
<1>3. FreshAbsent /\ Apart
  BY DEF Init, FreshAbsent, Apart, Uncalled, Untouched, Free, ConstantsOK
<1>4. Idle /\ NoLostWakeup
  BY DEF Init, Idle, ReportsWhileIdle, LoopValidates, IsScheduling, NoLostWakeup
<1> QED
  BY <1>1, <1>2, <1>3, <1>4 DEF QInv

(* Whatever refers to a call is past its validation, so nothing of an      *)
(* earlier batch starts a new one; hence a report finds the scheduler idle. *)
THEOREM QueueInvariant ==
  Spec => []QInv
<1>1. QInv /\ [Next]_vars => QInv'
  BY QStep, ConstantsOK
<1>2. Init => QInv
  BY QInit, ConstantsOK
<1> QED
  BY <1>1, <1>2, PTL DEF Spec

(* A batch is reported by an idle scheduler only, whatever client answers  *)
(* and whenever its answers come; so the request that leaves the queue at  *)
(* the end of the report is never thrown away.                             *)
THEOREM IdleWhenReporting ==
  Spec => []ReportsWhileIdle
<1>1. QInv => ReportsWhileIdle
  BY DEF QInv, Idle
<1> QED
  BY <1>1, QueueInvariant, PTL

(* A request never waits in the queue of a scheduler with nothing to do.   *)
THEOREM NoWakeupIsLost ==
  Spec => []NoLostWakeup
<1>1. QInv => NoLostWakeup
  BY DEF QInv
<1> QED
  BY <1>1, QueueInvariant, PTL

-----------------------------------------------------------------------------
(***************************************************************************)
(* The calls that are decided once (see Overlaps), whatever client answers *)
(* and whether or not an IDE can.                                          *)
(*                                                                         *)
(* The reason is one invariant for a single call, Once.  An invocation     *)
(* that works on the call keeps it from being scheduled: the call is asked *)
(* about, or it has been taken back; it is never started behind the        *)
(* invocation's back.  Two invocations work on it together only when the   *)
(* user cancels during an edit.  A call that is scheduled or was started   *)
(* has no invocation left, and a decision about it is a second one.        *)
(*                                                                         *)
(* Every segment first changes the statuses (st below), then starts what   *)
(* can start, then makes the completion check.  The lemmas follow the code *)
(* backwards along that order: PublishOnce and AttemptOnce say what st     *)
(* must satisfy, and the others that each segment brings it about.         *)
(***************************************************************************)

WorksOn(hs, h, c) == hs[h].pc # "free" /\ hs[h].call = c

(* What became of the call c.  st stands for toolCalls before the           *)
(* completion check, the other parameters for the variables when it is     *)
(* made; fresh says that c has not been validated.                         *)
Once(c, st, starts, refs, results, hs, fresh) ==
  /\ starts[c] = 0 =>
       st[c] \notin {"executing", "success"} /\ results[c] # "success"
  /\ starts[c] # 0 =>
       /\ starts[c] = 1 /\ st[c] \in {"executing", "absent"} \cup Terminal
       /\ c \notin refs /\ \A h \in Handlers : ~ WorksOn(hs, h, c)
  /\ st[c] = "scheduled" =>
       c \notin refs /\ \A h \in Handlers : ~ WorksOn(hs, h, c)
  /\ st[c] = "awaiting_approval" /\ c \in refs =>
       \E h \in Handlers : WorksOn(hs, h, c) /\ hs[h].outcome = "Cancel"
  /\ \A g, h \in Handlers : WorksOn(hs, g, c) /\ WorksOn(hs, h, c) /\ g # h =>
       \/ hs[g].pc = "editor" /\ hs[h].outcome = "Cancel"
       \/ hs[h].pc = "editor" /\ hs[g].outcome = "Cancel"
  /\ results[c] # "none" => st[c] = "absent"
  /\ fresh => /\ st[c] \in {"absent", "validating"} /\ starts[c] = 0
              /\ c \notin refs /\ results[c] = "none"

(* Cancel is decided as soon as onConfirm has settled.                      *)
CancelsAtOnce(hs) ==
  \A h \in Handlers : hs[h].outcome = "Cancel" => hs[h].pc = "onConfirm"
RunsStarted == \A r \in running : launches[r.call] # 0

OnceOf(c) == Once(c, toolCalls, launches, refused, result, handler, Uncalled(c))
DecidedOnce ==
  /\ QInv /\ CancelsAtOnce(handler) /\ RunsStarted
  /\ \A c \in Calls \ again : OnceOf(c)

(* What a segment may do to the status of a call before its completion      *)
(* check, and what it has done when it ends.                               *)
Moves(c, st) ==
  /\ toolCalls[c] = "executing" => st[c] \in Terminal \cup {"executing"}
  /\ toolCalls[c] \in Terminal => Keeps(toolCalls[c], st[c])
Forward(c) ==
  /\ toolCalls[c] = "executing" =>
       toolCalls'[c] \in {"executing", "absent"} \cup Terminal
  /\ toolCalls[c] \in Terminal =>
       \/ Keeps(toolCalls[c], toolCalls'[c])
       \/ toolCalls'[c] = "absent" /\ Keeps(toolCalls[c], result'[c])
  /\ result[c] # "none" => result'[c] = result[c]

(* The completion check: a report gives each call the status it had.       *)
LEMMA PublishOnce ==
  ASSUME TypeOK, NEW st \in [Calls -> Status], NEW fin, Publish(st, fin),
         NEW c \in Calls, Moves(c, st),
         Once(c, st, launches', refused', result, handler', Uncalled(c)')
  PROVE  OnceOf(c)' /\ Forward(c)
<1>1. CASE AllTerminal(st)
  <2>1. /\ toolCalls'[c] = "absent"
        /\ result'[c] = IF st[c] # "absent" THEN st[c] ELSE result[c]
        /\ st[c] \in Terminal \cup {"absent"}
    BY <1>1 DEF Publish, AllTerminal, Live
  <2>2. OnceOf(c)'
    BY <2>1 DEF Once, OnceOf, Terminal
  <2>3. Forward(c)
    BY <2>1 DEF Forward, Moves, Once, Keeps, Terminal
  <2> QED
    BY <2>2, <2>3
<1>2. CASE ~AllTerminal(st)
  <2>1. toolCalls' = st /\ result' = result
    BY <1>2 DEF Publish
  <2> QED
    BY <2>1 DEF OnceOf, Forward, Moves
<1> QED
  BY <1>1, <1>2

(* An attempt to start calls: what is started was scheduled, so no          *)
(* invocation works on it and it was not started before.                   *)
LEMMA AttemptOnce ==
  ASSUME TypeOK, ConstantsOK, NEW st \in [Calls -> Status], NEW fin, NEW b,
         Attempt(st, b, fin), NEW c \in Calls, Moves(c, st),
         Once(c, st, launches, refused', result, handler', Uncalled(c)')
  PROVE  OnceOf(c)' /\ Forward(c)
<1> DEFINE after == AfterAttempt(st)
<1>1. after \in [Calls -> Status] /\ Publish(after, fin)
  BY AfterAttemptType DEF Attempt
<1>2. CASE c \in Launchable(st)
  <2>1. st[c] = "scheduled" /\ after[c] = "executing"
    BY <1>2 DEF Launchable, AfterAttempt
  <2>2. launches[c] = 0
    BY <2>1 DEF Once, Terminal
  <2>3. launches'[c] = 1
    BY <1>2, <2>2 DEF Attempt, OneMore, ConstantsOK
  <2>4. toolCalls[c] \notin Terminal \cup {"executing"}
    BY <2>1 DEF Moves, Keeps, Terminal
  <2> HIDE DEF after
  <2>5. Once(c, after, launches', refused', result, handler', Uncalled(c)')
    BY <2>1, <2>3 DEF Once
  <2>6. Moves(c, after)
    BY <2>4 DEF Moves
  <2> QED
    BY <1>1, <2>5, <2>6, PublishOnce
<1>3. CASE c \notin Launchable(st)
  <2>1. after[c] = st[c] /\ launches'[c] = launches[c]
    BY <1>3 DEF AfterAttempt, Attempt
  <2> HIDE DEF after
  <2>2. Once(c, after, launches', refused', result, handler', Uncalled(c)')
    BY <2>1 DEF Once
  <2>3. Moves(c, after)
    BY <2>1 DEF Moves
  <2> QED
    BY <1>1, <2>2, <2>3, PublishOnce
<1> QED
  BY <1>2, <1>3

(* A segment that only publishes its changes.                              *)
LEMMA NoAttemptOnce ==
  ASSUME TypeOK, NEW st \in [Calls -> Status], NoAttempt(st), NEW c \in Calls,
         Moves(c, st),
         Once(c, st, launches, refused', result, handler', Uncalled(c)')
  PROVE  OnceOf(c)' /\ Forward(c)
<1>1. Once(c, st, launches', refused', result, handler', Uncalled(c)')
  BY DEF NoAttempt
<1> QED
  BY <1>1, PublishOnce DEF NoAttempt

(* A segment that leaves the call as it is.                                *)
LEMMA UntouchedOnce ==
  ASSUME NEW c \in Calls, OnceOf(c), Uncalled(c)' => Uncalled(c),
         UNCHANGED <<toolCalls, launches, refused, result, handler>>
  PROVE  OnceOf(c)' /\ Forward(c)
BY DEF OnceOf, Once, Forward, Keeps

-----------------------------------------------------------------------------
(* handleConfirmationResponse.                                             *)

(* The invocation h alone has changed.                                     *)
OnlyChanged(h) == \A g \in Handlers \ {h} : handler'[g] = handler[g]

(* An invocation that ends.                                                *)
LEMMA ReleaseChanges ==
  ASSUME TypeOK, NEW h \in Handlers, Release(h)
  PROVE  OnlyChanged(h) /\ handler'[h] = Free
BY DEF TypeOK, Release, OnlyChanged

(* An invocation that waits.                                               *)
LEMMA WaitChanges ==
  ASSUME TypeOK, NEW h \in Handlers, NEW pc, NEW x, NEW o, NEW pending,
         Wait(h, pc, x, o, pending)
  PROVE  /\ OnlyChanged(h)
         /\ handler'[h].pc = pc /\ handler'[h].call = x
         /\ handler'[h].outcome = o
BY DEF TypeOK, Wait, OnlyChanged

(* An invocation that neither worked nor works on c is nothing to c.        *)
LEMMA OthersOnce ==
  ASSUME NEW h \in Handlers, OnlyChanged(h), NEW c \in Calls,
         ~ WorksOn(handler, h, c), ~ WorksOn(handler', h, c),
         NEW st, NEW nst, nst[c] = st[c], NEW refs, c \in refs <=> c \in refused,
         NEW fresh, NEW old, fresh => old,
         Once(c, st, launches, refused, result, handler, old)
  PROVE  Once(c, nst, launches, refs, result, handler', fresh)
<1>1. \A g \in Handlers :
        /\ WorksOn(handler', g, c) <=> WorksOn(handler, g, c)
        /\ WorksOn(handler, g, c) => handler'[g] = handler[g]
  BY DEF OnlyChanged, WorksOn
<1> QED
  BY <1>1 DEF Once

(* The invocation h may carry out the outcome o for its call x: x was not   *)
(* started, and h is the only one that works on it, unless x is cancelled   *)
(* during an edit.                                                         *)
MayDecide(h, x, o, st) ==
  /\ launches[x] = 0 /\ ~ Uncalled(x)'
  /\ st[x] \in {"awaiting_approval", "cancelled", "error", "absent"}
  /\ result[x] # "success" /\ (result[x] # "none" => st[x] = "absent")
  /\ \A g \in Handlers \ {h} : WorksOn(handler, g, x) =>
       o = "Cancel" /\ handler[g].pc = "editor"
  /\ \A f, g \in Handlers \ {h} :
       WorksOn(handler, f, x) /\ WorksOn(handler, g, x) => f = g
  /\ o # "Cancel" /\ st[x] = "awaiting_approval" => x \notin refused'

(* Its call keeps the invariant when h ends, having set the status to nst.  *)
LEMMA DecidedEnds ==
  ASSUME NEW h \in Handlers, NEW x \in Calls, NEW o, NEW st, NEW nst,
         MayDecide(h, x, o, st), OnlyChanged(h), handler'[h] = Free,
         \/ nst[x] = st[x] /\ o # "Cancel"
         \/ st[x] # "awaiting_approval" /\ nst[x] = st[x]
         \/ nst[x] \in {"cancelled", "error"} /\ st[x] # "absent"
         \/ nst[x] = "scheduled" /\ o # "Cancel" /\ st[x] = "awaiting_approval"
  PROVE  Once(x, nst, launches, refused', result, handler', Uncalled(x)')
<1>1. \A g \in Handlers : WorksOn(handler', g, x) =>
        g # h /\ WorksOn(handler, g, x) /\ handler'[g] = handler[g]
  BY DEF OnlyChanged, WorksOn, Free
<1> QED
  BY <1>1 DEF Once, MayDecide, Terminal

(* So it does when h goes on to wait for the IDE, the editor or the file.   *)
LEMMA DecidedWaits ==
  ASSUME NEW h \in Handlers, NEW x \in Calls, NEW o, NEW st,
         MayDecide(h, x, o, st), OnlyChanged(h),
         o = "Cancel" => handler'[h].outcome = "Cancel" /\ handler'[h].pc # "free"
                           /\ handler'[h].call = x
  PROVE  Once(x, st, launches, refused', result, handler', Uncalled(x)')
<1>1. \A g \in Handlers : WorksOn(handler', g, x) =>
        g = h \/ (WorksOn(handler, g, x) /\ handler'[g] = handler[g])
  BY DEF OnlyChanged, WorksOn
<1>2. CASE o = "Cancel"
  <2>1. WorksOn(handler', h, x)
    BY <1>2 DEF WorksOn
  <2> QED
    BY <1>1, <1>2, <2>1 DEF Once, MayDecide, Terminal
<1>3. CASE o # "Cancel"
  <2>1. \A g \in Handlers : WorksOn(handler', g, x) => g = h
    BY <1>1, <1>3 DEF MayDecide
  <2> QED
    BY <1>3, <2>1 DEF Once, MayDecide, Terminal
<1> QED
  BY <1>2, <1>3

(* The decision.                                                           *)
LEMMA DecideOnce ==
  ASSUME TypeOK, ConstantsOK, NEW h \in Handlers, NEW x \in Calls,
         NEW o \in Outcome, NEW st \in [Calls -> Status], Decide(h, x, o, st),
         NEW c \in Calls, Moves(c, st),
         c = x => MayDecide(h, x, o, st),
         c # x => /\ ~ WorksOn(handler, h, c)
                  /\ Once(c, st, launches, refused, result, handler, Uncalled(c)')
                  /\ c \in refused' <=> c \in refused
  PROVE  OnceOf(c)' /\ Forward(c)
<1>1. ASSUME NEW nst \in [Calls -> Status],
             Attempt(nst, BatchOf[x], finalizing) \/ NoAttempt(nst), Moves(c, nst),
             Once(c, nst, launches, refused', result, handler', Uncalled(c)')
      PROVE  OnceOf(c)' /\ Forward(c)
  BY <1>1, AttemptOnce, NoAttemptOnce
<1>2. \A new \in {"cancelled", "scheduled", "awaiting_approval"} :
        /\ SetStatus(st, x, new) \in [Calls -> Status]
        /\ SetStatus(st, x, new)[x] =
             IF st[x] \in Terminal \cup {"absent"} THEN st[x] ELSE new
        /\ \A d \in Calls \ {x} : SetStatus(st, x, new)[d] = st[d]
  BY DEF SetStatus, Status, Terminal
<1>3. CASE c # x
  <2>0. Release(h) \/ \E pc, p : Wait(h, pc, x, p, {})
    BY DEF Decide, ApplyInline
  <2>1. /\ OnlyChanged(h) /\ (handler'[h] = Free \/ handler'[h].call = x)
        /\ \E nst \in {st} \cup {SetStatus(st, x, new) :
                    new \in {"cancelled", "scheduled", "awaiting_approval"}} :
             Attempt(nst, BatchOf[x], finalizing) \/ NoAttempt(nst)
    <3>1. OnlyChanged(h) /\ (handler'[h] = Free \/ handler'[h].call = x)
      BY <2>0, ReleaseChanges, WaitChanges
    <3>2. \E nst \in {st} \cup {SetStatus(st, x, new) :
                    new \in {"cancelled", "scheduled", "awaiting_approval"}} :
             Attempt(nst, BatchOf[x], finalizing) \/ NoAttempt(nst)
      BY DEF Decide, ApplyInline
    <3> QED
      BY <3>1, <3>2
  <2>2. ~ WorksOn(handler', h, c)
    BY <1>3, <2>1 DEF WorksOn, Free
  <2>3. PICK nst \in [Calls -> Status] :
          /\ Attempt(nst, BatchOf[x], finalizing) \/ NoAttempt(nst)
          /\ nst[c] = st[c]
    BY <1>2, <1>3, <2>1
  <2>4. Once(c, nst, launches, refused', result, handler', Uncalled(c)')
    BY <1>3, <2>1, <2>2, <2>3, OthersOnce
  <2>5. Moves(c, nst)
    BY <2>3 DEF Moves
  <2> QED
    BY <1>1, <2>3, <2>4, <2>5
<1>4. CASE c = x
  <2> USE <1>4
  <2>1. MayDecide(h, x, o, st)
    OBVIOUS
  <2>2. st[x] \in {"awaiting_approval", "cancelled", "error", "absent"}
    BY <2>1 DEF MayDecide
  <2>3. \A new \in {"cancelled", "scheduled", "awaiting_approval"} :
          Moves(c, SetStatus(st, x, new))
    BY <1>2, <2>2 DEF Moves, Keeps, Terminal
  <2>4. CASE /\ Attempt(SetStatus(st, x, "cancelled"), BatchOf[x], finalizing)
             /\ Release(h)
    <3> DEFINE nst == SetStatus(st, x, "cancelled")
    <3>1. \/ nst[x] = "cancelled" /\ st[x] # "absent"
          \/ nst[x] = st[x] /\ st[x] # "awaiting_approval"
      BY <1>2, <2>2 DEF Terminal
    <3> HIDE DEF nst
    <3>2. Once(c, nst, launches, refused', result, handler', Uncalled(c)')
      BY <2>1, <2>4, <3>1, ReleaseChanges, DecidedEnds
    <3> QED
      BY <1>1, <1>2, <2>3, <2>4, <3>2 DEF nst
  <2>5. CASE /\ Attempt(st, BatchOf[x], finalizing) \/ NoAttempt(st)
             /\ Release(h) /\ o # "Cancel"
    <3>1. Once(c, st, launches, refused', result, handler', Uncalled(c)')
      BY <2>1, <2>5, ReleaseChanges, DecidedEnds
    <3> QED
      BY <1>1, <2>5, <3>1
  <2>6. CASE /\ NoAttempt(SetStatus(st, x, "awaiting_approval"))
             /\ Wait(h, "editor", x, o, {}) /\ o # "Cancel"
    <3>1. SetStatus(st, x, "awaiting_approval") = st
      BY <2>2 DEF SetStatus, Terminal
    <3>2. Once(c, st, launches, refused', result, handler', Uncalled(c)')
      BY <2>1, <2>6, WaitChanges, DecidedWaits
    <3> QED
      BY <1>1, <2>6, <3>1, <3>2
  <2>7. CASE /\ Attempt(SetStatus(st, x, "scheduled"), BatchOf[x], finalizing)
             /\ Release(h) /\ o # "Cancel"
    <3> DEFINE nst == SetStatus(st, x, "scheduled")
    <3>1. \/ nst[x] = "scheduled" /\ st[x] = "awaiting_approval"
          \/ nst[x] = st[x] /\ st[x] # "awaiting_approval"
      BY <1>2, <2>2 DEF Terminal
    <3> HIDE DEF nst
    <3>2. Once(c, nst, launches, refused', result, handler', Uncalled(c)')
      BY <2>1, <2>7, <3>1, ReleaseChanges, DecidedEnds
    <3> QED
      BY <1>1, <1>2, <2>3, <2>7, <3>2 DEF nst
  <2>8. CASE NoAttempt(st) /\ Wait(h, "inline", x, "ProceedInline", {})
             /\ o # "Cancel"
    <3>1. Once(c, st, launches, refused', result, handler', Uncalled(c)')
      BY <2>1, <2>8, WaitChanges, DecidedWaits
    <3> QED
      BY <1>1, <2>8, <3>1
  <2>9. \A p \in Proceed : p # "Cancel"
    BY DEF Proceed
  <2> QED
    BY <2>4, <2>5, <2>6, <2>7, <2>8, <2>9 DEF Decide, ApplyInline
<1> QED
  BY <1>3, <1>4

(* Auto-approval goes on to its next call, or ends and decides its own.    *)
LEMMA AutoApproveOnOnce ==
  ASSUME TypeOK, ConstantsOK, NEW h \in Handlers, NEW x \in Calls,
         NEW pending, NEW st \in [Calls -> Status],
         AutoApproveOn(h, x, pending, st), NEW c \in Calls, Moves(c, st),
         c = x => MayDecide(h, x, "ProceedAlways", st),
         c # x => /\ ~ WorksOn(handler, h, c)
                  /\ Once(c, st, launches, refused, result, handler, Uncalled(c)')
                  /\ c \in refused' <=> c \in refused
  PROVE  OnceOf(c)' /\ Forward(c)
<1>1. CASE pending = {}
  <2>1. Decide(h, x, "ProceedAlways", st) /\ "ProceedAlways" \in Outcome
    BY <1>1 DEF AutoApproveOn, Outcome, Proceed
  <2> QED
    BY <2>1, DecideOnce
<1>2. CASE pending # {}
  <2>1. /\ Wait(h, "autoApprove", x, "ProceedAlways", pending)
        /\ NoAttempt(st)
    BY <1>2 DEF AutoApproveOn
  <2>2. OnlyChanged(h) /\ handler'[h].call = x
    BY <2>1, WaitChanges
  <2>3. Once(c, st, launches, refused', result, handler', Uncalled(c)')
    <3>1. CASE c = x
      BY <2>2, <3>1, DecidedWaits
    <3>2. CASE c # x
      <4>1. ~ WorksOn(handler', h, c)
        BY <2>2, <3>2 DEF WorksOn
      <4> QED
        BY <2>2, <3>2, <4>1, OthersOnce
    <3> QED
      BY <3>1, <3>2
  <2> QED
    BY <2>1, <2>3, NoAttemptOnce
<1> QED
  BY <1>1, <1>2

(* What follows the await of onConfirm.                                    *)
LEMMA AfterOnConfirmOnce ==
  ASSUME TypeOK, ConstantsOK, NEW h \in Handlers, NEW x \in Calls,
         NEW o \in Outcome, AfterOnConfirm(h, x, o), NEW c \in Calls,
         c = x => MayDecide(h, x, o, toolCalls),
         c # x => /\ ~ WorksOn(handler, h, c)
                  /\ Once(c, toolCalls, launches, refused, result, handler,
                          Uncalled(c)')
                  /\ c \in refused' <=> c \in refused
  PROVE  OnceOf(c)' /\ Forward(c)
<1>1. toolCalls \in [Calls -> Status] /\ Moves(c, toolCalls)
  BY DEF TypeOK, Moves, Keeps
<1>2. CASE o = "ProceedAlways"
  <2>1. PICK pending :  AutoApproveOn(h, x, pending, toolCalls)
    BY <1>2 DEF AfterOnConfirm
  <2> QED
    BY <1>1, <1>2, <2>1, AutoApproveOnOnce
<1>3. CASE o # "ProceedAlways"
  BY <1>1, <1>3, DecideOnce DEF AfterOnConfirm
<1> QED
  BY <1>2, <1>3

-----------------------------------------------------------------------------
(* Every segment keeps the invariant of a call, and moves it forward.      *)

(* A first decision about a call.                                          *)
LEMMA FirstDecision ==
  ASSUME DecidedOnce, Ahead, NEW h \in Handlers, ~ Busy(h),
         NEW x \in Calls \ again, NEW o, ~ Overlaps(x, o), ~ Uncalled(x),
         refused' = IF o = "Cancel" THEN refused \cup {x} ELSE refused
  PROVE  MayDecide(h, x, o, toolCalls)
<1>1. OnceOf(x) /\ CancelsAtOnce(handler) /\ TypeOK
  BY DEF DecidedOnce, QInv
<1>2. launches[x] = 0 /\ toolCalls[x] \notin {"scheduled", "absent", "validating"}
  BY <1>1 DEF Overlaps, Uncalled, TypeOK
<1>3. /\ toolCalls[x] \in {"awaiting_approval", "cancelled", "error"}
      /\ result[x] # "success" /\ result[x] = "none"
  BY <1>1, <1>2 DEF OnceOf, Once, TypeOK, Status, Terminal
<1>4. \A g \in Handlers : WorksOn(handler, g, x) =>
        o = "Cancel" /\ handler[g].pc = "editor"
  BY DEF Overlaps, Busy, WorksOn
<1>5. \A f, g \in Handlers : WorksOn(handler, f, x) /\ WorksOn(handler, g, x) => f = g
  BY <1>1, <1>4 DEF OnceOf, Once, CancelsAtOnce
<1>6. ~ Uncalled(x)'
  BY DEF Ahead
<1>7. o # "Cancel" /\ toolCalls[x] = "awaiting_approval" => x \notin refused'
  BY <1>1, <1>4 DEF OnceOf, Once
<1> QED
  BY <1>2, <1>3, <1>4, <1>5, <1>6, <1>7 DEF MayDecide

(* An invocation that goes on with its decision.                           *)
LEMMA WorkingDecision ==
  ASSUME DecidedOnce, Ahead, NEW h \in Handlers,
         handler[h].pc \notin {"free", "editor"}, NEW x \in Calls \ again,
         x = handler[h].call, NEW o, o = "Cancel" <=> handler[h].outcome = "Cancel",
         refused' = refused
  PROVE  MayDecide(h, x, o, toolCalls)
<1>1. OnceOf(x) /\ CancelsAtOnce(handler) /\ TypeOK /\ QInv
  BY DEF DecidedOnce, QInv
<1>2. WorksOn(handler, h, x) /\ ~ Uncalled(x)
  BY <1>1, HandledIsCalled DEF WorksOn
<1>3. launches[x] = 0 /\ toolCalls[x] # "validating"
  BY <1>1, <1>2 DEF OnceOf, Once, Uncalled
<1>4. /\ toolCalls[x] \in {"awaiting_approval", "cancelled", "error", "absent"}
      /\ result[x] # "success" /\ (result[x] # "none" => toolCalls[x] = "absent")
  BY <1>1, <1>2, <1>3 DEF OnceOf, Once, TypeOK, Status, Terminal
<1>5. \A g \in Handlers \ {h} : WorksOn(handler, g, x) =>
        o = "Cancel" /\ handler[g].pc = "editor"
  BY <1>1, <1>2 DEF OnceOf, Once
<1>6. \A f, g \in Handlers \ {h} :
        WorksOn(handler, f, x) /\ WorksOn(handler, g, x) => f = g
  BY <1>1, <1>5 DEF OnceOf, Once, CancelsAtOnce
<1>7. ~ Uncalled(x)'
  BY <1>2 DEF Ahead
<1>8. o # "Cancel" /\ toolCalls[x] = "awaiting_approval" => x \notin refused'
  BY <1>1, <1>5 DEF OnceOf, Once
<1> QED
  BY <1>3, <1>4, <1>5, <1>6, <1>7, <1>8 DEF MayDecide

(* An answer arrives, from a client or from the IDE.                       *)
LEMMA DecisionArrives ==
  ASSUME DecidedOnce, ConstantsOK, Ahead, NEW h \in Handlers, ~ Busy(h),
         NEW x \in Calls, ~ Uncalled(x), NEW o \in Outcome, Remember(x, o),
         refused' = (IF o = "Cancel" THEN refused \cup {x} ELSE refused),
         \/ Wait(h, "onConfirm", x, o, {}) /\ UNCHANGED callVars
         \/ \E p \in Outcome :
              /\ p = "Cancel" <=> o = "Cancel"
              /\ AfterOnConfirm(h, x, p) \/ Decide(h, x, p, toolCalls)
         \/ UNCHANGED <<callVars, handler>> /\ o # "Cancel",
         NEW c \in Calls \ again'
  PROVE  OnceOf(c)' /\ Forward(c)
<1>1. /\ TypeOK /\ toolCalls \in [Calls -> Status] /\ c \in Calls \ again
      /\ OnceOf(c) /\ Moves(c, toolCalls)
  BY DEF DecidedOnce, QInv, TypeOK, Remember, Moves, Keeps
<1>2. c = x => MayDecide(h, x, o, toolCalls)
  <2>1. c = x => ~ Overlaps(x, o)
    BY DEF Remember
  <2> QED
    BY <1>1, <2>1, FirstDecision
<1>3. c # x => /\ ~ WorksOn(handler, h, c)
               /\ Once(c, toolCalls, launches, refused, result, handler, Uncalled(c)')
               /\ c \in refused' <=> c \in refused
  BY <1>1 DEF OnceOf, Once, Ahead, Busy, WorksOn
<1>4. CASE Wait(h, "onConfirm", x, o, {}) /\ UNCHANGED callVars
  <2>1. /\ OnlyChanged(h) /\ handler'[h].pc = "onConfirm"
        /\ handler'[h].call = x /\ handler'[h].outcome = o
    BY <1>1, <1>4, WaitChanges
  <2>2. Once(c, toolCalls, launches, refused', result, handler', Uncalled(c)')
    <3>1. CASE c = x
      BY <1>2, <2>1, <3>1, DecidedWaits
    <3>2. CASE c # x
      <4>1. ~ WorksOn(handler', h, c)
        BY <2>1, <3>2 DEF WorksOn
      <4> QED
        BY <1>3, <2>1, <3>2, <4>1, OthersOnce
    <3> QED
      BY <3>1, <3>2
  <2> QED
    BY <1>4, <2>2 DEF callVars, OnceOf, Forward, Keeps
<1>5. ASSUME NEW p \in Outcome, p = "Cancel" <=> o = "Cancel",
             AfterOnConfirm(h, x, p) \/ Decide(h, x, p, toolCalls)
      PROVE  OnceOf(c)' /\ Forward(c)
  <2>1. c = x => MayDecide(h, x, p, toolCalls)
    BY <1>2, <1>5 DEF MayDecide
  <2> QED
    BY <1>1, <1>3, <1>5, <2>1, AfterOnConfirmOnce, DecideOnce
<1>6. CASE UNCHANGED <<callVars, handler>> /\ o # "Cancel"
  <2>1. Uncalled(c)' => Uncalled(c)
    BY DEF Ahead
  <2> QED
    BY <1>1, <1>6, <2>1, UntouchedOnce DEF callVars
<1> QED
  BY <1>4, <1>5, <1>6

(* An answer of a client, or the verdict of the IDE.                       *)
LEMMA AnswerOnce ==
  ASSUME DecidedOnce, ConstantsOK, Ahead, NEW h \in Handlers, AnswerEvent(h),
         NEW c \in Calls \ again'
  PROVE  OnceOf(c)' /\ Forward(c)
<1>1. ASSUME NEW x \in Calls, NEW o \in Outcome, Answer(h, x, o)
      PROVE  OnceOf(c)' /\ Forward(c)
  <2>1. /\ ~ Busy(h) /\ Remember(x, o)
        /\ refused' = (IF o = "Cancel" THEN refused \cup {x} ELSE refused)
    BY <1>1 DEF Answer
  <2>2. ~ Uncalled(x)
    BY <1>1 DEF Answer, DecidedOnce, QInv, Apart, Untouched
  <2>3. \/ Wait(h, "onConfirm", x, o, {}) /\ UNCHANGED callVars
        \/ \E p \in Outcome :
             /\ p = "Cancel" <=> o = "Cancel"
             /\ AfterOnConfirm(h, x, p) \/ Decide(h, x, p, toolCalls)
        \/ UNCHANGED <<callVars, handler>> /\ o # "Cancel"
    <3>1. "ProceedOnce" \in Outcome
      BY DEF Outcome, Proceed
    <3> QED
      BY <1>1, <3>1 DEF Answer, AnswerLate
  <2> QED
    BY <2>1, <2>2, <2>3, DecisionArrives
<1>2. ASSUME NEW x \in Calls, NEW v \in {"accepted", "rejected"},
             IdeResolves(h, x, v)
      PROVE  OnceOf(c)' /\ Forward(c)
  <2> DEFINE o == IF v = "accepted" THEN "ProceedOnce" ELSE "Cancel"
  <2>0. o \in Outcome
    BY DEF Outcome, Proceed
  <2>1. /\ ~ Busy(h) /\ Remember(x, o)
        /\ refused' = (IF o = "Cancel" THEN refused \cup {x} ELSE refused)
    BY <1>2 DEF IdeResolves
  <2>2. ~ Uncalled(x)
    BY <1>2 DEF IdeResolves, DecidedOnce, QInv, Apart, Untouched
  <2>3. \/ Wait(h, "onConfirm", x, o, {}) /\ UNCHANGED callVars
        \/ Decide(h, x, o, toolCalls)
    BY <1>2 DEF IdeResolves
  <2> HIDE DEF o
  <2> QED
    BY <2>0, <2>1, <2>2, <2>3, DecisionArrives
<1> QED
  BY <1>1, <1>2 DEF AnswerEvent

(* An await of handleConfirmationResponse settles.                         *)
LEMMA HandlerOnce ==
  ASSUME DecidedOnce, ConstantsOK, Ahead, NEW h \in Handlers, HandlerEvent(h),
         NEW c \in Calls \ again'
  PROVE  OnceOf(c)' /\ Forward(c)
<1>1. /\ TypeOK /\ toolCalls \in [Calls -> Status] /\ handler[h] \in HandlerState
      /\ refused' = refused /\ again \subseteq again' /\ c \in Calls \ again
      /\ OnceOf(c) /\ Moves(c, toolCalls) /\ CancelsAtOnce(handler) /\ QInv
      /\ Uncalled(c)' => Uncalled(c)
  BY DEF DecidedOnce, QInv, TypeOK, HandlerEvent, AutoApprove, StillPending,
         EditorCloses, InlineModified, EditFails, OnConfirmSettles, consentVars,
         Remember, Moves, Keeps, Ahead
<1>2. Once(c, toolCalls, launches, refused, result, handler, Uncalled(c)')
  BY <1>1 DEF OnceOf, Once
<1>3. handler[h].pc # "free"
  BY DEF HandlerEvent, AutoApprove, StillPending, EditorCloses, InlineModified,
         EditFails, OnConfirmSettles
<1>4. PICK x \in Calls : x = handler[h].call
  BY <1>1, <1>3 DEF HandlerState, Free
<1>5. c # x => ~ WorksOn(handler, h, c)
  BY <1>4 DEF WorksOn
<1>6. CASE OnConfirmSettles(h)
  <2>1. PICK o \in Outcome : o = handler[h].outcome
    BY <1>1, <1>3 DEF HandlerState, Free
  <2>2. AfterOnConfirm(h, x, o) /\ handler[h].pc = "onConfirm"
    BY <1>4, <1>6, <2>1 DEF OnConfirmSettles
  <2>3. c = x => MayDecide(h, x, o, toolCalls)
    BY <1>1, <1>3, <1>4, <2>1, <2>2, WorkingDecision
  <2> QED
    BY <1>1, <1>2, <1>5, <2>2, <2>3, AfterOnConfirmOnce
<1>7. ASSUME NEW d \in Calls, AutoApprove(h, d) \/ StillPending(h, d)
      PROVE  OnceOf(c)' /\ Forward(c)
  <2>1. handler[h].pc = "autoApprove"
    BY <1>7 DEF AutoApprove, StillPending
  <2>2. c = x => MayDecide(h, x, "ProceedAlways", toolCalls)
    <3>1. handler[h].outcome # "Cancel"
      BY <1>1, <2>1 DEF CancelsAtOnce
    <3> QED
      BY <1>1, <1>4, <2>1, <3>1, WorkingDecision
  <2>3. CASE StillPending(h, d)
    <3>1. AutoApproveOn(h, x, handler[h].pending \ {d}, toolCalls)
      BY <1>4, <2>3 DEF StillPending
    <3> QED
      BY <1>1, <1>2, <1>5, <2>2, <3>1, AutoApproveOnOnce
  <2>4. CASE AutoApprove(h, d)
    <3> DEFINE st == SetStatus(toolCalls, d, "scheduled")
    <3>1. /\ AutoApproveOn(h, x, handler[h].pending \ {d}, st)
          /\ Remember(d, "ProceedAlways") /\ d \in handler[h].pending
      BY <1>4, <2>4 DEF AutoApprove
    <3>2. /\ st \in [Calls -> Status]
          /\ \A e \in Calls \ {d} : st[e] = toolCalls[e]
          /\ st[d] = IF toolCalls[d] \in Terminal \cup {"absent"} THEN toolCalls[d]
                     ELSE "scheduled"
      BY <1>1 DEF SetStatus, Status, Terminal
    <3> HIDE DEF st
    <3>3. c = x => c # d
      <4>1. c = d => ~ Overlaps(d, "ProceedAlways")
        BY <3>1 DEF Remember
      <4> QED
        BY <1>3, <1>4, <4>1 DEF Overlaps, Busy
    <3>4. CASE c # d
      <4>1. c = x => MayDecide(h, x, "ProceedAlways", st)
        BY <2>2, <3>2, <3>4 DEF MayDecide
      <4>2. Moves(c, st)
        BY <1>1, <3>2, <3>4 DEF Moves
      <4>3. Once(c, st, launches, refused, result, handler, Uncalled(c)')
        BY <1>2, <3>2, <3>4 DEF Once
      <4> QED
        BY <1>1, <1>5, <3>1, <3>2, <4>1, <4>2, <4>3, AutoApproveOnOnce
    <3>5. CASE c = d
      <4>1. /\ toolCalls[c] \notin {"scheduled", "absent"} /\ ~ (launches[c] > 0)
            /\ \A g \in Handlers : ~ WorksOn(handler, g, c)
        BY <3>1, <3>5 DEF Remember, Overlaps, Busy, WorksOn
      <4>2. launches[c] = 0
        BY <1>1, <4>1 DEF TypeOK
      <4>3. ~ Uncalled(c) /\ toolCalls[c] # "executing"
        BY <1>1, <1>2, <3>1, <3>5, <4>2, HandledIsCalled DEF Once
      <4>4. Moves(c, st)
        BY <3>2, <3>5, <4>3 DEF Moves, Keeps
      <4>5. ~ Uncalled(c)'
        BY <1>1, <4>3
      <4>6. toolCalls[c] \in {"awaiting_approval", "cancelled", "error"}
        BY <1>1, <1>2, <4>1, <4>2, <4>3 DEF Once, Uncalled, Status, Terminal
      <4>7. toolCalls[c] = "awaiting_approval" => c \notin refused
        BY <1>2, <4>1 DEF Once
      <4>8. result[c] = "none"
        BY <1>1, <1>2, <4>6 DEF Once
      <4>9. Once(c, st, launches, refused, result, handler, Uncalled(c)')
        BY <3>2, <3>5, <4>1, <4>2, <4>5, <4>6, <4>7, <4>8 DEF Once, Terminal
      <4> QED
        BY <1>1, <1>5, <3>1, <3>2, <3>3, <3>5, <4>4, <4>9, AutoApproveOnOnce
    <3> QED
      BY <3>4, <3>5
  <2> QED
    BY <1>7, <2>3, <2>4
<1>8. ASSUME NEW valid \in BOOLEAN, EditorCloses(h, valid) \/ InlineModified(h, valid)
      PROVE  OnceOf(c)' /\ Forward(c)
  <2>1. PICK new \in {"awaiting_approval", "scheduled"} :
          /\ Attempt(SetStatus(SetArgs(toolCalls, x, valid), x, new),
                     BatchOf[x], finalizing)
          /\ Release(h)
          /\ new = "scheduled" => handler[h].pc = "inline"
          /\ new = "awaiting_approval" => handler[h].pc = "editor"
    BY <1>4, <1>8 DEF EditorCloses, InlineModified
  <2> DEFINE st == SetStatus(SetArgs(toolCalls, x, valid), x, new)
  <2>2. st \in [Calls -> Status] /\ \A d \in Calls \ {x} : st[d] = toolCalls[d]
    BY <1>1 DEF SetStatus, SetArgs, Status, Terminal
  <2>3. toolCalls[x] \in {"awaiting_approval", "cancelled", "error", "absent"} =>
          \/ st[x] = toolCalls[x] /\ toolCalls[x] \in {"absent", "cancelled", "error"}
          \/ st[x] = "error" /\ toolCalls[x] # "absent"
          \/ st[x] = new /\ toolCalls[x] = "awaiting_approval"
    BY <1>1 DEF SetStatus, SetArgs, Terminal
  <2> HIDE DEF st
  <2>4. OnlyChanged(h) /\ handler'[h] = Free
    BY <1>1, <2>1, ReleaseChanges
  <2>5. Attempt(st, BatchOf[x], finalizing)
    BY <2>1 DEF st
  <2>6. CASE c # x
    <3>1. ~ WorksOn(handler', h, c)
      BY <2>4 DEF WorksOn, Free
    <3>2. Once(c, st, launches, refused', result, handler', Uncalled(c)')
      BY <1>1, <1>2, <1>5, <2>2, <2>4, <2>6, <3>1, OthersOnce
    <3>3. Moves(c, st)
      BY <1>1, <2>2, <2>6 DEF Moves
    <3> QED
      BY <1>1, <2>2, <2>5, <3>2, <3>3, AttemptOnce
  <2>7. CASE c = x
    <3>1. WorksOn(handler, h, c) /\ ~ Uncalled(c)
      BY <1>1, <1>3, <1>4, <2>7, HandledIsCalled DEF WorksOn
    <3>2. /\ launches[c] = 0 /\ toolCalls[c] # "validating" /\ result[c] # "success"
          /\ result[c] # "none" => toolCalls[c] = "absent"
      BY <1>2, <3>1 DEF Once, Uncalled
    <3>3. toolCalls[c] \in {"awaiting_approval", "cancelled", "error", "absent"}
      BY <1>1, <1>2, <3>1, <3>2 DEF Once, Status, Terminal
    <3>4. handler[h].outcome # "Cancel"
      BY <1>1, <1>8 DEF CancelsAtOnce, EditorCloses, InlineModified
    <3>5. \A g \in Handlers : WorksOn(handler', g, c) =>
            g # h /\ WorksOn(handler, g, c) /\ handler'[g] = handler[g]
      BY <2>4 DEF OnlyChanged, WorksOn, Free
    <3>6. \A g \in Handlers : WorksOn(handler, g, c) /\ handler[g].outcome = "Cancel" =>
            WorksOn(handler', g, c) /\ handler'[g] = handler[g]
      BY <2>4, <3>4 DEF OnlyChanged, WorksOn
    <3>7. new = "scheduled" /\ st[c] = "scheduled" =>
            c \notin refused /\ \A g \in Handlers : ~ WorksOn(handler', g, c)
      <4> SUFFICES ASSUME new = "scheduled", st[c] = "scheduled"
                   PROVE  /\ c \notin refused
                          /\ \A g \in Handlers : ~ WorksOn(handler', g, c)
        OBVIOUS
      <4>1. handler[h].pc = "inline" /\ toolCalls[c] = "awaiting_approval"
        BY <2>1, <2>3, <2>7, <3>3
      <4>2. \A g \in Handlers : WorksOn(handler, g, c) => g = h
        BY <1>2, <3>1, <3>4, <4>1 DEF Once
      <4> QED
        BY <1>2, <3>4, <3>5, <4>1, <4>2 DEF Once
    <3>8. Once(c, st, launches, refused', result, handler', Uncalled(c)')
      BY <1>1, <1>2, <2>3, <2>7, <3>1, <3>2, <3>3, <3>5, <3>6, <3>7
      DEF Once, Terminal
    <3>9. Moves(c, st)
      BY <2>3, <2>7, <3>3 DEF Moves, Keeps, Terminal
    <3> QED
      BY <1>1, <2>2, <2>5, <3>8, <3>9, AttemptOnce
  <2> QED
    BY <2>6, <2>7
<1>9. CASE EditFails(h)
  <2>1. /\ UNCHANGED callVars /\ Release(h) /\ handler[h].outcome # "Cancel"
    BY <1>1, <1>9 DEF EditFails, CancelsAtOnce
  <2>2. OnlyChanged(h) /\ handler'[h] = Free
    BY <1>1, <2>1, ReleaseChanges
  <2>3. \A g \in Handlers :
          /\ WorksOn(handler', g, c) =>
               WorksOn(handler, g, c) /\ handler'[g] = handler[g]
          /\ WorksOn(handler, g, c) /\ handler[g].outcome = "Cancel" =>
               WorksOn(handler', g, c) /\ handler'[g] = handler[g]
    BY <2>1, <2>2 DEF OnlyChanged, WorksOn, Free
  <2>4. Once(c, toolCalls, launches, refused, result, handler', Uncalled(c)')
    BY <1>2, <2>3 DEF Once
  <2> QED
    BY <1>1, <2>1, <2>4 DEF callVars, OnceOf, Forward, Keeps
<1> QED
  BY <1>6, <1>7, <1>8, <1>9 DEF HandlerEvent

(* The loop of _schedule, from the statuses st on; the calls left are being *)
(* validated.                                                              *)
LEMMA LoopOnOnce ==
  ASSUME TypeOK, ConstantsOK, NEW st \in [Calls -> Status], NEW b,
         NEW rest \in SUBSET Calls, NEW fin, LoopOn(st, b, rest, fin),
         NEW c \in Calls, Moves(c, st),
         Once(c, st, launches, refused', result, handler', Uncalled(c)'),
         c \in rest => st[c] = "validating" /\ ~ Fresh(c)'
  PROVE  OnceOf(c)' /\ Forward(c)
<1>1. CASE Publish(st, fin) /\ UNCHANGED <<running, launches>>
  BY <1>1, PublishOnce
<1>2. CASE Attempt([d \in Calls |-> IF d \in rest THEN "cancelled" ELSE st[d]],
                   b, fin)
  <2> DEFINE left == [d \in Calls |-> IF d \in rest THEN "cancelled" ELSE st[d]]
  <2>1. left \in [Calls -> Status] /\ Attempt(left, b, fin)
    BY <1>2 DEF Status, Terminal
  <2>2. left[c] = IF c \in rest THEN "cancelled" ELSE st[c]
    OBVIOUS
  <2>3. Moves(c, left)
    BY <2>2 DEF Moves, Keeps, Terminal
  <2>4. c \in rest => ~ Uncalled(c)'
    <3>1. toolCalls'[c] \in {left[c], "executing", "absent"}
      BY <2>1 DEF Attempt, Publish, AfterAttempt
    <3> QED
      BY <2>2, <3>1 DEF Uncalled
  <2> HIDE DEF left
  <2>5. Once(c, left, launches, refused', result, handler', Uncalled(c)')
    BY <2>2, <2>4 DEF Once, Terminal
  <2> QED
    BY <2>1, <2>3, <2>5, AttemptOnce
<1> QED
  BY <1>1, <1>2 DEF LoopOn

(* A call is validated; nothing was decided about it before.               *)
LEMMA ValidationOnce ==
  ASSUME DecidedOnce, ConstantsOK, Ahead, ValidationEvent, NEW c \in Calls \ again'
  PROVE  OnceOf(c)' /\ Forward(c)
<1>1. PICK new \in {"scheduled", "awaiting_approval", "error"} : Validated(new)
  BY Zenon DEF ValidationEvent, NoConfirmation, AskUser, ValidationThrows
<1>2. /\ TypeOK /\ QInv /\ c \in Calls \ again /\ OnceOf(c)
      /\ Uncalled(c)' => Uncalled(c)
      /\ UNCHANGED <<submitted, requestQueue, refused, handler>>
  BY <1>1 DEF DecidedOnce, QInv, Validated, requestVars, Ahead
<1>3. PICK x \in Calls :
        /\ x = scheduling.call /\ ~ Fresh(x) /\ toolCalls'[x] # "validating"
  BY <1>1, <1>2, ValidatedCalm
<1>4. /\ scheduling.rest \in SUBSET Calls /\ x \notin scheduling.rest
      /\ \A d \in scheduling.rest \cup {x} : toolCalls[d] = "validating"
      /\ toolCalls \in [Calls -> Status]
  BY <1>1, <1>2, <1>3 DEF Validated, IsScheduling, QInv, TypeOK, Idle, LoopValidates
<1> DEFINE st == SetStatus(toolCalls, x, new)
<1>5. /\ st \in [Calls -> Status] /\ st[x] = new
      /\ \A d \in Calls \ {x} : st[d] = toolCalls[d]
  BY <1>4 DEF SetStatus, Status, Terminal
<1>6. LoopOn(st, scheduling.batch, scheduling.rest, finalizing)
  BY <1>1, <1>3 DEF Validated
<1> HIDE DEF st
<1>7. \A d \in scheduling.rest : st[d] = "validating" /\ ~ Fresh(d)'
  BY <1>2, <1>4, <1>5 DEF QInv, FreshAbsent, Fresh
<1>8. Once(c, st, launches, refused', result, handler', Uncalled(c)') /\ Moves(c, st)
  <2>1. CASE c # x
    BY <1>2, <1>5, <2>1 DEF OnceOf, Once, Moves, Keeps
  <2>2. CASE c = x
    <3>1. Uncalled(c) /\ ~ Uncalled(c)'
      BY <1>2, <1>3, <1>4, <2>2 DEF Uncalled, Fresh
    <3>2. \A h \in Handlers : ~ WorksOn(handler, h, c)
      BY <1>2, <3>1 DEF QInv, Apart, Untouched, WorksOn
    <3>3. launches[c] = 0 /\ c \notin refused /\ result[c] = "none"
      BY <1>2, <3>1 DEF OnceOf, Once
    <3>4. st[c] = new /\ toolCalls[c] = "validating"
      BY <1>4, <1>5, <2>2
    <3> QED
      BY <1>2, <3>1, <3>2, <3>3, <3>4 DEF Once, Moves, Terminal
  <2> QED
    BY <2>1, <2>2
<1> QED
  BY <1>2, <1>4, <1>5, <1>6, <1>7, <1>8, LoopOnOnce

(* A batch begins, at once or from the queue.                              *)
LEMMA BatchOnce ==
  ASSUME DecidedOnce, ConstantsOK, Ahead, NEW b \in Batches, NEW fin,
         StartBatch(b, fin), UNCHANGED <<handler, refused>>,
         \A d \in CallsOf(b) : Fresh(d) /\ ~ Fresh(d)', NEW c \in Calls \ again
  PROVE  OnceOf(c)' /\ Forward(c)
<1>1. PICK bad \in SUBSET CallsOf(b) :
        LoopOn(Listed(b, bad), b, CallsOf(b) \ bad, fin)
  BY DEF StartBatch
<1>2. /\ TypeOK /\ OnceOf(c) /\ toolCalls \in [Calls -> Status]
      /\ Uncalled(c)' => Uncalled(c)
  BY DEF DecidedOnce, QInv, TypeOK, Ahead
<1> DEFINE st == Listed(b, bad)
           rest == CallsOf(b) \ bad
<1>3. /\ st \in [Calls -> Status] /\ rest \in SUBSET Calls
      /\ LoopOn(st, b, rest, fin)
      /\ \A d \in rest : st[d] = "validating" /\ ~ Fresh(d)'
      /\ c \in CallsOf(b) => st[c] \in {"error", "validating"}
      /\ c \notin CallsOf(b) => st[c] = toolCalls[c]
  BY <1>1, <1>2 DEF Listed, CallsOf, Status, Terminal
<1> HIDE DEF st, rest
<1>4. Once(c, st, launches, refused', result, handler', Uncalled(c)') /\ Moves(c, st)
  <2>1. CASE c \notin CallsOf(b)
    BY <1>2, <1>3, <2>1 DEF OnceOf, Once, Moves, Keeps
  <2>2. CASE c \in CallsOf(b)
    <3>1. Fresh(c) /\ ~ Fresh(c)' /\ toolCalls[c] = "absent"
      BY <2>2 DEF DecidedOnce, QInv, FreshAbsent
    <3>2. launches[c] = 0 /\ c \notin refused /\ result[c] = "none"
      BY <1>2, <3>1 DEF OnceOf, Once, Uncalled
    <3>3. toolCalls'[c] = "validating" => st[c] = "validating"
      BY <1>2, <1>3 DEF LoopOn, Attempt, Publish, AfterAttempt
    <3>4. \A h \in Handlers : ~ WorksOn(handler, h, c)
      BY <3>1 DEF DecidedOnce, QInv, Apart, Untouched, WorksOn, Uncalled
    <3> QED
      BY <1>3, <2>2, <3>1, <3>2, <3>3, <3>4 DEF Once, Moves, Uncalled, Terminal
  <2> QED
    BY <2>1, <2>2
<1> QED
  BY <1>2, <1>3, <1>4, LoopOnOnce

(* A tool settles: its call was started.                                   *)
LEMMA ToolOnce ==
  ASSUME DecidedOnce, Ahead, ToolEvent, NEW c \in Calls \ again'
  PROVE  OnceOf(c)' /\ Forward(c)
<1>1. PICK r \in running, new \in Terminal : ToolSettles(r, new)
  BY DEF ToolEvent
<1>2. /\ TypeOK /\ c \in Calls \ again /\ OnceOf(c) /\ r.call \in Calls
      /\ launches[r.call] # 0 /\ toolCalls \in [Calls -> Status]
      /\ Uncalled(c)' => Uncalled(c)
  BY <1>1
  DEF DecidedOnce, QInv, TypeOK, ToolSettles, consentVars, RunsStarted, Execution, Ahead
<1> DEFINE st == SetStatus(toolCalls, r.call, new)
<1>3. /\ st \in [Calls -> Status] /\ \A d \in Calls \ {r.call} : st[d] = toolCalls[d]
      /\ st[r.call] = IF toolCalls[r.call] \in Terminal \cup {"absent"}
                      THEN toolCalls[r.call] ELSE new
  BY <1>2 DEF SetStatus, Status, Terminal
<1>4. Publish(st, finalizing) /\ UNCHANGED <<launches, refused, handler>>
  BY <1>1 DEF ToolSettles, consentVars
<1> HIDE DEF st
<1>5. Once(c, st, launches', refused', result, handler', Uncalled(c)') /\ Moves(c, st)
  <2>1. CASE c # r.call
    BY <1>2, <1>3, <1>4, <2>1 DEF OnceOf, Once, Moves, Keeps
  <2>2. CASE c = r.call
    <3>1. /\ toolCalls[c] \in {"executing", "absent"} \cup Terminal /\ ~ Uncalled(c)
          /\ launches[c] # 0
      BY <1>2, <2>2 DEF OnceOf, Once
    <3>2. \/ st[c] = toolCalls[c]
          \/ toolCalls[c] = "executing" /\ st[c] = new
      BY <1>3, <2>2, <3>1
    <3>3. st[c] \in {"absent"} \cup Terminal
      BY <1>3, <2>2, <3>1
    <3> QED
      BY <1>2, <1>4, <3>1, <3>2, <3>3 DEF OnceOf, Once, Moves, Keeps, Terminal
  <2> QED
    BY <2>1, <2>2
<1> QED
  BY <1>2, <1>3, <1>4, <1>5, PublishOnce

(* A request arrives, waits, or is withdrawn from the queue.               *)
LEMMA RequestOnce ==
  ASSUME DecidedOnce, ConstantsOK, Ahead, RequestEvent, NEW c \in Calls \ again'
  PROVE  OnceOf(c)' /\ Forward(c)
<1>1. ASSUME NEW b \in Batches, Schedule(b) PROVE OnceOf(c)' /\ Forward(c)
  <2>1. /\ b \notin submitted /\ submitted' = submitted \cup {b}
        /\ requestQueue' = requestQueue /\ UNCHANGED <<handler, refused, again>>
        /\ StartBatch(b, finalizing)
    BY <1>1 DEF Schedule, consentVars
  <2>2. \A d \in CallsOf(b) : Fresh(d) /\ ~ Fresh(d)'
    BY <2>1 DEF Fresh, CallsOf, DecidedOnce, QInv, QueueOK
  <2> QED
    BY <2>1, <2>2, BatchOnce
<1>2. ASSUME NEW b \in Batches, ScheduleQueued(b) \/ Abort(b)
      PROVE  OnceOf(c)' /\ Forward(c)
  <2>1. /\ UNCHANGED <<toolCalls, launches, refused, result, handler>>
        /\ c \in Calls \ again
    BY <1>2 DEF ScheduleQueued, Abort, callVars, consentVars
  <2>2. OnceOf(c) /\ (Uncalled(c)' => Uncalled(c))
    BY <2>1 DEF DecidedOnce, Ahead
  <2> QED
    BY <2>1, <2>2, UntouchedOnce
<1> QED
  BY <1>1, <1>2 DEF RequestEvent

(* The report ends.                                                        *)
LEMMA ReportOnce ==
  ASSUME DecidedOnce, ConstantsOK, Ahead, ReportEvent, NEW c \in Calls \ again'
  PROVE  OnceOf(c)' /\ Forward(c)
<1>1. CASE ReportDone
  <2>1. /\ UNCHANGED <<toolCalls, launches, refused, result, handler>>
        /\ c \in Calls \ again
    BY <1>1 DEF ReportDone, consentVars
  <2>2. OnceOf(c) /\ (Uncalled(c)' => Uncalled(c))
    BY <2>1 DEF DecidedOnce, Ahead
  <2> QED
    BY <2>1, <2>2, UntouchedOnce
<1>2. CASE ReportDoneStartNext
  <2>1. requestQueue # <<>> /\ requestQueue \in Seq(Batches)
    BY <1>2 DEF ReportDoneStartNext, DecidedOnce, QInv, TypeOK
  <2>2. PICK b \in Batches : b = Head(requestQueue)
    BY <2>1
  <2>3. /\ StartBatch(b, {}) /\ requestQueue' = Tail(requestQueue)
        /\ UNCHANGED <<submitted, handler, refused, again>>
    BY <1>2, <2>2 DEF ReportDoneStartNext, consentVars
  <2>4. /\ b \in Range(requestQueue) /\ b \notin Range(requestQueue')
        /\ b \in submitted
    BY <2>1, <2>2, <2>3, TailRange DEF DecidedOnce, QInv, QueueOK
  <2>5. \A d \in CallsOf(b) : Fresh(d) /\ ~ Fresh(d)'
    BY <2>3, <2>4 DEF Fresh, CallsOf
  <2> QED
    BY <2>3, <2>5, BatchOnce
<1> QED
  BY <1>1, <1>2 DEF ReportEvent

-----------------------------------------------------------------------------
(* The two facts about invocations and executions that Once relies on.     *)

HandlerMoves(h) ==
  \/ handler' = handler \/ Release(h)
  \/ \E pc, x, o, pending :
       Wait(h, pc, x, o, pending) /\ (o = "Cancel" => pc = "onConfirm")
Starts ==
  \/ running' \subseteq running /\ launches' = launches
  \/ \E st, b, fin : Attempt(st, b, fin)

(* A segment of handleConfirmationResponse ends its invocation or makes it  *)
(* wait; only onConfirm is awaited for an answer that may be Cancel.       *)
LEMMA DecideMoves ==
  ASSUME NEW h, NEW x, NEW o, NEW st, Decide(h, x, o, st)
  PROVE  HandlerMoves(h) /\ Starts
<1>1. HandlerMoves(h)
  BY DEF Decide, ApplyInline, HandlerMoves
<1>2. Starts
  BY DEF Decide, ApplyInline, NoAttempt, Starts
<1> QED
  BY <1>1, <1>2

(* So do auto-approval and what follows the await of onConfirm.            *)
LEMMA AfterOnConfirmMoves ==
  ASSUME NEW h, NEW x, NEW o, NEW pending, NEW st,
         AutoApproveOn(h, x, pending, st) \/ AfterOnConfirm(h, x, o)
  PROVE  HandlerMoves(h) /\ Starts
<1>1. \A p, s : AutoApproveOn(h, x, p, s) => HandlerMoves(h) /\ Starts
  BY DecideMoves DEF AutoApproveOn, HandlerMoves, NoAttempt, Starts
<1> QED
  BY <1>1, DecideMoves DEF AfterOnConfirm

(* Every step does no more than this to the invocations and executions.    *)
LEMMA StepMoves ==
  ASSUME TypeOK, [Next]_vars
  PROVE  (handler' = handler \/ \E h \in Handlers : HandlerMoves(h)) /\ Starts
<1> DEFINE Moved == (handler' = handler \/ \E h \in Handlers : HandlerMoves(h)) /\ Starts
<1>1. \A st, b, rest, fin : LoopOn(st, b, rest, fin) => Starts
  BY DEF LoopOn, Starts
<1>2. CASE RequestEvent \/ ReportEvent
  <2>1. handler' = handler
    BY <1>2
    DEF RequestEvent, ReportEvent, Schedule, ScheduleQueued, Abort, ReportDone,
        ReportDoneStartNext
  <2>2. Starts
    BY <1>1, <1>2
    DEF RequestEvent, ReportEvent, Schedule, ScheduleQueued, Abort, ReportDone,
        ReportDoneStartNext, StartBatch, callVars, Starts
  <2> QED
    BY <2>1, <2>2
<1>3. CASE ValidationEvent
  BY <1>1, <1>3
  DEF ValidationEvent, NoConfirmation, AskUser, ValidationThrows, Validated
<1>4. CASE ToolEvent \/ Rerender \/ UNCHANGED vars
  BY <1>4 DEF ToolEvent, ToolSettles, Rerender, vars, Starts
<1>5. ASSUME NEW h \in Handlers, AnswerEvent(h) PROVE Moved
  <2>1. ASSUME NEW x \in Calls, NEW o \in Outcome, Answer(h, x, o)
        PROVE  HandlerMoves(h) /\ Starts
    <3>1. CASE AnswerLate(h, x, o)
      BY <3>1, AfterOnConfirmMoves DEF AnswerLate, callVars, HandlerMoves, Starts
    <3>2. CASE Wait(h, "onConfirm", x, o, {}) /\ UNCHANGED callVars
      BY <3>2 DEF callVars, HandlerMoves, Starts
    <3>3. CASE AfterOnConfirm(h, x, o)
      BY <3>3, AfterOnConfirmMoves
    <3> QED
      BY <2>1, <3>1, <3>2, <3>3 DEF Answer
  <2>2. ASSUME NEW x \in Calls, NEW v \in {"accepted", "rejected"},
               IdeResolves(h, x, v)
        PROVE  HandlerMoves(h) /\ Starts
    <3>1. CASE UNCHANGED callVars /\ \E o : Wait(h, "onConfirm", x, o, {})
      BY <3>1 DEF callVars, HandlerMoves, Starts
    <3>2. CASE \E o : Decide(h, x, o, toolCalls)
      BY <3>2, DecideMoves
    <3> QED
      BY <2>2, <3>1, <3>2 DEF IdeResolves
  <2> QED
    BY <1>5, <2>1, <2>2 DEF AnswerEvent
<1>6. ASSUME NEW h \in Handlers, HandlerEvent(h) PROVE Moved
  <2>1. CASE OnConfirmSettles(h)
    BY <2>1, AfterOnConfirmMoves DEF OnConfirmSettles
  <2>2. CASE \E d \in Calls : AutoApprove(h, d) \/ StillPending(h, d)
    BY <2>2, AfterOnConfirmMoves DEF AutoApprove, StillPending
  <2>3. CASE \E valid \in BOOLEAN : EditorCloses(h, valid) \/ InlineModified(h, valid)
    BY <2>3 DEF EditorCloses, InlineModified, HandlerMoves, Starts
  <2>4. CASE EditFails(h)
    BY <2>4 DEF EditFails, callVars, HandlerMoves, Starts
  <2> QED
    BY <1>6, <2>1, <2>2, <2>3, <2>4 DEF HandlerEvent
<1> QED
  BY <1>2, <1>3, <1>4, <1>5, <1>6 DEF Next

(* Cancel is still decided at once.                                        *)
LEMMA CancelsStep ==
  ASSUME TypeOK, CancelsAtOnce(handler),
         handler' = handler \/ \E h \in Handlers : HandlerMoves(h)
  PROVE  CancelsAtOnce(handler')
<1>1. ASSUME NEW h \in Handlers, HandlerMoves(h) PROVE CancelsAtOnce(handler')
  <2>1. CASE handler' = handler
    BY <2>1
  <2>2. CASE Release(h)
    BY <2>2, ReleaseChanges DEF CancelsAtOnce, OnlyChanged, Free
  <2>3. ASSUME NEW pc, NEW x, NEW o, NEW pending, Wait(h, pc, x, o, pending),
               o = "Cancel" => pc = "onConfirm"
        PROVE  CancelsAtOnce(handler')
    BY <2>3, WaitChanges DEF CancelsAtOnce, OnlyChanged
  <2> QED
    BY <1>1, <2>1, <2>2, <2>3 DEF HandlerMoves
<1> QED
  BY <1>1

(* What runs has been counted.                                             *)
LEMMA RunsStep ==
  ASSUME TypeOK, ConstantsOK, RunsStarted, Starts
  PROVE  RunsStarted'
<1>1. CASE running' \subseteq running /\ launches' = launches
  BY <1>1 DEF RunsStarted
<1>2. ASSUME NEW st, NEW b, NEW fin, Attempt(st, b, fin) PROVE RunsStarted'
  <2>1. \A c \in Calls : OneMore(c) # 0
    BY DEF OneMore, TypeOK, ConstantsOK
  <2>2. Launchable(st) \subseteq Calls
    BY DEF Launchable
  <2> SUFFICES ASSUME NEW r \in running' PROVE launches'[r.call] # 0
    BY DEF RunsStarted
  <2>3. CASE r \in running
    <3>1. r.call \in Calls /\ launches[r.call] # 0
      BY <2>3 DEF TypeOK, Execution, RunsStarted
    <3> QED
      BY <1>2, <2>1, <3>1 DEF Attempt
  <2>4. CASE r \notin running
    <3>1. r.call \in Launchable(st)
      BY <1>2, <2>4 DEF Attempt
    <3> QED
      BY <1>2, <2>1, <2>2, <3>1 DEF Attempt
  <2> QED
    BY <2>3, <2>4
<1> QED
  BY <1>1, <1>2 DEF Starts

-----------------------------------------------------------------------------
(* The invariant and what follows from it.                                 *)

(* Every step keeps the invariant and moves the calls forward that are      *)
(* still decided once when it ends.                                        *)
LEMMA OnceStep ==
  ASSUME DecidedOnce, ConstantsOK, [Next]_vars
  PROVE  DecidedOnce' /\ again \subseteq again' /\ \A c \in Calls \ again' : Forward(c)
<1>1. QInv' /\ Ahead
  BY QStep DEF DecidedOnce
<1>2. CancelsAtOnce(handler)' /\ RunsStarted'
  BY StepMoves, CancelsStep, RunsStep DEF DecidedOnce, QInv
<1>3. again \subseteq again'
  BY DEF Next, RequestEvent, Schedule, ScheduleQueued, Abort, ValidationEvent,
         NoConfirmation, AskUser, ValidationThrows, Validated, ToolEvent,
         ToolSettles, ReportEvent, ReportDone, ReportDoneStartNext, Rerender,
         AnswerEvent, Answer, IdeResolves, HandlerEvent, AutoApprove,
         StillPending, EditorCloses, InlineModified, EditFails,
         OnConfirmSettles, Remember, consentVars, vars
<1>4. ASSUME NEW c \in Calls \ again' PROVE OnceOf(c)' /\ Forward(c)
  <2>1. CASE Rerender \/ UNCHANGED vars
    <3>1. UNCHANGED <<toolCalls, launches, refused, result, handler, again>>
      BY <2>1 DEF Rerender, consentVars, vars
    <3>2. OnceOf(c) /\ (Uncalled(c)' => Uncalled(c))
      BY <1>1, <3>1 DEF DecidedOnce, Ahead
    <3> QED
      BY <3>1, <3>2, UntouchedOnce
  <2> QED
    BY <1>1, <1>4, <2>1, RequestOnce, ValidationOnce, ToolOnce, ReportOnce,
       AnswerOnce, HandlerOnce DEF Next
<1> QED
  BY <1>1, <1>2, <1>3, <1>4 DEF DecidedOnce

(* It holds at the start.                                                  *)
LEMMA OnceInit ==
  ASSUME ConstantsOK, Init
  PROVE  DecidedOnce
<1>1. CancelsAtOnce(handler) /\ RunsStarted
  BY DEF Init, CancelsAtOnce, RunsStarted, Free
<1>2. \A c \in Calls : OnceOf(c)
  BY DEF Init, OnceOf, Once, WorksOn, Free, Terminal
<1> QED
  BY <1>1, <1>2, QInit DEF DecidedOnce

(* The invariant of the calls that are decided once.                       *)
THEOREM DecidedOnceInvariant ==
  Spec => []DecidedOnce
<1>1. Init => DecidedOnce
  BY OnceInit, ConstantsOK
<1>2. DecidedOnce /\ [Next]_vars => DecidedOnce'
  BY OnceStep, ConstantsOK
<1> QED
  BY <1>1, <1>2, PTL DEF Spec

(* A call that is decided once is executed at most once, however answers,   *)
(* verdicts of the IDE, auto-approvals, edits and aborts interleave.       *)
THEOREM NoSecondExecution ==
  Spec => []ExecutesAtMostOnce
<1>1. DecidedOnce => ExecutesAtMostOnce
  BY DEF DecidedOnce, OnceOf, Once, ExecutesAtMostOnce
<1> QED
  BY <1>1, DecidedOnceInvariant, PTL

(* A call that was refused, and decided once, is never executed and never   *)
(* reported as done.                                                       *)
THEOREM RefusalsAreHonoured ==
  Spec => []RefusalHonoured
<1>1. DecidedOnce => RefusalHonoured
  <2> SUFFICES ASSUME DecidedOnce, NEW c \in refused \ again
               PROVE  launches[c] = 0 /\ result[c] # "success"
    BY DEF RefusalHonoured
  <2>1. OnceOf(c)
    BY DEF DecidedOnce, QInv, TypeOK
  <2> QED
    BY <2>1 DEF OnceOf, Once
<1> QED
  BY <1>1, DecidedOnceInvariant, PTL

(* No execution of a call that is decided once is under way while its       *)
(* arguments are edited or an edit of them is applied.                     *)
THEOREM NoToolRunsDuringItsEdit ==
  Spec => []NoRunDuringEdit
<1>1. DecidedOnce => NoRunDuringEdit
  <2> SUFFICES ASSUME DecidedOnce, NEW h \in Handlers,
                      handler[h].pc \in {"editor", "inline"},
                      handler[h].call \notin again, NEW r \in running,
                      r.call = handler[h].call
               PROVE  FALSE
    BY DEF NoRunDuringEdit
  <2>1. r.call \in Calls \ again /\ launches[r.call] # 0
    BY DEF DecidedOnce, QInv, TypeOK, Execution, RunsStarted
  <2>2. WorksOn(handler, h, r.call) /\ OnceOf(r.call)
    BY <2>1 DEF DecidedOnce, WorksOn
  <2> QED
    BY <2>1, <2>2 DEF OnceOf, Once
<1> QED
  BY <1>1, DecidedOnceInvariant, PTL

(* A call that is decided once moves forward only.                         *)
THEOREM CallsMoveForward ==
  Spec => ForwardOnly
<1>1. DecidedOnce /\ [Next]_vars =>
        [\A c \in Calls \ again' :
           /\ toolCalls[c] = "executing" =>
                toolCalls'[c] \in {"executing", "absent"} \cup Terminal
           /\ toolCalls[c] \in Terminal =>
                \/ Keeps(toolCalls[c], toolCalls'[c])
                \/ toolCalls'[c] = "absent" /\ Keeps(toolCalls[c], result'[c])
           /\ result[c] # "none" => result'[c] = result[c]]_vars
  BY OnceStep, ConstantsOK DEF Forward
<1> QED
  BY <1>1, DecidedOnceInvariant, PTL DEF Spec, ForwardOnly

=============================================================================
