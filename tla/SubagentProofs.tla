--------------------------- MODULE SubagentProofs ---------------------------
(***************************************************************************)
(* Proofs about Subagent, for every set of calls the model may request and *)
(* every limit of turns.                                                   *)
(*                                                                         *)
(* The two promises of the task tool's result are invariants of its last   *)
(* state; what makes them inductive is what the earlier states know:       *)
(*   - from the launch on execute knows of every abort (AbortKnown),       *)
(*   - calls and the completion channel are in use only while the run is   *)
(*     at its tools, and a completion that has arrived leaves no call      *)
(*     behind (ToolsQuiet),                                                *)
(*   - the controller exists only once a run has begun, and the runtime,   *)
(*     if there is one, is disposed of only by the step that returns       *)
(*     (Released).                                                         *)
(***************************************************************************)
EXTENDS Subagent, TLAPS

Early == {"idle", "launching"}

AbortKnown ==
  /\ pc \in Early => ~aborted
  /\ pc \notin Early \cup {"done"} => aborted = signal
  /\ pc = "done" /\ signal => result # "success"

ToolsQuiet ==
  /\ pc # "tools" => call = NoCalls /\ channel = "none"
  /\ channel # "stored"
  /\ channel = "resolved" => call = NoCalls
  /\ interactive /\ pc = "tools" => channel # "none"
  /\ ~interactive =>
       channel = "none" /\ \A s \in Slots : call[s] \in {"none", "running"}

Released ==
  /\ pc \in Early \cup {"chat"} => controller = "none"
  /\ pc \in Early => ~launched
  /\ pc \notin Early \cup {"done"} => launched
  /\ pc # "done" => disposals = 0
  /\ pc = "done" => disposals = IF launched THEN 1 ELSE 0

IInv == TypeOK /\ AbortKnown /\ ToolsQuiet /\ Released

(* The initial state.                                                      *)
LEMMA InitOK == Init => IInv
  <1> SUFFICES ASSUME Init PROVE IInv
    OBVIOUS
  <1>1. NoCalls \in [Slots -> CallState] /\ call = NoCalls
    <2>1. NoCalls \in [Slots -> CallState]
      BY DEF NoCalls, CallState
    <2> QED
      BY <2>1 DEF Init
  <1>2. TypeOK
    <2>1. turns \in 0..TurnBound /\ disposals \in 0..1
      BY ConstantsOK DEF Init
    <2>2. terminate_reason \in Reason
      BY DEF Init, Reason
    <2>3. /\ pc = "idle" /\ controller = "none" /\ channel = "none"
          /\ requested \subseteq Slots /\ result = "none"
          /\ max_turns \in 0..TurnBound
      BY DEF Init
    <2>4. /\ interactive \in BOOLEAN /\ timed \in BOOLEAN /\ emitted \in BOOLEAN
          /\ attended \in BOOLEAN /\ launched \in BOOLEAN
          /\ signal \in BOOLEAN /\ aborted \in BOOLEAN /\ late \in BOOLEAN
      BY Zenon DEF Init
    <2> QED
      BY <1>1, <2>1, <2>2, <2>3, <2>4 DEF TypeOK
  <1>3. AbortKnown /\ Released
    BY DEF Init, AbortKnown, Released, Early
  <1>4. ToolsQuiet
    BY <1>1 DEF Init, ToolsQuiet, NoCalls
  <1> QED
    BY <1>2, <1>3, <1>4 DEF IInv

(* What the steps that end a run leave behind.                             *)
LEMMA ReturnOK ==
  ASSUME IInv, pc # "done", NEW r \in {"success", "cancelled", "error"},
         Return(r)
  PROVE  /\ pc' = "done" /\ result' = r /\ controller' = "none"
         /\ disposals' = 1
  BY DEF IInv, Released, Return, Dispose

(* An aborted run is never returned as a success.                          *)
LEMMA FinishOK ==
  ASSUME IInv, pc \notin Early \cup {"done"}, Finish
  PROVE  /\ pc' = "done" /\ controller' = "none" /\ disposals' = 1
         /\ result' \in {"success", "cancelled"}
         /\ signal => result' # "success"
  <1>1. aborted = signal /\ aborted \in BOOLEAN
    BY DEF IInv, AbortKnown, TypeOK
  <1>2. CASE aborted
    BY <1>1, <1>2, ReturnOK DEF Finish, Early
  <1>3. CASE ~aborted
    BY <1>1, <1>3, ReturnOK DEF Finish, Early
  <1> QED
    BY <1>1, <1>2, <1>3

(* What a step may do to the run without touching the tools: it keeps the  *)
(* state of the run well-formed and either goes on or returns.             *)
GoesOn ==
  /\ pc' \in {"opening", "stream", "ending", "todos"}
  /\ UNCHANGED endVars
Ends ==
  /\ pc' = "done" /\ controller' \in {"none", "live"} /\ disposals' = 1
  /\ result' \in {"success", "cancelled", "error"}
  /\ signal => result' # "success"
  /\ terminate_reason' \in Reason

(* Every path through the head of the loop is one of the two.              *)
LEMMA LoopHeadOK ==
  ASSUME IInv, pc \notin Early \cup {"done"}, LoopHead
  PROVE  /\ turns' \in 0..TurnBound /\ requested' \subseteq Slots
         /\ (GoesOn /\ UNCHANGED controller) \/ Ends
  <1>1. CASE AtTurnLimit \/ late
    <2>1. Finish /\ terminate_reason' \in Reason
      BY <1>1 DEF LoopHead, Break, Reason
    <2> QED
      BY <1>1, <2>1, FinishOK DEF LoopHead, Ends, IInv, TypeOK
  <1>2. CASE ~AtTurnLimit /\ ~late
    BY <1>2, ConstantsOK DEF LoopHead, NextTurn, GoesOn, IInv, TypeOK, Early
  <1> QED
    BY <1>1, <1>2

(* A step of the run that leaves no tool behind keeps the invariant.       *)
LEMMA RunStep ==
  ASSUME IInv, pc \notin Early \cup {"done"}, UNCHANGED streamFrame,
         emitted' \in BOOLEAN, turns' \in 0..TurnBound,
         requested' \subseteq Slots, call' = NoCalls, channel' = "none",
         (GoesOn /\ UNCHANGED controller) \/ Ends
  PROVE  IInv'
  <1>1. NoCalls \in [Slots -> CallState]
    BY DEF NoCalls, CallState
  <1>2. \A s \in Slots : NoCalls[s] = "none"
    BY DEF NoCalls
  <1>3. /\ aborted = signal /\ disposals = 0
        /\ UNCHANGED <<interactive, max_turns, timed, attended, launched,
                       signal, aborted, late>>
        /\ launched
    BY DEF IInv, AbortKnown, Released, Early, streamFrame, fixedVars
  <1>4. CASE GoesOn /\ UNCHANGED controller
    <2>1. TypeOK'
      BY <1>1, <1>3, <1>4 DEF GoesOn, IInv, TypeOK, endVars
    <2>2. AbortKnown'
      BY <1>3, <1>4 DEF GoesOn, AbortKnown, Early
    <2>3. ToolsQuiet'
      BY <1>2, <1>4 DEF GoesOn, ToolsQuiet
    <2>4. Released'
      BY <1>3, <1>4 DEF GoesOn, Released, Early, fixedVars, endVars
    <2> QED
      BY <2>1, <2>2, <2>3, <2>4 DEF IInv
  <1>5. CASE Ends
    <2>1. TypeOK'
      BY <1>1, <1>3, <1>5 DEF Ends, IInv, TypeOK
    <2>2. AbortKnown'
      BY <1>3, <1>5 DEF Ends, AbortKnown, Early
    <2>3. ToolsQuiet'
      BY <1>2, <1>5 DEF Ends, ToolsQuiet
    <2>4. Released'
      BY <1>3, <1>5 DEF Ends, Released, Early
    <2> QED
      BY <2>1, <2>2, <2>3, <2>4 DEF IInv
  <1> QED
    BY <1>4, <1>5

(* Returning before the launch is over.                                    *)
LEMMA EarlyStep ==
  ASSUME IInv, pc \in Early, UNCHANGED <<fixedVars, signal>>,
         \/ ReturnEarly("cancelled") \/ ReturnEarly("error")
  PROVE  IInv'
  <1>1. /\ UNCHANGED <<fixedVars, turnVars, toolVars, signal, aborted,
                       controller, late, terminate_reason, disposals>>
        /\ pc' = "done" /\ result' \in {"cancelled", "error"}
    BY DEF ReturnEarly
  <1>2. call = NoCalls /\ channel = "none" /\ controller = "none"
    BY DEF IInv, ToolsQuiet, Released, Early
  <1>3. NoCalls' = NoCalls
    BY DEF NoCalls
  <1>4. TypeOK'
    BY <1>1 DEF IInv, TypeOK, fixedVars, turnVars, toolVars
  <1>5. AbortKnown'
    BY <1>1 DEF AbortKnown, Early
  <1>6. ToolsQuiet'
    BY <1>1, <1>2, <1>3 DEF IInv, ToolsQuiet, toolVars, fixedVars
  <1>7. Released'
    BY <1>1, <1>2 DEF IInv, Released, Early, fixedVars
  <1> QED
    BY <1>4, <1>5, <1>6, <1>7 DEF IInv

(* Steps of the tools, of the user and of the scheduler.                   *)
LEMMA ToolStep ==
  ASSUME IInv, pc = "tools", UNCHANGED toolFrame,
         call' \in [Slots -> CallState],
         channel' \in {"waiting", "resolved", "none"}, ToolsQuiet'
  PROVE  IInv'
  <1>1. TypeOK'
    BY DEF IInv, TypeOK, toolFrame, turnVars, endVars, streamFrame, fixedVars
  <1>2. AbortKnown'
    BY DEF IInv, AbortKnown, Early, toolFrame, streamFrame
  <1>3. Released'
    BY DEF IInv, Released, Early, toolFrame, streamFrame,
           fixedVars, endVars
  <1> QED
    BY <1>1, <1>2, <1>3 DEF IInv

(* Calls exist only at the tools.                                          *)
LEMMA AtTools ==
  ASSUME IInv, NEW s \in Slots, call[s] # "none"
  PROVE  pc = "tools" /\ call # NoCalls /\ channel # "resolved"
  <1>1. call # NoCalls
    BY DEF NoCalls
  <1> QED
    BY <1>1 DEF IInv, ToolsQuiet

(* However far the loop of _schedule gets, the calls stay calls.           *)
LEMMA ValidateOK ==
  ASSUME NEW calls \in [Slots -> CallState], Validate(calls)
  PROVE  call' \in [Slots -> CallState]
  <1> DEFINE left == {s \in Slots : calls[s] = "listed"}
  <1>1. \/ call' = [s \in Slots |-> IF s \in left THEN "ended" ELSE calls[s]]
        \/ \E s \in left : call' = [calls EXCEPT ![s] = "validating"]
    BY DEF Validate
  <1> QED
    BY <1>1 DEF CallState

(* One call of an interactive run takes its next state.                    *)
LEMMA CallStep ==
  ASSUME IInv, NEW s \in Slots, NEW st \in CallState, call[s] # "none",
         interactive \/ st \in {"none", "running"},
         Becomes(s, st), UNCHANGED <<channel, toolFrame>>
  PROVE  IInv'
  <1>1. pc = "tools" /\ channel # "resolved"
    BY AtTools
  <1>2. call \in [Slots -> CallState]
    BY DEF IInv, TypeOK
  <1>3. call' \in [Slots -> CallState]
    BY <1>2 DEF Becomes
  <1>4. ~interactive => \A t \in Slots : call'[t] \in {"none", "running"}
    BY <1>2 DEF Becomes, IInv, ToolsQuiet
  <1>5. ToolsQuiet'
    BY <1>1, <1>4 DEF IInv, ToolsQuiet, toolFrame, streamFrame, fixedVars
  <1>6. channel \in {"waiting", "none"}
    BY <1>1 DEF IInv, TypeOK, ToolsQuiet
  <1> QED
    BY <1>1, <1>3, <1>5, <1>6, ToolStep

(* The steps of the interactive scheduler, one call each.                  *)
LEMMA SchedulerSteps ==
  ASSUME IInv, NEW s \in Slots, Validated(s) \/ Answered(s) \/ ToolEnds(s)
  PROVE  IInv'
  <1>1. \A t \in Slots : ~interactive => call[t] \in {"none", "running"}
    BY DEF IInv, ToolsQuiet
  <1>2. CASE Validated(s)
    <2>1. PICK st \in {"ended", "prompt", "running"} :
            Validate([call EXCEPT ![s] = st])
      BY <1>2, Zenon DEF Validated
    <2>2. interactive /\ call[s] # "none"
      BY <1>1, <1>2 DEF Validated
    <2>3. call' \in [Slots -> CallState]
      <3>1. [call EXCEPT ![s] = st] \in [Slots -> CallState]
        BY DEF IInv, TypeOK, CallState
      <3> QED
        BY <2>1, <3>1, ValidateOK
    <2>4. pc = "tools" /\ channel # "resolved"
      BY <2>2, AtTools
    <2>5. UNCHANGED toolFrame /\ channel' = channel
      BY <1>2 DEF Validated
    <2>6. ToolsQuiet'
      BY <2>2, <2>4, <2>5
         DEF IInv, ToolsQuiet, toolFrame, streamFrame, fixedVars
    <2>7. channel \in {"waiting", "none"}
      BY <2>4 DEF IInv, TypeOK, ToolsQuiet
    <2> QED
      BY <2>3, <2>4, <2>5, <2>6, <2>7, ToolStep
  <1>3. CASE Answered(s)
    <2>1. interactive /\ call[s] # "none"
      BY <1>1, <1>3 DEF Answered
    <2> QED
      BY <1>3, <2>1, CallStep DEF Answered, CallState
  <1>4. CASE ToolEnds(s)
    <2>1. call[s] # "none"
      BY <1>4 DEF ToolEnds
    <2>2. CASE interactive
      BY <1>4, <2>1, <2>2, CallStep DEF ToolEnds, CallState
    <2>3. CASE ~interactive
      BY <1>4, <2>1, <2>3, CallStep DEF ToolEnds, CallState
    <2> QED
      BY <2>2, <2>3
  <1> QED
    BY <1>2, <1>3, <1>4

(* A report finds the run waiting: it resolves the promise and leaves no   *)
(* completion over.                                                        *)
LEMMA ReportStep ==
  ASSUME IInv, Report
  PROVE  IInv'
  <1>1. NoCalls \in [Slots -> CallState] /\ NoCalls' = NoCalls
    BY DEF NoCalls, CallState
  <1>2. PICK s \in Slots : call[s] # "none"
    <2>1. call \in [Slots -> CallState]
      BY DEF IInv, TypeOK
    <2> QED
      BY <2>1 DEF Report, NoCalls
  <1>3. pc = "tools"
    BY <1>2, AtTools
  <1>4. interactive
    BY <1>2 DEF Report, IInv, ToolsQuiet
  <1>5. channel = "waiting"
    BY <1>2, <1>3, <1>4, AtTools DEF IInv, TypeOK, ToolsQuiet
  <1>6. call' = NoCalls /\ channel' = "resolved" /\ UNCHANGED toolFrame
    BY <1>5 DEF Report, HandleCompletion
  <1>7. pc' = "tools" /\ interactive'
    BY <1>3, <1>4, <1>6 DEF toolFrame, streamFrame, fixedVars
  <1>8. ToolsQuiet'
    BY <1>1, <1>6, <1>7 DEF ToolsQuiet
  <1> QED
    BY <1>1, <1>3, <1>6, <1>8, ToolStep

-----------------------------------------------------------------------------
(* The launch, the abort and the clock                                     *)

(* The launch, with its failures, and the return of the task tool.         *)
LEMMA LaunchSteps ==
  ASSUME IInv, Execute \/ LaunchFails \/ Launched
  PROVE  IInv'
  <1> USE DEF IInv
  <1>1. NoCalls' = NoCalls
    BY DEF NoCalls
  <1>2. CASE Execute
    <2>1. CASE ReturnEarly("cancelled") \/ ReturnEarly("error")
      BY <1>2, <2>1, EarlyStep DEF Execute, Early
    <2>2. CASE ~signal /\ pc' = "launching"
               /\ UNCHANGED <<turnVars, toolVars, endVars, aborted,
                              controller, late>>
      <3>1. pc = "idle" /\ UNCHANGED <<fixedVars, signal>>
        BY <1>2 DEF Execute
      <3>2. TypeOK'
        BY <2>2, <3>1 DEF TypeOK, fixedVars, turnVars, toolVars, endVars
      <3>3. AbortKnown'
        BY <2>2, <3>1 DEF AbortKnown, Early
      <3>4. ToolsQuiet'
        BY <1>1, <2>2, <3>1 DEF ToolsQuiet, fixedVars, toolVars
      <3>5. Released'
        BY <2>2, <3>1 DEF Released, Early, fixedVars, endVars
      <3> QED
        BY <3>2, <3>3, <3>4, <3>5
    <2> QED
      BY <1>2, <2>1, <2>2 DEF Execute
  <1>3. CASE LaunchFails
    BY <1>3, EarlyStep DEF LaunchFails, Early
  <1>4. CASE Launched
    <2>1. TypeOK'
      BY <1>4 DEF Launched, TypeOK, fixedVars, turnVars, toolVars, endVars
    <2>2. AbortKnown'
      BY <1>4 DEF Launched, AbortKnown, Early
    <2>3. ToolsQuiet'
      BY <1>1, <1>4 DEF Launched, ToolsQuiet, fixedVars, toolVars
    <2>4. Released'
      BY <1>4 DEF Launched, Released, Early, fixedVars, endVars
    <2> QED
      BY <2>1, <2>2, <2>3, <2>4
  <1> QED
    BY <1>2, <1>3, <1>4

(* The user aborts, before, during or after the run.                       *)
LEMMA AbortStep ==
  ASSUME IInv, Abort
  PROVE  IInv'
  <1>1. NoCalls' = NoCalls
    BY DEF NoCalls
  <1>2. TypeOK'
    <2>1. aborted' \in BOOLEAN /\ signal' \in BOOLEAN
      BY DEF Abort
    <2>2. controller' \in {"none", "live", "aborted"}
      BY DEF Abort, IInv, TypeOK
    <2> QED
      BY <2>1, <2>2 DEF Abort, IInv, TypeOK, fixedVars, turnVars, toolVars,
                        endVars
  <1>3. AbortKnown'
    BY DEF Abort, AbortKnown, Early
  <1>4. ToolsQuiet'
    BY <1>1 DEF Abort, IInv, ToolsQuiet, fixedVars, toolVars
  <1>5. Released'
    BY DEF Abort, IInv, Released, Early, fixedVars, endVars
  <1> QED
    BY <1>2, <1>3, <1>4, <1>5 DEF IInv

(* Time passes; nothing but the clock changes.                             *)
LEMMA TickStep ==
  ASSUME IInv, Tick
  PROVE  IInv'
  <1>1. NoCalls' = NoCalls
    BY DEF NoCalls
  <1>2. TypeOK'
    BY DEF Tick, IInv, TypeOK, fixedVars, turnVars, toolVars, endVars
  <1>3. AbortKnown'
    BY DEF Tick, IInv, AbortKnown, Early, endVars
  <1>4. ToolsQuiet'
    BY <1>1 DEF Tick, IInv, ToolsQuiet, fixedVars, toolVars
  <1>5. Released'
    BY DEF Tick, IInv, Released, Early, fixedVars, endVars
  <1> QED
    BY <1>2, <1>3, <1>4, <1>5 DEF IInv

(* The chat is there: the run gets its controller and starts its first     *)
(* turn; or the run is over.                                               *)
LEMMA ChatSteps ==
  ASSUME IInv, ChatReady \/ NoChat \/ SetupFails
  PROVE  IInv'
  <1>1. pc = "chat" /\ call = NoCalls /\ channel = "none"
    BY DEF ChatReady, NoChat, SetupFails, IInv, ToolsQuiet
  <1>2. CASE ChatReady
    <2>1. NoCalls' = NoCalls
      BY DEF NoCalls
    <2>2. /\ pc' \in {"stream", "opening"} /\ controller' = "live"
          /\ turns' \in 0..TurnBound /\ requested' = {}
          /\ UNCHANGED <<fixedVars, toolVars, endVars, signal, aborted, late,
                         emitted>>
      BY <1>2, ConstantsOK DEF ChatReady, NextTurn, IInv, TypeOK
    <2>3. TypeOK'
      BY <2>2 DEF IInv, TypeOK, fixedVars, toolVars, endVars
    <2>4. AbortKnown'
      BY <1>1, <2>2 DEF IInv, AbortKnown, Early
    <2>5. ToolsQuiet'
      BY <1>1, <2>1, <2>2 DEF IInv, ToolsQuiet, fixedVars, toolVars
    <2>6. Released'
      BY <1>1, <2>2 DEF IInv, Released, Early, fixedVars, endVars
    <2> QED
      BY <2>3, <2>4, <2>5, <2>6 DEF IInv
  <1>3. CASE NoChat
    <2>1. /\ UNCHANGED streamFrame /\ UNCHANGED <<turnVars, toolVars>>
          /\ terminate_reason' = terminate_reason
      BY <1>3 DEF NoChat, streamFrame
    <2>2. Ends
      <3>1. CASE Finish
        BY <1>1, <2>1, <3>1, FinishOK DEF Ends, Early, IInv, TypeOK
      <3>2. CASE Return("error")
        BY <1>1, <2>1, <3>2, ReturnOK DEF Ends, IInv, TypeOK
      <3> QED
        BY <1>3, <3>1, <3>2 DEF NoChat
    <2> QED
      BY <1>1, <2>1, <2>2, RunStep DEF Early, IInv, TypeOK, turnVars, toolVars
  <1>4. CASE SetupFails
    <2>1. /\ UNCHANGED streamFrame /\ UNCHANGED <<turnVars, toolVars>>
          /\ terminate_reason' = terminate_reason
      BY <1>4 DEF SetupFails, streamFrame
    <2>2. Ends
      BY <1>1, <1>4, <2>1 DEF SetupFails, Dispose, Ends, IInv, Released, TypeOK
    <2> QED
      BY <1>1, <2>1, <2>2, RunStep DEF Early, IInv, TypeOK, turnVars, toolVars
  <1> QED
    BY <1>2, <1>3, <1>4

-----------------------------------------------------------------------------
(* The reply and the tools                                                 *)

Reading == {"opening", "stream", "ending", "todos"}

(* While it reads a reply the run has no tools.                            *)
LEMMA ReadingOK ==
  ASSUME IInv, pc \in Reading
  PROVE  /\ pc \notin Early \cup {"done", "tools"}
         /\ call = NoCalls /\ channel = "none"
         /\ emitted \in BOOLEAN /\ turns \in 0..TurnBound
         /\ requested \subseteq Slots /\ terminate_reason \in Reason
  BY DEF IInv, ToolsQuiet, TypeOK, Reading, Early

(* An error ends the run with the reason ERROR.                            *)
LEMMA FailOK ==
  ASSUME IInv, pc # "done", Fail
  PROVE  Ends
  BY ReturnOK DEF Fail, Ends, Reason

(* A break leaves the loop with its reason.                                *)
LEMMA BreakOK ==
  ASSUME IInv, pc \notin Early \cup {"done"}, NEW r \in Reason, Break(r)
  PROVE  Ends
  <1>1. Finish /\ terminate_reason' = r
    BY DEF Break
  <1> QED
    BY <1>1, FinishOK DEF Ends

(* A reply is being read, ends, or fails.                                  *)
LEMMA StreamSteps ==
  ASSUME IInv,
         \/ Opened \/ LastEvent \/ StreamCancelled \/ StreamFails
         \/ \E s \in Slots : Request(s)
  PROVE  IInv'
  <1>1. /\ pc \in Reading /\ UNCHANGED streamFrame
        /\ call' = call /\ channel' = channel
        /\ emitted' = emitted /\ turns' = turns
    BY DEF Opened, LastEvent, StreamCancelled, StreamFails, Request, Reading,
           turnVars, toolVars
  <1>2. requested' \subseteq Slots
    BY ReadingOK, <1>1 DEF Opened, LastEvent, StreamCancelled, StreamFails,
                           Request, turnVars
  <1>3. (GoesOn /\ UNCHANGED controller) \/ Ends
    <2>1. CASE Opened
      <3>1. CASE late /\ Break("TIMEOUT")
        BY <1>1, <3>1, ReadingOK, BreakOK DEF Reason
      <3>2. CASE ~late /\ pc' = "stream" /\ UNCHANGED <<endVars, controller>>
        BY <3>2 DEF GoesOn
      <3> QED
        BY <2>1, <3>1, <3>2 DEF Opened
    <2>2. CASE LastEvent
      BY <2>2 DEF LastEvent, GoesOn
    <2>3. CASE StreamCancelled
      BY <1>1, <2>3, ReadingOK, FinishOK DEF StreamCancelled, Ends
    <2>4. CASE StreamFails
      BY <1>1, <2>4, ReadingOK, FailOK DEF StreamFails
    <2>5. CASE \E s \in Slots : Request(s)
      BY <2>5 DEF Request, GoesOn
    <2> QED
      BY <2>1, <2>2, <2>3, <2>4, <2>5
  <1> QED
    BY <1>1, <1>2, <1>3, ReadingOK, RunStep

(* The tools begin: nothing is waiting yet, so the run waits.              *)
LEMMA ScheduleStep ==
  ASSUME IInv, pc \in Reading, interactive, Schedule, emitted' \in BOOLEAN,
         UNCHANGED streamFrame
  PROVE  IInv'
  <1>1. channel' = "waiting"
    BY ReadingOK DEF Schedule, AwaitCompletedCalls
  <1>2. call' \in [Slots -> CallState]
    <2> DEFINE calls == [s \in Slots |->
                          IF s \in Scheduled THEN "listed" ELSE "none"]
    <2>1. calls \in [Slots -> CallState]
      BY DEF CallState
    <2>2. Validate(calls)
      BY DEF Schedule
    <2> QED
      BY <2>1, <2>2, ValidateOK
  <1>3. /\ pc' = "tools" /\ UNCHANGED <<turns, requested, controller, endVars>>
        /\ UNCHANGED <<interactive, max_turns, timed, attended, launched,
                       signal, aborted, late>>
    BY DEF Schedule, streamFrame, fixedVars
  <1>4. TypeOK'
    BY <1>1, <1>2, <1>3 DEF IInv, TypeOK, endVars
  <1>5. AbortKnown'
    BY <1>3, ReadingOK DEF IInv, AbortKnown, Early
  <1>6. ToolsQuiet'
    BY <1>1, <1>3 DEF ToolsQuiet
  <1>7. Released'
    BY <1>3, ReadingOK DEF IInv, Released, Early, fixedVars, endVars
  <1> QED
    BY <1>4, <1>5, <1>6, <1>7 DEF IInv

(* The tools of a non-interactive run begin.                               *)
LEMMA ToToolsStep ==
  ASSUME IInv, pc \in Reading, ~interactive, pc' = "tools",
         UNCHANGED <<turnVars, toolVars, endVars, controller, streamFrame>>
  PROVE  IInv'
  <1>1. /\ UNCHANGED <<turns, requested, emitted, call, channel, endVars>>
        /\ UNCHANGED <<interactive, max_turns, timed, attended, launched,
                       signal, aborted, late>>
        /\ controller' = controller /\ NoCalls' = NoCalls
    BY DEF turnVars, toolVars, streamFrame, fixedVars, NoCalls
  <1>2. TypeOK'
    BY <1>1 DEF IInv, TypeOK, endVars
  <1>3. AbortKnown'
    BY <1>1, ReadingOK DEF IInv, AbortKnown, Early
  <1>4. ToolsQuiet'
    BY <1>1 DEF IInv, ToolsQuiet
  <1>5. Released'
    BY <1>1, ReadingOK DEF IInv, Released, Early, fixedVars, endVars
  <1> QED
    BY <1>2, <1>3, <1>4, <1>5 DEF IInv

(* What the run does with a reply that is complete.                        *)
LEMMA RepliedStep ==
  ASSUME IInv, pc \in Reading, Replied, UNCHANGED streamFrame
  PROVE  IInv'
  <1>1. CASE interactive /\ requested # {} /\ Emits /\ Scheduled # {} /\ Schedule
    <2>1. emitted' \in BOOLEAN
      BY <1>1, ReadingOK DEF Emits
    <2> QED
      BY <1>1, <2>1, ScheduleStep
  <1>2. CASE interactive /\ Emits /\ LoopHead /\ UNCHANGED toolVars
    <2>1. emitted' \in BOOLEAN
      BY <1>2, ReadingOK DEF Emits
    <2> QED
      BY <1>2, <2>1, ReadingOK, LoopHeadOK, RunStep DEF toolVars
  <1>3. CASE /\ ~interactive \/ requested = {}
             /\ GoOn(IF requested = {} THEN "todos" ELSE "tools")
             /\ UNCHANGED <<turnVars, toolVars>>
    <2>1. /\ call' = NoCalls /\ channel' = "none" /\ emitted' \in BOOLEAN
          /\ turns' \in 0..TurnBound /\ requested' \subseteq Slots
      BY <1>3, ReadingOK DEF turnVars, toolVars
    <2>2. CASE late /\ Break("TIMEOUT")
      <3>1. Ends
        BY <2>2, ReadingOK, BreakOK DEF Reason
      <3> QED
        BY <2>1, <3>1, ReadingOK, RunStep
    <2>3. CASE pc' = "todos" /\ UNCHANGED <<controller, endVars>>
      <3>1. GoesOn /\ UNCHANGED controller
        BY <2>3 DEF GoesOn
      <3> QED
        BY <2>1, <3>1, ReadingOK, RunStep
    <2>4. CASE ~interactive /\ pc' = "tools"
               /\ UNCHANGED <<controller, endVars>>
      BY <1>3, <2>4, ToToolsStep
    <2> QED
      BY <1>3, <2>2, <2>3, <2>4 DEF GoOn
  <1> QED
    BY <1>1, <1>2, <1>3 DEF Replied

(* The tools are done.                                                     *)
LEMMA ToolsDoneSteps ==
  ASSUME IInv, CallsCompleted \/ AllPerformed \/ TodosRead
  PROVE  IInv'
  <1>1. /\ pc \notin Early \cup {"done"} /\ UNCHANGED streamFrame
        /\ emitted \in BOOLEAN /\ emitted' = emitted
        /\ turns \in 0..TurnBound /\ requested \subseteq Slots
    BY DEF CallsCompleted, AllPerformed, TodosRead, IInv, TypeOK, Early
  <1>2. call' = NoCalls /\ channel' = "none"
    <2>1. CASE CallsCompleted
      BY <2>1 DEF CallsCompleted, IInv, ToolsQuiet
    <2>2. CASE AllPerformed
      BY <2>2 DEF AllPerformed, toolVars, IInv, ToolsQuiet
    <2>3. CASE TodosRead
      BY <2>3 DEF TodosRead, toolVars, IInv, ToolsQuiet
    <2> QED
      BY <2>1, <2>2, <2>3
  <1>3. CASE LoopHead
    BY <1>1, <1>2, <1>3, LoopHeadOK, RunStep
  <1>4. CASE Break("GOAL") /\ UNCHANGED <<turns, requested>>
    <2>1. Ends
      BY <1>1, <1>4, BreakOK DEF Reason
    <2> QED
      BY <1>1, <1>2, <1>4, <2>1, RunStep
  <1> QED
    BY <1>3, <1>4 DEF CallsCompleted, AllPerformed, TodosRead

(* The next call of a non-interactive run.                                 *)
LEMMA PerformStep ==
  ASSUME IInv, NEW s \in Slots, Perform(s)
  PROVE  IInv'
  <1>1. /\ pc = "tools" /\ ~interactive /\ call = NoCalls
        /\ UNCHANGED <<turns, channel, endVars, pc, controller, streamFrame>>
        /\ UNCHANGED <<interactive, max_turns, timed, attended, launched,
                       signal, aborted, late>>
    BY DEF Perform, streamFrame, fixedVars
  <1>2. requested' \subseteq Slots /\ emitted' \in BOOLEAN
    BY DEF Perform, IInv, TypeOK
  <1>3. /\ call' \in [Slots -> CallState]
        /\ \A t \in Slots : call'[t] \in {"none", "running"}
    BY <1>1 DEF Perform, Becomes, NoCalls, CallState
  <1>4. TypeOK'
    BY <1>1, <1>2, <1>3 DEF IInv, TypeOK, endVars
  <1>5. AbortKnown'
    BY <1>1 DEF IInv, AbortKnown, Early
  <1>6. ToolsQuiet'
    BY <1>1, <1>3 DEF IInv, ToolsQuiet
  <1>7. Released'
    BY <1>1 DEF IInv, Released, Early, fixedVars, endVars
  <1> QED
    BY <1>4, <1>5, <1>6, <1>7 DEF IInv

(* Every step keeps the invariant.                                         *)
LEMMA NextOK == IInv /\ [Next]_vars => IInv'
  <1> SUFFICES ASSUME IInv, [Next]_vars PROVE IInv'
    OBVIOUS
  <1>1. CASE Launching
    BY <1>1, LaunchSteps, ChatSteps DEF Launching
  <1>2. CASE Streaming
    <2>1. CASE StreamEnds \/ StreamInvalid
      BY <2>1, RepliedStep DEF StreamEnds, StreamInvalid, Reading
    <2> QED
      BY <1>2, <2>1, StreamSteps DEF Streaming
  <1>3. CASE UsingTools
    BY <1>3, ReportStep, ToolsDoneSteps, SchedulerSteps, PerformStep
       DEF UsingTools
  <1>4. CASE Abort \/ Tick
    BY <1>4, AbortStep, TickStep
  <1>5. CASE UNCHANGED vars
    <2>1. NoCalls' = NoCalls
      BY DEF NoCalls
    <2> QED
      BY <1>5, <2>1
      DEF vars, fixedVars, turnVars, toolVars, endVars, IInv, TypeOK,
          AbortKnown, ToolsQuiet, Released
  <1> QED
    BY <1>1, <1>2, <1>3, <1>4, <1>5 DEF Next, Proceed

(* The state is typed; an abort is known to whoever reports; tools run     *)
(* only while the run waits for them; the runtime is released at the end.  *)
THEOREM Invariant == Spec => []IInv
  BY InitOK, NextOK, PTL DEF Spec

-----------------------------------------------------------------------------
(* The state is what TypeOK says; in particular the runtime of a subagent  *)
(* is never disposed of twice.                                             *)
THEOREM TypeCorrect == Spec => []TypeOK
  <1>1. IInv => TypeOK
    BY DEF IInv
  <1> QED
    BY <1>1, Invariant, PTL

(* A task the user aborted before its result went back is not reported to  *)
(* the parent's model as a success.                                        *)
THEOREM AbortReported == Spec => []AbortIsReported
  <1>1. IInv => AbortIsReported
    BY DEF IInv, AbortKnown, AbortIsReported
  <1> QED
    BY <1>1, Invariant, PTL

(* Nothing of a subagent goes on after its result went back.               *)
THEOREM ReturnsQuietly == Spec => []QuietWhenReturned
  <1>1. IInv => QuietWhenReturned
    BY DEF IInv, ToolsQuiet, Released, QuietWhenReturned
  <1> QED
    BY <1>1, Invariant, PTL

=============================================================================
