------------------------------ MODULE AgentTask ------------------------------
(***************************************************************************)
(* A task of the agent server: CoderAgentExecutor and Task                 *)
(* (packages/a2a-server/src/agent/executor.ts and task.ts) with the saved  *)
(* state of the task (persistence/gcs.ts).                                 *)
(*                                                                         *)
(* Every message of the client is an execution of its own.  The first      *)
(* becomes the primary one: it streams from the model, schedules the tool  *)
(* calls, waits for them and sends their results back.  Messages that      *)
(* arrive meanwhile answer prompts or stream on the side.  An action is    *)
(* the code between two awaits.  The scheduler of a Task is CoreTool-      *)
(* Scheduler as a Task sees it: calls change status, every change is       *)
(* notified, and a batch is reported when all its calls are terminal.      *)
(*                                                                         *)
(* Operators named X_Y, next to X, are mutants: X with a plausible bug.    *)
(***************************************************************************)
EXTENDS Naturals, FiniteSets

CONSTANTS
  Users,       \* messages with text
  Calls,       \* tool calls the model may request; each has one message of
               \* the client that answers its prompt, known by the same name
  Edits,       \* calls whose prompt may be answered with new content
  Readers,     \* requests for /tasks/:id/metadata
  Cancels,     \* requests to cancel the task
  MaxTasks,    \* bound: Task objects between two starts of the server
  MaxRestarts, \* bound: crashes of the server
  None

ASSUME ConstantsOK ==
  /\ Edits \subseteq Calls /\ MaxTasks \in Nat \ {0} /\ MaxRestarts \in Nat
  /\ Users \cap Calls = {} /\ Readers \cap (Users \cup Calls) = {}
  /\ Cancels \cap (Users \cup Calls \cup Readers) = {}
  /\ None \notin Users \cup Calls \cup Readers \cup Cancels

Messages == Users \cup Calls
Requests == Messages \cup Readers \cup Cancels
Tasks == 1..MaxTasks

VARIABLES
  task,      \* the Task objects, the first `made` of them in use
  made,
  known,     \* the executor's map: the Task it knows, or None
  executing, \* executingTasks holds the task's id
  request,   \* the requests of the client
  call,      \* the tool calls
  stored,    \* the state in the store, None before the first save
  restarts,
  canceled,  \* history variable: the task was canceled by request
  replaced,  \* history variable: the Task of a running execution is no
             \* longer the one the executor knows
  late       \* history variable: since the last execution a message that had
             \* come on the side has said that the task works

vars == <<task, made, known, executing, request, call, stored, restarts,
          canceled, replaced, late>>

TaskStates == {"submitted", "working", "input-required", "canceled", "failed"}
FinalStates == {"canceled", "failed"}

(* pending: pendingToolCalls, whose status is that of the scheduler's call; *)
(* details: pendingToolConfirmationDetails; promise: toolCompletionPromise. *)
(* batch is the list of the scheduler.                                      *)
FreshTask(state) ==
  [state |-> state, pending |-> {}, details |-> {}, skip |-> FALSE,
   promise |-> "resolved", completed |-> {}, batch |-> {}]

(* An execution.  wake tells what became of the promise it waits for.       *)
FreshRequest ==
  [pc |-> "new", task |-> None, primary |-> FALSE, aborted |-> FALSE,
   loaded |-> None, wants |-> {}, wake |-> None, ended |-> None]
FreshCall == [status |-> "new", by |-> None, to |-> None, outcome |-> None]

(* A call that ran or failed has ended, whatever its result.               *)
Terminal == {"ended", "cancelled"}
Statuses == {"new", "requested", "validating", "awaiting", "scheduled",
             "executing", "dropped"} \cup Terminal
Steps == {"new", "creating", "saving new", "loading", "answering", "accepted",
          "streaming", "streamed",
          "scheduling", "queued", "scheduled", "waiting", "saving", "done"}
Outcomes == {"proceed", "edit", "cancel"}
Wakes == {"asleep", "lost", "resolved", "rejected"}
Ends == {"normal", "aborted", "failed", "crashed"}

ASSUME NoneIsNoValue ==
  /\ None \notin Tasks /\ None \notin TaskStates /\ None \notin Outcomes
  /\ None \notin Wakes /\ None \notin Ends

TaskType ==
  [state : TaskStates, pending : SUBSET Calls, details : SUBSET Calls,
   skip : BOOLEAN, promise : {"open", "resolved"},
   completed : SUBSET Calls, batch : SUBSET Calls]
RequestType ==
  [pc : Steps, task : Tasks \cup {None}, primary : BOOLEAN, aborted : BOOLEAN,
   loaded : TaskStates \cup {None}, wants : SUBSET Calls,
   wake : Wakes \cup {None}, ended : Ends \cup {None}]
CallType ==
  [status : Statuses, by : Messages \cup {None}, to : Messages \cup {None},
   outcome : Outcomes \cup {None}]
TypeOK ==
  /\ task \in [Tasks -> TaskType]
  /\ made \in 0..MaxTasks /\ known \in Tasks \cup {None}
  /\ known # None => known <= made
  /\ executing \in BOOLEAN
  /\ request \in [Requests -> RequestType]
  /\ call \in [Calls -> CallType]
  /\ stored \in TaskStates \cup {None}
  /\ restarts \in 0..MaxRestarts
  /\ canceled \in BOOLEAN /\ replaced \in BOOLEAN /\ late \in BOOLEAN

Init ==
  /\ task = [t \in Tasks |-> FreshTask("submitted")] /\ made = 0
  /\ known = None /\ executing = FALSE
  /\ request = [r \in Requests |-> FreshRequest]
  /\ call = [c \in Calls |-> FreshCall]
  /\ stored = None /\ restarts = 0
  /\ canceled = FALSE /\ replaced = FALSE /\ late = FALSE

-----------------------------------------------------------------------------
(* Pending tools and the promise of their completion                       *)

(* cancelPendingTools.  The promise made anew is resolved at once, as       *)
(* nothing is pending.                                                      *)
WithoutPending(tk) == [tk EXCEPT !.pending = {}, !.promise = "resolved"]

(* What becomes of the executions that wait for the promise of task t.      *)
Woken(reqs, t, how) ==
  [r \in Requests |->
     IF reqs[r].pc = "waiting" /\ reqs[r].task = t /\ reqs[r].wake = "asleep"
     THEN [reqs[r] EXCEPT !.wake = how] ELSE reqs[r]]

(* _schedulerToolCallsUpdate: terminal calls are resolved, the others       *)
(* registered, prompts kept, and if all that is pending awaits approval     *)
(* the client is told that input is required.                               *)
Registered_NoPrompts(tk, cs) ==
  {c \in tk.batch : cs[c].status \notin Terminal \cup {"awaiting"}}
Registered(tk, cs) == {c \in tk.batch : cs[c].status \notin Terminal}
Announces(tk, cs) ==
  /\ tk.pending # {} /\ ~tk.skip
  /\ \A c \in tk.pending : cs[c].status = "awaiting"
Announced(tk, cs) ==
  [tk EXCEPT !.state = IF Announces(tk, cs) THEN "input-required" ELSE @]
Notified(tk, cs) ==
  LET pending == Registered(tk, cs)
  IN Announced([tk EXCEPT
       !.pending = pending,
       !.promise = IF pending = {} THEN "resolved" ELSE "open",
       !.details = @ \cup {c \in pending : cs[c].status = "awaiting"}], cs)

(* The promise is resolved when the last pending call is, and replaced when *)
(* the first one is registered.                                             *)
Rewoken(reqs, t, tk, cs) ==
  IF tk.pending # {} /\ Registered(tk, cs) = {} THEN Woken(reqs, t, "resolved")
  ELSE IF tk.pending = {} /\ Registered(tk, cs) # {} THEN Woken(reqs, t, "lost")
  ELSE reqs

-----------------------------------------------------------------------------
(* The scheduler of a Task                                                 *)

(* attemptExecutionOfScheduledCalls: calls start together.                  *)
Started(tk, cs) ==
  IF \A c \in tk.batch : cs[c].status \in Terminal \cup {"scheduled"}
  THEN [c \in Calls |-> IF c \in tk.batch /\ cs[c].status = "scheduled"
                        THEN [cs[c] EXCEPT !.status = "executing"] ELSE cs[c]]
  ELSE cs

(* checkAndNotifyCompletion with _schedulerAllToolCallsComplete             *)
Reported(tk, cs) ==
  IF \A c \in tk.batch : cs[c].status \in Terminal
  THEN [tk EXCEPT !.completed = @ \cup tk.batch, !.batch = {}]
  ELSE tk

(* The calls of task t (now tk) change to cs: calls may start, the Task is  *)
(* notified, and a complete batch is reported.  reqs is what else happens   *)
(* to the requests.                                                         *)
SchedulerStep(t, tk, cs, reqs) ==
  LET now == Started(tk, cs)
  IN /\ call' = now
     /\ task' = [task EXCEPT ![t] = Reported(Notified(tk, now), now)]
     /\ request' = Rewoken(reqs, t, tk, now)

server == <<made, known, executing, stored, restarts, canceled, replaced, late>>

TaskOf(c) == request[call[c].by].task
Aborted(c) == request[call[c].by].aborted
Live(c) ==
  call[c].by # None /\ TaskOf(c) # None /\ c \in task[TaskOf(c)].batch
Becomes(c, status) ==
  SchedulerStep(TaskOf(c), task[TaskOf(c)],
                [call EXCEPT ![c].status = status], request)

(* The signal is looked at before shouldConfirmExecute, not behind it.      *)
Validated(c) ==
  /\ Live(c) /\ call[c].status = "validating"
  /\ \E s \in {"scheduled", "awaiting", "ended"}
                \cup IF Aborted(c) THEN {"cancelled"} ELSE {} :
       Becomes(c, s)
  /\ UNCHANGED server

Finished(c) ==
  /\ Live(c) /\ call[c].status = "executing"
  /\ \E s \in IF Aborted(c) THEN Terminal ELSE {"ended"} :
       Becomes(c, s)
  /\ UNCHANGED server

-----------------------------------------------------------------------------
(* A message arrives                                                       *)

(* acceptUserMessage up to its first await: an answer whose prompt is known *)
(* goes to the scheduler.                                                   *)
Accept(m, t, tk, primary) ==
  LET goes(pc) == [request EXCEPT ![m].pc = pc, ![m].task = t, ![m].primary = primary, ![m].loaded = None]
  IN \/ /\ m \notin tk.details
        /\ task' = [task EXCEPT ![t] = tk]
        /\ request' = goes("accepted")
        /\ UNCHANGED call
     \/ /\ m \in tk.details
        /\ \E o \in IF m \in Edits THEN Outcomes ELSE Outcomes \ {"edit"} :
             /\ call' = [call EXCEPT ![m].outcome = o]
             /\ task' = [task EXCEPT ![t] =
                  [tk EXCEPT !.skip = IF m \in Edits THEN o = "edit" ELSE @]]
        /\ request' = goes("answering")

(* execute, once it has its Task: a finished task ignores the message, and  *)
(* one that executes lets it through on the side.                           *)
Begin_Ignores(m, t, tk) ==
  IF tk.state \in FinalStates \/ executing
  THEN /\ task' = [task EXCEPT ![t] = tk]
       /\ request' = [request EXCEPT ![m].pc = "done", ![m].loaded = None]
       /\ UNCHANGED <<call, executing, late>>
  ELSE executing' = TRUE /\ late' = FALSE /\ Accept(m, t, tk, TRUE)
Begin(m, t, tk) ==
  IF tk.state \in FinalStates
  THEN /\ task' = [task EXCEPT ![t] = tk]
       /\ request' = [request EXCEPT ![m].pc = "done", ![m].loaded = None]
       /\ UNCHANGED <<call, executing, late>>
  ELSE /\ executing' = TRUE
       /\ late' = (late /\ executing)
       /\ Accept(m, t, tk, ~executing)

(* The client answers what it was asked, also when the server has since     *)
(* been restarted.                                                          *)
Prompted(c) ==
  call[c].status = "awaiting" \/ \E t \in 1..made : c \in task[t].details

NewTask == made + 1
Register_OneOff == made' = NewTask /\ known' = made
Register == made' = NewTask /\ known' = NewTask

Arrive(m) ==
  /\ request[m].pc = "new" /\ known # None
  /\ m \in Calls => Prompted(m)
  /\ Begin(m, known, task[known])
  /\ UNCHANGED <<made, known, stored, restarts, canceled, replaced>>

(* The task is not in memory: it is loaded, or created by the first message.*)
Loading == {r \in Requests : request[r].pc = "loading"}
ArriveCold(r) ==
  /\ request[r].pc = "new" /\ known = None
  /\ made + Cardinality(Loading) < MaxTasks
  /\ r \in Calls => Prompted(r)
  /\ \/ stored # None /\ request' = [request EXCEPT ![r].pc = "loading", ![r].loaded = stored]
     \/ /\ r \in Users /\ \A q \in Requests : request[q].pc = "new"
        /\ request' = [request EXCEPT ![r].pc = "creating"]
  /\ UNCHANGED <<task, call, server>>

CreateTask(m) ==
  /\ request[m].pc = "creating" /\ Register
  /\ task' = [task EXCEPT ![NewTask] = FreshTask("submitted")]
  /\ request' = [request EXCEPT ![m].pc = "saving new", ![m].task = NewTask]
  /\ UNCHANGED <<executing, call, stored, restarts, canceled, replaced, late>>

(* The save of the new task may fail; the execution begins all the same.    *)
SaveNew(m) ==
  /\ request[m].pc = "saving new"
  /\ stored' \in {stored, "submitted"}
  /\ Begin(m, request[m].task, task[request[m].task])
  /\ UNCHANGED <<made, known, restarts, canceled, replaced>>

(* reconstruct: a Task of its own for every request that found none, even   *)
(* if another has put one into the map meanwhile.                           *)
Reconstruct(r) ==
  /\ request[r].pc = "loading" /\ Register
  /\ replaced' = (replaced \/ executing)
  /\ IF r \in Readers
     THEN /\ task' = [task EXCEPT ![NewTask] = FreshTask(request[r].loaded)]
          /\ request' = [request EXCEPT ![r].pc = "done", ![r].loaded = None]
          /\ UNCHANGED <<executing, call, late>>
     ELSE Begin(r, NewTask, FreshTask(request[r].loaded))
  /\ UNCHANGED <<stored, restarts, canceled>>

(* handleConfirmationResponse after its first await; then the prompt is     *)
(* forgotten.  New content is shown in the prompt once more before the call *)
(* is scheduled, also if the signal fires while it is prepared.             *)
Answer(c) ==
  LET t == request[c].task
      reqs == [request EXCEPT ![c].pc = "accepted"]
      forgets(tk) == [tk EXCEPT !.details = @ \ {c}]
  IN /\ request[c].pc = "answering"
     /\ IF Live(c) /\ call[c].status = "awaiting"
        THEN \E status \in
                   (IF call[c].outcome = "cancel" \/ Aborted(c) THEN {"cancelled"} ELSE {})
                   \cup (IF call[c].outcome = "edit"
                           \/ (call[c].outcome = "proceed" /\ ~Aborted(c))
                         THEN {"scheduled"} ELSE {}) :
               LET shown == IF call[c].outcome = "edit" /\ status = "scheduled"
                            THEN Announced(task[t], call) ELSE task[t]
                   now == Started(task[t], [call EXCEPT ![c].status = status])
               IN /\ call' = now
                  /\ task' = [task EXCEPT ![t] = forgets(Reported(Notified(shown, now), now))]
                  /\ request' = Rewoken(reqs, t, shown, now)
        ELSE /\ task' = [task EXCEPT ![t] = forgets(@)]
             /\ request' = reqs
             /\ UNCHANGED call
     /\ UNCHANGED server

(* The rest of acceptUserMessage, after its awaits: text for the model,     *)
(* which an answer may bring too, or an answer while calls are pending, say *)
(* that the task works, whatever has become of its execution meanwhile.     *)
IsAnswer(m) == m \in Calls /\ call[m].outcome # None
Proceed(m) ==
  LET t == request[m].task
      tk == task[t]
  IN /\ request[m].pc = "accepted"
     /\ \E text \in IF m \in Users THEN {TRUE} ELSE BOOLEAN :
          LET works == text \/ (IsAnswer(m) /\ tk.pending # {} /\ tk.state # "input-required")
          IN /\ task' = IF works THEN [task EXCEPT ![t].state = "working"] ELSE task
             /\ request' = [request EXCEPT ![m].pc =
                  IF text THEN "streaming"
                  ELSE IF request[m].primary THEN "streamed" ELSE "done"]
             /\ late' = (late \/ (works /\ ~executing))
     /\ UNCHANGED <<made, known, executing, call, stored, restarts, canceled, replaced>>

-----------------------------------------------------------------------------
(* The primary execution                                                   *)

(* The end of execute: finally, with the state as it is saved.              *)
Leave(m, tk, reqs, how) ==
  /\ task' = [task EXCEPT ![request[m].task] = tk]
  /\ request' = [reqs EXCEPT ![m].pc = "saving", ![m].loaded = tk.state,
                             ![m].wants = {}, ![m].wake = None, ![m].ended = how]
  /\ executing' = FALSE

(* The catch of execute: pending tools are cancelled, which rejects what    *)
(* waits for them; an aborted execution leaves the task to the next one.    *)
Catch(m) ==
  LET t == request[m].task
      aborted == request[m].aborted
      state == IF ~aborted THEN "failed"
               ELSE IF task[t].state \in FinalStates THEN task[t].state
               ELSE "input-required"
  IN /\ Leave(m, [WithoutPending(task[t]) EXCEPT !.state = state],
              Woken(request, t, "rejected"), IF aborted THEN "aborted" ELSE "failed")
     /\ UNCHANGED <<made, known, call, stored, restarts, canceled, replaced, late>>

EndTurn_Silent(m, tk) ==
  /\ Leave(m, tk, request, "normal")
  /\ UNCHANGED <<made, known, stored, restarts, canceled, replaced, late>>
EndTurn(m, tk) ==
  /\ Leave(m, [tk EXCEPT !.state = "input-required"], request, "normal")
  /\ UNCHANGED <<made, known, stored, restarts, canceled, replaced, late>>

(* The model requests new calls or none.  An error in the stream cancels    *)
(* what is pending and changes nothing else.                                *)
NewCalls == {c \in Calls : call[c].status = "new"}
Requested(cs, m, status) ==
  [c \in Calls |-> IF c \in cs THEN [call[c] EXCEPT !.status = status, !.by = m]
                   ELSE call[c]]
StreamEnds(m) ==
  /\ request[m].pc = "streaming" /\ request[m].primary /\ ~request[m].aborted
  /\ \E cs \in SUBSET NewCalls, broken \in BOOLEAN :
       /\ call' = Requested(cs, m, "requested")
       /\ request' = [request EXCEPT ![m].pc = "streamed", ![m].wants = cs]
       /\ task' = IF broken THEN [task EXCEPT ![request[m].task] = WithoutPending(@)]
                  ELSE task
  /\ UNCHANGED server

(* The events of a message on the side are read and thrown away, requests   *)
(* for tools included.                                                      *)
SideStreamEnds(m) ==
  /\ request[m].pc = "streaming" /\ ~request[m].primary
  /\ \E cs \in SUBSET NewCalls : call' = Requested(cs, m, "dropped")
  /\ request' = [request EXCEPT ![m].pc = "done"]
  /\ UNCHANGED <<task, server>>

(* The stream throws, or the client is found to have gone.                  *)
StreamFails(m) ==
  /\ request[m].pc = "streaming" /\ request[m].primary
  /\ Catch(m)

(* waitForPendingTools                                                      *)
Wait(m) ==
  /\ request' = [request EXCEPT ![m].pc = "waiting",
       ![m].wake = IF task[request[m].task].promise = "open" THEN "asleep" ELSE "resolved"]
  /\ UNCHANGED <<task, call, server>>

(* _schedule of the batch m asked for, in the empty list of its Task        *)
Schedule(m, tk) ==
  /\ \E bad \in SUBSET request[m].wants :
       SchedulerStep(request[m].task, [tk EXCEPT !.batch = request[m].wants],
         [c \in Calls |->
            IF c \in bad THEN [call[c] EXCEPT !.status = "ended"]
            ELSE IF c \in request[m].wants THEN [call[c] EXCEPT !.status = "validating"]
            ELSE call[c]],
         [request EXCEPT ![m].pc = "scheduling"])
  /\ UNCHANGED server

(* After a stream: scheduleToolCalls, which waits in the queue while the    *)
(* scheduler has other calls, or the wait for what is pending.              *)
ScheduleToolCalls(m) ==
  LET t == request[m].task
      working == [task[t] EXCEPT !.state = "working"]
  IN /\ request[m].pc = "streamed" /\ ~request[m].aborted /\ request[m].wants # {}
     /\ IF task[t].batch = {} THEN Schedule(m, working)
        ELSE /\ task' = [task EXCEPT ![t] = working]
             /\ request' = [request EXCEPT ![m].pc = "queued"]
             /\ UNCHANGED <<call, server>>
NothingToSchedule(m) ==
  /\ request[m].pc = "streamed" /\ ~request[m].aborted /\ request[m].wants = {}
  /\ Wait(m)
LeaveQueue(m) ==
  /\ request[m].pc = "queued" /\ ~request[m].aborted
  /\ task[request[m].task].batch = {}
  /\ Schedule(m, task[request[m].task])
AbortSeen(m) ==
  /\ request[m].pc \in {"streamed", "queued"} /\ request[m].aborted
  /\ Catch(m)

(* A proposed edit cannot be computed.                                      *)
ProposalFails(m) ==
  /\ request[m].pc = "streamed" /\ request[m].wants \cap Edits # {}
  /\ Catch(m)

Scheduled(m) ==
  /\ request[m].pc = "scheduling"
  /\ \A c \in request[m].wants : call[c].status # "validating"
  /\ Wait(m)

GetAndClearCompletedTools_Keeps(tk) == tk
GetAndClearCompletedTools(tk) == [tk EXCEPT !.completed = {}]

(* The wait is over: the results go back to the model, or into the history  *)
(* if all calls were cancelled.                                             *)
Resume(m) ==
  LET t == request[m].task
      results == task[t].completed
      taken == GetAndClearCompletedTools(task[t])
      delivered == [c \in Calls |-> IF c \in results THEN [call[c] EXCEPT !.to = m]
                                    ELSE call[c]]
  IN /\ request[m].pc = "waiting" /\ request[m].wake = "resolved"
     /\ ~request[m].aborted
     /\ call' = delivered
     /\ IF \A c \in results : call[c].status = "cancelled"
        THEN EndTurn(m, taken)
        ELSE /\ task' = [task EXCEPT ![t] = [taken EXCEPT !.state = "working"]]
             /\ request' = [request EXCEPT ![m].pc = "streaming", ![m].wants = {},
                                           ![m].wake = None]
             /\ UNCHANGED server
WaitFails(m) ==
  /\ request[m].pc = "waiting"
  /\ request[m].wake = "rejected" \/ (request[m].wake = "resolved" /\ request[m].aborted)
  /\ Catch(m)

(* The save may fail, and saves in flight may end in any order.             *)
Save(r) ==
  /\ request[r].pc = "saving"
  /\ stored' \in {stored, request[r].loaded}
  /\ request' = [request EXCEPT ![r].pc = "done", ![r].loaded = None]
  /\ UNCHANGED <<task, made, known, executing, call, restarts, canceled, replaced, late>>

-----------------------------------------------------------------------------
(* Cancellation, lost clients, crashes                                     *)

CancelTask(k) ==
  /\ request[k].pc = "new" /\ known # None
  /\ IF task[known].state \in FinalStates
     THEN request' = [request EXCEPT ![k].pc = "done"] /\ UNCHANGED <<task, canceled>>
     ELSE /\ task' = [task EXCEPT ![known] = [WithoutPending(@) EXCEPT !.state = "canceled"]]
          /\ request' = [Woken(request, known, "rejected") EXCEPT
               ![k].pc = "saving", ![k].loaded = "canceled"]
          /\ canceled' = TRUE
  /\ UNCHANGED <<made, known, executing, call, stored, restarts, replaced, late>>

(* The client's socket ends.  The signal of a message on the side is read   *)
(* by nobody: its stream ends one way or the other.                         *)
Disconnect(m) ==
  /\ request[m].primary /\ request[m].pc \notin {"saving", "done"}
  /\ ~request[m].aborted
  /\ request' = [request EXCEPT ![m].aborted = TRUE]
  /\ UNCHANGED <<task, call, server>>

(* The server crashes and is started again; only the store is left.         *)
Restart ==
  /\ restarts < MaxRestarts /\ restarts' = restarts + 1
  /\ task' = [t \in Tasks |-> FreshTask("submitted")] /\ made' = 0
  /\ known' = None /\ executing' = FALSE
  /\ request' = [r \in Requests |->
       IF request[r].pc \in {"new", "done"} THEN request[r]
       ELSE [FreshRequest EXCEPT !.pc = "done", !.ended = "crashed"]]
  /\ replaced' = FALSE /\ late' = FALSE
  /\ UNCHANGED <<call, stored, canceled>>

Execution(m) ==
  \/ CreateTask(m) \/ SaveNew(m) \/ Proceed(m) \/ StreamEnds(m) \/ SideStreamEnds(m)
  \/ StreamFails(m) \/ ScheduleToolCalls(m) \/ NothingToSchedule(m)
  \/ LeaveQueue(m) \/ AbortSeen(m) \/ ProposalFails(m) \/ Scheduled(m)
  \/ Resume(m) \/ WaitFails(m)

Next ==
  \/ \E c \in Calls : Validated(c) \/ Finished(c) \/ Answer(c)
  \/ \E m \in Messages : Arrive(m) \/ Execution(m) \/ Disconnect(m)
  \/ \E r \in Messages \cup Readers : ArriveCold(r) \/ Reconstruct(r)
  \/ \E r \in Requests : Save(r)
  \/ \E k \in Cancels : CancelTask(k)
  \/ Restart

Spec == Init /\ [][Next]_vars

(* Streams, tools and saves end, and the client answers every prompt it is  *)
(* shown.                                                                   *)
ServerStep ==
  \/ \E c \in Calls : Validated(c) \/ Finished(c) \/ Answer(c)
  \/ \E m \in Messages : Execution(m)
  \/ \E r \in Requests : Reconstruct(r) \/ Save(r)
ClientAnswers == \E c \in Calls : Arrive(c) \/ ArriveCold(c)
Fairness == WF_vars(ServerStep) /\ WF_vars(ClientAnswers)
FairSpec == Spec /\ Fairness

-----------------------------------------------------------------------------
(* Properties                                                              *)

(* A turn that ends without an abort, a failure or a cancellation has       *)
(* given the model, or the history, the result of every call it scheduled.  *)
TurnAnswersItsCalls ==
  \A c \in Calls :
    /\ call[c].status # "dropped" /\ call[c].by # None /\ ~canceled
    /\ request[call[c].by].ended = "normal"
    => call[c].to = call[c].by

(* A result goes back once, and only an abort or a cancellation delays it   *)
(* into another execution.                                                  *)
ResultsGoBackOnce ==
  [][\A c \in Calls :
       /\ call[c].to # None => call'[c].to = call[c].to
       /\ call[c].to # call'[c].to =>
            \/ call'[c].to = call[c].by
            \/ request[call[c].by].ended = "aborted" \/ canceled]_vars

(* Whatever ends an execution, the state that is left, and the state that   *)
(* is stored, do not say that the task works.  A message on the side can    *)
(* say so afterwards, as it sets the state behind awaits of its own         *)
(* (task.ts:850 and 871); then nobody takes it back before the next         *)
(* execution ends.                                                          *)
WorkingIsRunning ==
  /\ stored # "working"
  /\ known # None /\ ~replaced /\ ~canceled /\ task[known].state = "working"
     => executing \/ late

(* Every execution ends, unless its task was canceled or another request    *)
(* put a new Task in the place of its own.                                  *)
ExecutionsEnd ==
  <>[](\A m \in Messages : request[m].pc \in {"new", "done"} \/ canceled \/ replaced)

=============================================================================
