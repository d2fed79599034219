-------------------------- MODULE AgentTaskProofs --------------------------
(***************************************************************************)
(* Proofs about AgentTask, for any messages, calls, edits, readers and     *)
(* cancellations, any number of Task objects and of restarts: what a turn  *)
(* promises of the results of its calls, when a task may say that it is    *)
(* working, and that the state stays well formed.                          *)
(*                                                                         *)
(* The inductive invariant has three layers.                               *)
(*   ServerInv  the requests and the server: at most one execution is the  *)
(*              primary one, and it is there exactly when the executor     *)
(*              says that the task executes; the Task objects suffice for  *)
(*              the requests that are loading one.                         *)
(*   CallsInv   the calls: who asked for a call, in which Task it is kept, *)
(*              and that a result a Task holds was not given to the model. *)
(*              It holds however the task is canceled or put aside.        *)
(*   TurnInv    the turn of a task that was not canceled: only the running *)
(*              execution has a batch, the promise it waits for is that of *)
(*              the batch, and its calls are answered, wanted or kept.     *)
(* Each layer needs the ones before it.  For the first, a step is said by  *)
(* what it does to the requests (Quiet, Walks, Leaves, Enters, Aside).     *)
(* For the others every action has a predicate, named for it (Changes,     *)
(* Answers, Streamed, Schedules, Delivers, Caught, Begins, Passes, ...),   *)
(* that says its effect without the records and updates of the model: one  *)
(* lemma ...Is shows that the action has that effect, and the lemmas       *)
(* ...Calls and ...Turn that the effect keeps CallsInv and TurnInv.        *)
(***************************************************************************)
EXTENDS AgentTask, FiniteSetTheorems, TLAPS

-----------------------------------------------------------------------------
(* The inductive invariant                                                 *)

Working == {"streaming", "streamed", "scheduling", "queued", "waiting"}
Active == {"answering", "accepted"} \cup Working
Running(m) == request[m].primary /\ request[m].pc \in Active

(* The record a of request r, when the first n Task objects are in use.     *)
RequestOK(r, a, n) ==
  /\ a.pc \in Active \cup {"creating", "saving new"} => r \in Messages
  /\ a.pc \in Active \cup {"saving new"} => a.task \in 1..n
  /\ a.pc \in Working \ {"streaming"} => a.primary
  /\ a.pc \in {"new", "creating", "saving new", "loading"} => ~ a.primary
  /\ a.ended # None => a.pc \in {"saving", "done"}
  /\ a.wants # {} => a.pc \in {"streamed", "scheduling", "queued", "waiting"}
  /\ a.pc = "waiting" => a.wake # None
  /\ a.loaded # "working"
  /\ a.pc \in {"loading", "saving"} => a.loaded # None
RequestsOK == \A r \in Requests : RequestOK(r, request[r], made)

(* The executor knows that a task executes exactly when one execution is    *)
(* the primary one.                                                         *)
OnePrimary ==
  /\ executing <=> \E m \in Messages : Running(m)
  /\ \A m \in Messages : \A n \in Messages : Running(m) /\ Running(n) => m = n

(* The first message makes the task before there is another request.        *)
FirstTask ==
  /\ stored # None => \E r \in Requests : request[r].pc # "new"
  /\ \A m \in Messages : request[m].pc = "creating" =>
       /\ stored = None /\ known = None /\ made < MaxTasks
       /\ \A r \in Requests \ {m} : request[r].pc = "new"
  /\ \A m \in Messages : request[m].pc = "saving new" =>
       known = request[m].task /\ Loading = {}

TasksOK ==
  /\ IsFiniteSet(Loading) /\ made + Cardinality(Loading) <= MaxTasks
  /\ \A t \in Tasks : t > made => task[t] = FreshTask("submitted")

ServerInv ==
  TypeOK /\ RequestsOK /\ OnePrimary /\ FirstTask /\ TasksOK /\ stored # "working"

(* A call belongs to the execution that asked for it, which has its Task.   *)
Entering == {"new", "creating", "saving new", "loading"}
CallOK(c) ==
  /\ call[c].status = "new" <=> call[c].by = None
  /\ call[c].status \in {"new", "requested"} => call[c].to = None
  /\ call[c].by # None => request[call[c].by].pc \notin Entering
WantsOK(m) ==
  \A c \in request[m].wants :
    /\ call[c].by = m /\ call[c].status # "new"
    /\ request[m].pc \in {"streamed", "queued"} => call[c].status = "requested"

(* What a Task holds was scheduled in it, and no result was given away.     *)
HeldOK(t) ==
  /\ \A c \in task[t].batch \cup task[t].completed :
       /\ call[c].to = None
       /\ call[c].status \notin {"new", "requested", "dropped"}
       /\ request[call[c].by].task = t
  /\ \A c \in task[t].completed :
       call[c].status \in Terminal /\ c \notin task[t].batch
  /\ \A c \in task[t].details :
       /\ call[c].status \notin {"new", "requested", "dropped"}
       /\ request[call[c].by].task = t
AnswerOK(c) ==
  request[c].pc = "answering" =>
    /\ call[c].status \notin {"new", "requested", "dropped"}
    /\ request[call[c].by].task = request[c].task
CallsInv ==
  /\ \A c \in Calls : CallOK(c) /\ AnswerOK(c)
  /\ \A m \in Messages : WantsOK(m)
  /\ \A t \in Tasks : HeldOK(t)

(* The pending calls of a batch, its promise and its prompts agree.         *)
BatchOK(tk, cs) ==
  /\ tk.pending = {c \in tk.batch : cs[c].status \notin Terminal}
  /\ tk.promise = IF tk.pending = {} THEN "resolved" ELSE "open"
  /\ tk.batch # {} => tk.pending # {}
  /\ \A c \in tk.details : c \in tk.batch /\ cs[c].status = "awaiting"

(* Only the execution that runs has a batch; a result that is kept is of    *)
(* its own, while it schedules or waits, or of one that was aborted.        *)
Works(m, t) ==
  /\ Running(m) /\ request[m].task = t
  /\ request[m].pc \in {"scheduling", "waiting"}
OwnedOK(t) ==
  task[t].batch # {} =>
    \E m \in Messages : Works(m, t) /\ task[t].batch = request[m].wants
FinalOK(t) ==
  task[t].state \in FinalStates =>
    \A m \in Messages : Running(m) => request[m].task # t
Collects(m) == Running(m) /\ request[m].pc \in {"scheduling", "waiting"}
CompletedOK(t) ==
  \A c \in task[t].completed :
    Collects(call[c].by) \/ request[call[c].by].ended = "aborted"
TaskOK(t) == BatchOK(task[t], call) /\ OwnedOK(t) /\ FinalOK(t) /\ CompletedOK(t)

(* A prompt that is being answered is still open; what the execution that   *)
(* runs wants is in the batch, or complete when the batch is empty.         *)
PromptOK(m) ==
  request[m].pc = "answering" => m \in task[request[m].task].details
WorkOK(m) ==
  Running(m) =>
    LET tk == task[request[m].task] IN
    /\ request[m].pc \in {"scheduling", "waiting"} =>
         IF tk.batch = {} THEN request[m].wants \subseteq tk.completed
                          ELSE request[m].wants = tk.batch
    /\ request[m].pc = "waiting" =>
         request[m].wake = IF tk.batch = {} THEN "resolved" ELSE "asleep"
    /\ \A c \in Calls : call[c].by = m /\ call[c].status # "dropped" =>
         call[c].to = m \/ c \in request[m].wants \/ c \in tk.completed
EndedOK(m) ==
  request[m].ended = "normal" =>
    \A c \in Calls :
      call[c].by = m /\ call[c].status # "dropped" => call[c].to = m

KnownOK ==
  \A m \in Messages : Running(m) /\ ~ replaced => request[m].task = known
Rests ==
  known # None /\ ~ replaced /\ ~ executing /\ ~ late => task[known].state # "working"

TurnParts ==
  /\ \A t \in Tasks : TaskOK(t)
  /\ \A m \in Messages : PromptOK(m) /\ WorkOK(m) /\ EndedOK(m)
  /\ KnownOK /\ Rests
TurnInv == ~ canceled => TurnParts

TaskInv == ServerInv /\ CallsInv /\ TurnInv

-----------------------------------------------------------------------------
(* Types                                                                   *)

TaskMap == [Tasks -> TaskType]
RequestMap == [Requests -> RequestType]
CallMap == [Calls -> CallType]

(* The calls of a prompt and the texts are messages, and those requests.   *)
LEMMA MessagesAreRequests ==
  Calls \subseteq Messages /\ Messages \subseteq Requests /\ Users \subseteq Messages
BY DEF Messages, Requests

(* What a Task, a request and a call are at first.                         *)
LEMMA FreshTyped ==
  /\ \A s \in TaskStates : FreshTask(s) \in TaskType
  /\ FreshRequest \in RequestType
  /\ FreshCall \in CallType
BY DEF FreshTask, TaskType, FreshRequest, RequestType, Steps, FreshCall, CallType, Statuses

(* cancelPendingTools leaves a Task.                                       *)
LEMMA WithoutPendingTyped ==
  ASSUME NEW tk \in TaskType
  PROVE  WithoutPending(tk) \in TaskType
BY DEF WithoutPending, TaskType

(* A Task in another state is a Task.                                      *)
LEMMA StateTyped ==
  ASSUME NEW tk \in TaskType, NEW s \in TaskStates
  PROVE  [tk EXCEPT !.state = s] \in TaskType
BY DEF TaskType

(* The pending calls are calls of the batch.                               *)
LEMMA RegisteredTyped ==
  ASSUME NEW tk \in TaskType, NEW cs
  PROVE  Registered(tk, cs) \subseteq tk.batch /\ Registered(tk, cs) \subseteq Calls
BY DEF Registered, TaskType

(* A Task that asks for input is a Task.                                   *)
LEMMA AnnouncedTyped ==
  ASSUME NEW tk \in TaskType, NEW cs
  PROVE  Announced(tk, cs) \in TaskType
BY StateTyped DEF Announced, TaskType, TaskStates

(* _schedulerToolCallsUpdate leaves a Task.                                *)
LEMMA NotifiedTyped ==
  ASSUME NEW tk \in TaskType, NEW cs
  PROVE  Notified(tk, cs) \in TaskType
<1> DEFINE p == Registered(tk, cs)
           new == [tk EXCEPT
             !.pending = p, !.promise = IF p = {} THEN "resolved" ELSE "open",
             !.details = @ \cup {c \in p : cs[c].status = "awaiting"}]
<1>1. p \subseteq Calls
  BY RegisteredTyped
<1>2. Notified(tk, cs) = Announced(new, cs)
  BY DEF Notified
<1> HIDE DEF p
<1>3. new \in TaskType
  BY <1>1 DEF TaskType
<1> HIDE DEF new
<1> QED BY <1>2, <1>3, AnnouncedTyped

(* _schedulerAllToolCallsComplete leaves a Task.                           *)
LEMMA ReportedTyped ==
  ASSUME NEW tk \in TaskType, NEW cs
  PROVE  Reported(tk, cs) \in TaskType
BY DEF Reported, TaskType

(* attemptExecutionOfScheduledCalls leaves calls.                          *)
LEMMA StartedTyped ==
  ASSUME NEW tk, NEW cs \in CallMap
  PROVE  Started(tk, cs) \in CallMap
<1>1. \A x \in CallType : [x EXCEPT !.status = "executing"] \in CallType
  BY DEF CallType, Statuses
<1> QED BY <1>1 DEF Started, CallMap

(* The requests, when those that wait for a promise are told.              *)
LEMMA WokenTyped ==
  ASSUME NEW reqs \in RequestMap, NEW t, NEW how \in {"lost", "resolved", "rejected"}
  PROVE  Woken(reqs, t, how) \in RequestMap
<1>1. \A x \in RequestType : [x EXCEPT !.wake = how] \in RequestType
  BY DEF RequestType, Wakes
<1> QED BY <1>1 DEF Woken, RequestMap

(* The requests, when the scheduler has notified the Task.                 *)
LEMMA RewokenTyped ==
  ASSUME NEW reqs \in RequestMap, NEW t, NEW tk, NEW cs
  PROVE  Rewoken(reqs, t, tk, cs) \in RequestMap
BY WokenTyped DEF Rewoken

(* A step of the scheduler leaves Tasks, calls and requests.               *)
LEMMA SchedulerStepTyped ==
  ASSUME task \in TaskMap, NEW t \in Tasks, NEW tk \in TaskType, NEW cs \in CallMap,
         NEW reqs \in RequestMap, SchedulerStep(t, tk, cs, reqs)
  PROVE  task' \in TaskMap /\ call' \in CallMap /\ request' \in RequestMap
<1>1. call' = Started(tk, cs) /\ call' \in CallMap
  BY StartedTyped DEF SchedulerStep
<1>2. Reported(Notified(tk, call'), call') \in TaskType
  BY NotifiedTyped, ReportedTyped
<1>3. task' = [task EXCEPT ![t] = Reported(Notified(tk, call'), call')]
  BY <1>1 DEF SchedulerStep
<1>4. task' \in TaskMap
  BY <1>2, <1>3 DEF TaskMap
<1>5. request' \in RequestMap
  BY RewokenTyped DEF SchedulerStep
<1> QED BY <1>1, <1>4, <1>5

(* The states of a record with some fields changed.                         *)
LEMMA AcceptTyped ==
  ASSUME task \in TaskMap, call \in CallMap, request \in RequestMap,
         NEW m \in Messages, NEW t \in Tasks, NEW tk \in TaskType, NEW primary \in BOOLEAN,
         Accept(m, t, tk, primary)
  PROVE  task' \in TaskMap /\ call' \in CallMap /\ request' \in RequestMap
<1> DEFINE goes(pc) == [request EXCEPT ![m].pc = pc, ![m].task = t,
                          ![m].primary = primary, ![m].loaded = None]
<1>1. \A pc \in Steps : goes(pc) \in RequestMap
  <2> SUFFICES ASSUME NEW pc \in Steps PROVE goes(pc) \in RequestMap
    OBVIOUS
  <2> DEFINE rec == [request[m] EXCEPT !.pc = pc, !.task = t, !.primary = primary,
                                       !.loaded = None]
  <2>1. m \in Requests /\ request[m] \in RequestType
    BY MessagesAreRequests DEF RequestMap
  <2>2. rec \in RequestType
    BY <2>1 DEF RequestType
  <2>3. goes(pc) = [request EXCEPT ![m] = rec]
    BY <2>1 DEF goes
  <2> HIDE DEF rec
  <2> QED BY <2>1, <2>2, <2>3 DEF RequestMap
<1> HIDE DEF goes
<1>2. goes("accepted") \in RequestMap /\ goes("answering") \in RequestMap
  BY <1>1 DEF Steps
<1>3. CASE m \notin tk.details
  <2>1. task' = [task EXCEPT ![t] = tk] /\ request' = goes("accepted") /\ UNCHANGED call
    BY <1>3 DEF Accept, goes
  <2> QED BY <1>2, <2>1 DEF TaskMap
<1>4. CASE m \in tk.details
  <2>1. PICK o \in Outcomes :
               /\ call' = [call EXCEPT ![m].outcome = o]
               /\ task' = [task EXCEPT ![t] =
                     [tk EXCEPT !.skip = IF m \in Edits THEN o = "edit" ELSE @]]
    BY <1>4 DEF Accept
  <2>2. m \in Calls
    BY <1>4 DEF TaskType
  <2>3. call' \in CallMap
    BY <2>1, <2>2 DEF CallMap, CallType
  <2>4. \A b \in BOOLEAN : [tk EXCEPT !.skip = b] \in TaskType
    BY DEF TaskType
  <2>5. (IF m \in Edits THEN o = "edit" ELSE tk.skip) \in BOOLEAN
    BY DEF TaskType
  <2>6. task' \in TaskMap
    BY <2>1, <2>4, <2>5 DEF TaskMap
  <2>7. request' = goes("answering")
    BY <1>4 DEF Accept, goes
  <2> QED BY <1>2, <2>3, <2>6, <2>7
<1> QED BY <1>3, <1>4

(* execute, as it begins, leaves Tasks, calls and requests.                *)
LEMMA BeginTyped ==
  ASSUME task \in TaskMap, call \in CallMap, request \in RequestMap, executing \in BOOLEAN,
         late \in BOOLEAN, NEW m \in Messages, NEW t \in Tasks, NEW tk \in TaskType, Begin(m, t, tk)
  PROVE  task' \in TaskMap /\ call' \in CallMap /\ request' \in RequestMap
         /\ executing' \in BOOLEAN /\ late' \in BOOLEAN
<1>1. CASE tk.state \in FinalStates
  <2> DEFINE rec == [request[m] EXCEPT !.pc = "done", !.loaded = None]
  <2>1. m \in Requests /\ request[m] \in RequestType
    BY MessagesAreRequests DEF RequestMap
  <2>3. rec \in RequestType
    BY <2>1 DEF RequestType, Steps
  <2>4. [request EXCEPT ![m].pc = "done", ![m].loaded = None] = [request EXCEPT ![m] = rec]
    BY <2>1
  <2>2. [request EXCEPT ![m].pc = "done", ![m].loaded = None] \in RequestMap
    <3> HIDE DEF rec
    <3> QED BY <2>1, <2>3, <2>4 DEF RequestMap
  <2> QED BY <1>1, <2>2 DEF Begin, TaskMap
<1>2. CASE tk.state \notin FinalStates
  BY <1>2, AcceptTyped DEF Begin
<1> QED BY <1>1, <1>2

(* The end of execute leaves Tasks and requests.                           *)
LEMMA LeaveTyped ==
  ASSUME task \in TaskMap, NEW reqs \in RequestMap,
         NEW m \in Messages, request[m].task \in Tasks, NEW tk \in TaskType,
         NEW how \in {"normal", "aborted", "failed"}, Leave(m, tk, reqs, how)
  PROVE  task' \in TaskMap /\ request' \in RequestMap /\ executing' \in BOOLEAN
<1>1. m \in Requests /\ tk.state \in TaskStates
  BY MessagesAreRequests DEF TaskType
<1> DEFINE rec == [reqs[m] EXCEPT !.pc = "saving", !.loaded = tk.state, !.wants = {},
                                  !.wake = None, !.ended = how]
<1>3. reqs[m] \in RequestType
  BY <1>1 DEF RequestMap
<1>4. rec \in RequestType
  BY <1>1, <1>3 DEF RequestType, Steps, Ends
<1>5. request' = [reqs EXCEPT ![m] = rec]
  BY <1>1 DEF Leave
<1>2. request' \in RequestMap
  <2> HIDE DEF rec
  <2> QED BY <1>1, <1>4, <1>5 DEF RequestMap
<1> QED BY <1>2 DEF Leave, TaskMap

-----------------------------------------------------------------------------
(* Requests on their way                                                   *)

(* A request that stays where it is, woken or not.                          *)
StillAs(a, b) ==
  /\ a.pc = b.pc /\ a.task = b.task /\ a.primary = b.primary
  /\ a.loaded = b.loaded /\ a.wants = b.wants /\ a.ended = b.ended
  /\ a.wake = b.wake \/ (b.pc = "waiting" /\ a.wake # None)
Still(S) == \A r \in S : StillAs(request'[r], request[r])

Quiet == Still(Requests) /\ UNCHANGED server

(* The variables of the server but for the history of late messages.        *)
core == <<made, known, executing, stored, restarts, canceled, replaced>>

Walks(m) ==
  /\ Still(Requests \ {m}) /\ UNCHANGED core
  /\ request[m].pc \in Active
  /\ LET a == request'[m] IN
       /\ a.task = request[m].task /\ a.primary = request[m].primary
       /\ IF a.primary THEN a.pc \in Working \cup {"accepted"}
          ELSE a.pc \in {"accepted", "streaming", "done"}
       /\ RequestOK(m, a, made)

Leaves(m) ==
  /\ Still(Requests \ {m})
  /\ Running(m) /\ executing' = FALSE
  /\ UNCHANGED <<made, known, stored, restarts, canceled, replaced, late>>
  /\ request'[m].pc = "saving" /\ RequestOK(m, request'[m], made)

Enters(m, t) ==
  /\ Still(Requests \ {m})
  /\ request[m].pc \in {"new", "saving new", "loading"}
  /\ LET a == request'[m] IN
     /\ RequestOK(m, a, made')
     /\ \/ /\ executing' = TRUE /\ a.task = t /\ a.primary = ~ executing
           /\ a.pc \in {"accepted", "answering"}
        \/ executing' = executing /\ a.pc = "done"

(* Who waits for a promise stays where it is when the promise is settled.  *)
LEMMA WokenIs ==
  ASSUME NEW reqs \in RequestMap, NEW t, NEW how \in {"lost", "resolved", "rejected"}
  PROVE  \A r \in Requests : StillAs(Woken(reqs, t, how)[r], reqs[r])
<1> TAKE r \in Requests
<1>1. reqs[r] \in RequestType
  BY DEF RequestMap
<1>2. Woken(reqs, t, how)[r] = IF reqs[r].pc = "waiting" /\ reqs[r].task = t /\ reqs[r].wake = "asleep"
     THEN [reqs[r] EXCEPT !.wake = how] ELSE reqs[r]
  BY DEF Woken
<1>3. how # None
  BY NoneIsNoValue DEF Wakes
<1> QED BY <1>1, <1>2, <1>3 DEF StillAs, RequestType

Within == \A t \in Tasks : t > made' => task'[t] = FreshTask("submitted")

(* What holds of a request holds as long as it stays where it is.          *)
LEMMA StillOK ==
  ASSUME NEW r, NEW a, NEW b, NEW n \in Nat, NEW k \in Nat, n <= k,
         StillAs(a, b), RequestOK(r, b, n)
  PROVE  RequestOK(r, a, k)
<1>1. 1..n \subseteq 1..k
  OBVIOUS
<1>2. /\ a.pc = b.pc /\ a.task = b.task /\ a.primary = b.primary
      /\ a.loaded = b.loaded /\ a.wants = b.wants /\ a.ended = b.ended
      /\ b.pc = "waiting" => a.wake = b.wake \/ a.wake # None
  BY DEF StillAs
<1> QED BY <1>1, <1>2 DEF RequestOK

(* The requests that load a Task, when m has gone on to something else.    *)
LEMMA LoadingKept ==
  ASSUME NEW m \in Requests, Still(Requests \ {m}), request'[m].pc # "loading"
  PROVE  Loading' = Loading \ {m}
BY DEF Still, StillAs, Loading

(* How many requests load a Task, without one of them.                     *)
LEMMA LoadingCount ==
  ASSUME IsFiniteSet(Loading), NEW m
  PROVE  /\ Cardinality(Loading) \in Nat
         /\ IsFiniteSet(Loading \ {m})
         /\ Cardinality(Loading \ {m}) =
              IF m \in Loading THEN Cardinality(Loading) - 1 ELSE Cardinality(Loading)
BY FS_RemoveElement, FS_CardinalityType, FS_EmptySet

(* ServerInv when no request moves.                                        *)
LEMMA QuietKeeps ==
  ASSUME ServerInv, TypeOK', Quiet, Within
  PROVE  ServerInv'
<1>1. RequestsOK'
  BY StillOK DEF ServerInv, TypeOK, Quiet, Still, RequestsOK, server
<1>2. Loading' = Loading
  BY DEF Quiet, Still, StillAs, Loading
<1>3. OnePrimary'
  <2>1. \A m \in Messages : Running(m)' <=> Running(m)
    BY MessagesAreRequests DEF Quiet, Still, StillAs, Running
  <2> QED BY <2>1 DEF ServerInv, OnePrimary, Quiet, server
<1>4. FirstTask'
  <2>1. \A r \in Requests : request'[r].pc = request[r].pc /\ request'[r].task = request[r].task
    BY DEF Quiet, Still, StillAs
  <2> QED BY <1>2, <2>1, MessagesAreRequests DEF ServerInv, FirstTask, Quiet, server
<1>5. TasksOK' /\ (stored # "working")'
  BY <1>2 DEF ServerInv, TasksOK, Within, Quiet, server
<1> QED BY <1>1, <1>3, <1>4, <1>5 DEF ServerInv

(* ServerInv when an execution goes from one await to the next.            *)
LEMMA WalksKeeps ==
  ASSUME ServerInv, TypeOK', Within, NEW m \in Messages, Walks(m)
  PROVE  ServerInv'
<1>0. m \in Requests /\ UNCHANGED core
  BY MessagesAreRequests DEF Walks
<1>1. RequestsOK'
  <2>1. \A r \in Requests \ {m} : RequestOK(r, request'[r], made')
    BY <1>0, StillOK DEF ServerInv, TypeOK, Walks, Still, RequestsOK, core
  <2>2. RequestOK(m, request'[m], made')
    BY <1>0 DEF Walks, core
  <2> QED BY <2>1, <2>2 DEF RequestsOK
<1>2. Loading' = Loading
  <2>1. request'[m].pc # "loading" /\ m \notin Loading
    BY DEF Walks, Loading, Active, Working
  <2> QED BY <1>0, <2>1, LoadingKept DEF Walks
<1>3. OnePrimary'
  <2>1. \A n \in Messages : Running(n)' <=> Running(n)
    <3>1. \A n \in Messages \ {m} : Running(n)' <=> Running(n)
      BY MessagesAreRequests DEF Walks, Still, StillAs, Running
    <3>2. RequestOK(m, request[m], made)
      BY <1>0 DEF ServerInv, RequestsOK
    <3>3. Running(m)' <=> Running(m)
      BY <3>2 DEF Walks, Running, Active
    <3> QED BY <3>1, <3>3
  <2> QED BY <1>0, <2>1 DEF ServerInv, OnePrimary, core
<1>4. FirstTask'
  <2>1. request[m].pc \in Active /\ request'[m].pc \in Active \cup {"done"}
    BY DEF Walks, Active, Working
  <2>2. request'[m].pc \notin {"new", "creating", "saving new"}
        /\ request[m].pc \notin {"new", "creating", "saving new"}
    BY <2>1 DEF Active, Working
  <2>3. \A r \in Requests \ {m} : request'[r].pc = request[r].pc /\ request'[r].task = request[r].task
    BY DEF Walks, Still, StillAs
  <2>4. \A n \in Messages : request'[n].pc \in {"creating", "saving new"} => n # m
    BY <2>2
  <2> QED BY <1>0, <1>2, <2>2, <2>3, <2>4, MessagesAreRequests DEF ServerInv, FirstTask, core
<1>5. TasksOK' /\ (stored # "working")'
  BY <1>0, <1>2 DEF ServerInv, TasksOK, Within, core
<1> QED BY <1>1, <1>3, <1>4, <1>5 DEF ServerInv

(* ServerInv when the primary execution ends.                              *)
LEMMA LeavesKeeps ==
  ASSUME ServerInv, TypeOK', Within, NEW m \in Messages, Leaves(m)
  PROVE  ServerInv'
<1>0. m \in Requests /\ UNCHANGED <<made, known, stored>>
  BY MessagesAreRequests DEF Leaves
<1>1. RequestsOK'
  <2>1. \A r \in Requests \ {m} : RequestOK(r, request'[r], made')
    BY <1>0, StillOK DEF ServerInv, TypeOK, Leaves, Still, RequestsOK
  <2>2. RequestOK(m, request'[m], made')
    BY <1>0 DEF Leaves
  <2> QED BY <2>1, <2>2 DEF RequestsOK
<1>2. Loading' = Loading
  <2>1. request'[m].pc # "loading" /\ m \notin Loading
    BY DEF Leaves, Loading, Running, Active, Working
  <2> QED BY <1>0, <2>1, LoadingKept DEF Leaves
<1>3. OnePrimary'
  <2>1. \A n \in Messages \ {m} : ~ Running(n)
    BY DEF ServerInv, OnePrimary, Leaves
  <2>2. \A n \in Messages \ {m} : Running(n)' <=> Running(n)
    BY MessagesAreRequests DEF Leaves, Still, StillAs, Running
  <2>3. ~ Running(m)'
    BY DEF Leaves, Running, Active, Working
  <2> QED BY <2>1, <2>2, <2>3 DEF OnePrimary, Leaves
<1>4. FirstTask'
  <2>2. request'[m].pc \notin {"new", "creating", "saving new"}
        /\ request[m].pc \notin {"new", "creating", "saving new"}
    BY DEF Leaves, Running, Active, Working
  <2>3. \A r \in Requests \ {m} : request'[r].pc = request[r].pc /\ request'[r].task = request[r].task
    BY DEF Leaves, Still, StillAs
  <2>4. \A n \in Messages : request'[n].pc \in {"creating", "saving new"} => n # m
    BY <2>2
  <2> QED BY <1>0, <1>2, <2>2, <2>3, <2>4, MessagesAreRequests DEF ServerInv, FirstTask
<1>5. TasksOK' /\ (stored # "working")'
  BY <1>0, <1>2 DEF ServerInv, TasksOK, Within
<1> QED BY <1>1, <1>3, <1>4, <1>5 DEF ServerInv

(* A message comes to a Task: one the executor knows, its own new one, or   *)
(* one it has just made.                                                    *)
Found(m) ==
  \/ known # None /\ UNCHANGED <<made, known, stored>>
  \/ /\ request[m].pc = "saving new" /\ stored' \in {stored, "submitted"}
     /\ UNCHANGED <<made, known>>
  \/ request[m].pc = "loading" /\ Register /\ UNCHANGED stored

(* ServerInv when a message begins in its Task.                            *)
LEMMA EntersKeeps ==
  ASSUME ServerInv, TypeOK', Within, NEW m \in Messages, NEW t \in Tasks, Enters(m, t), Found(m)
  PROVE  ServerInv'
<1>0. m \in Requests /\ made \in Nat /\ made' \in Nat /\ made <= made'
  <2>1. m \in Requests /\ made \in Nat
    BY MessagesAreRequests, ConstantsOK DEF ServerInv, TypeOK
  <2>2. made' = made \/ made' = made + 1
    BY DEF Found, Register, NewTask
  <2> QED BY <2>1, <2>2
<1>1. RequestsOK'
  <2>1. \A r \in Requests \ {m} : RequestOK(r, request'[r], made')
    BY <1>0, StillOK DEF ServerInv, TypeOK, Enters, Still, RequestsOK
  <2>2. RequestOK(m, request'[m], made')
    BY <1>0 DEF Enters
  <2> QED BY <2>1, <2>2 DEF RequestsOK
<1>a. /\ request'[m].pc \in {"accepted", "answering", "done"}
      /\ request[m].pc \in {"new", "saving new", "loading"}
      /\ \A r \in Requests \ {m} : request'[r].pc = request[r].pc /\ request'[r].task = request[r].task
  BY DEF Enters, Still, StillAs
<1>2. Loading' = Loading \ {m}
  BY <1>0, <1>a, LoadingKept DEF Enters
<1>3. OnePrimary'
  <2>1. \A n \in Messages \ {m} : Running(n)' <=> Running(n)
    BY MessagesAreRequests DEF Enters, Still, StillAs, Running
  <2>2. RequestOK(m, request[m], made)
    BY <1>0 DEF ServerInv, RequestsOK
  <2>3. ~ Running(m)
    BY <1>a DEF Running, Active, Working
  <2>4. CASE executing' = TRUE /\ request'[m].primary = ~ executing
             /\ request'[m].pc \in {"accepted", "answering"}
    <3>1. Running(m)' <=> ~ executing
      BY <2>4 DEF Running, Active, Working
    <3>2. executing \in BOOLEAN
      BY DEF ServerInv, TypeOK
    <3>3. executing => \E n \in Messages \ {m} : Running(n)
      BY <2>3 DEF ServerInv, OnePrimary
    <3> QED BY <2>1, <2>3, <2>4, <3>1, <3>2, <3>3 DEF ServerInv, OnePrimary
  <2>5. CASE executing' = executing /\ request'[m].pc = "done"
    <3>1. ~ Running(m)'
      BY <2>5 DEF Running, Active, Working
    <3> QED BY <2>1, <2>3, <2>5, <3>1 DEF ServerInv, OnePrimary
  <2> QED BY <2>4, <2>5 DEF Enters
<1>4. FirstTask'
  <2>1. \A n \in Messages : n # m => request[n].pc # "creating"
    <3>1. request[m].pc = "new" => known # None
      BY DEF Found
    <3> QED BY <1>0, <1>a, <3>1, MessagesAreRequests DEF ServerInv, FirstTask
  <2>2. \A n \in Messages : n # m /\ request[n].pc = "saving new" =>
           UNCHANGED <<made, known>> /\ Loading = {}
    <3> SUFFICES ASSUME NEW n \in Messages, n # m, request[n].pc = "saving new"
                 PROVE  UNCHANGED <<made, known>> /\ Loading = {}
      OBVIOUS
    <3>1. Loading = {}
      BY DEF ServerInv, FirstTask
    <3> QED BY <1>0, <3>1 DEF Found, Loading
  <2>3. \E r \in Requests : request'[r].pc # "new"
    BY <1>0, <1>a
  <2> QED BY <1>a, <1>2, <2>1, <2>2, <2>3, MessagesAreRequests DEF ServerInv, FirstTask
<1>5. (stored # "working")'
  BY DEF Found, ServerInv
<1>6. TasksOK'
  <2>1. m \in Loading <=> request[m].pc = "loading"
    BY <1>0 DEF Loading
  <2>2. IsFiniteSet(Loading) /\ made + Cardinality(Loading) <= MaxTasks
    BY DEF ServerInv, TasksOK
  <2>3. made' = made \/ (m \in Loading /\ made' = made + 1)
    BY <2>1 DEF Found, Register, NewTask
  <2>4. MaxTasks \in Nat
    BY ConstantsOK
  <2>5. IsFiniteSet(Loading') /\ made' + Cardinality(Loading') <= MaxTasks
    BY <1>0, <1>2, <2>2, <2>3, <2>4, LoadingCount
  <2> QED BY <2>5 DEF TasksOK, Within
<1> QED BY <1>1, <1>3, <1>4, <1>5, <1>6 DEF ServerInv

-----------------------------------------------------------------------------
(* The scheduler of a Task                                                 *)

Typed == task' \in TaskMap /\ call' \in CallMap /\ request' \in RequestMap

(* The scheduler moves no request.                                         *)
LEMMA RewokenIs ==
  ASSUME NEW reqs \in RequestMap, NEW t, NEW tk, NEW cs
  PROVE  \A r \in Requests : StillAs(Rewoken(reqs, t, tk, cs)[r], reqs[r])
<1>1. /\ \A r \in Requests : StillAs(Woken(reqs, t, "resolved")[r], reqs[r])
      /\ \A r \in Requests : StillAs(Woken(reqs, t, "lost")[r], reqs[r])
  BY WokenIs
<1>2. \A r \in Requests : StillAs(reqs[r], reqs[r])
  BY DEF StillAs
<1> QED BY <1>1, <1>2 DEF Rewoken

(* The types of the state, by the names they have here.                    *)
LEMMA TypeIs ==
  TypeOK <=> /\ task \in TaskMap /\ request \in RequestMap /\ call \in CallMap
             /\ made \in 0..MaxTasks /\ known \in Tasks \cup {None}
             /\ known # None => known <= made
             /\ executing \in BOOLEAN /\ stored \in TaskStates \cup {None}
             /\ restarts \in 0..MaxRestarts
             /\ canceled \in BOOLEAN /\ replaced \in BOOLEAN /\ late \in BOOLEAN
BY DEF TypeOK, TaskMap, RequestMap, CallMap

(* The Task objects in use are some of the Tasks.                          *)
LEMMA Made ==
  ASSUME TypeOK
  PROVE  made \in Nat /\ 1..made \subseteq Tasks /\ MaxTasks \in Nat
         /\ \A t \in Tasks : t <= made => t \in 1..made
BY ConstantsOK DEF TypeOK, Tasks

(* A Task in use may change, the others are still fresh.                   *)
LEMMA OneTaskWithin ==
  ASSUME TypeOK, TasksOK, NEW t \in 1..made, UNCHANGED made,
         \A u \in Tasks \ {t} : task'[u] = task[u]
  PROVE  Within
BY Made DEF Within, TasksOK

(* A step of the scheduler changes one Task and moves no request.          *)
LEMMA SchedulerStepKeeps ==
  ASSUME TypeOK, TasksOK, NEW t \in 1..made, NEW tk \in TaskType, NEW cs \in CallMap,
         NEW reqs \in RequestMap, SchedulerStep(t, tk, cs, reqs), UNCHANGED made
  PROVE  Typed /\ Within /\ \A r \in Requests : StillAs(request'[r], reqs[r])
<1>1. t \in Tasks /\ task \in TaskMap
  BY Made, TypeIs
<1>2. Typed
  BY <1>1, SchedulerStepTyped DEF Typed
<1>3. \A u \in Tasks \ {t} : task'[u] = task[u]
  BY <1>1 DEF SchedulerStep, TaskMap
<1>4. Within
  BY <1>3, OneTaskWithin
<1>5. \A r \in Requests : StillAs(request'[r], reqs[r])
  BY RewokenIs DEF SchedulerStep
<1> QED BY <1>2, <1>4, <1>5

(* A call with another status is a call.                                   *)
LEMMA StatusTyped ==
  ASSUME call \in CallMap, NEW c \in Calls, NEW s \in Statuses
  PROVE  [call EXCEPT ![c].status = s] \in CallMap
<1>1. [call[c] EXCEPT !.status = s] \in CallType
  BY DEF CallMap, CallType
<1> QED BY <1>1 DEF CallMap

(* A call of a batch has its Task.                                         *)
LEMMA LiveHasATask ==
  ASSUME ServerInv, NEW c \in Calls, Live(c)
  PROVE  TaskOf(c) \in 1..made /\ call[c].by \in Messages /\ TaskOf(c) \in Tasks
         /\ task[TaskOf(c)] \in TaskType
<1>1. call[c] \in CallType
  BY DEF ServerInv, TypeOK
<1>2. call[c].by \in Messages
  BY <1>1 DEF Live, CallType
<1>3. request[call[c].by] \in RequestType
  BY <1>2, MessagesAreRequests DEF ServerInv, TypeOK
<1>4. TaskOf(c) \in Tasks
  BY <1>3 DEF Live, TaskOf, RequestType
<1>5. task[TaskOf(c)] # FreshTask("submitted")
  <2>1. FreshTask("submitted").batch = {}
    BY DEF FreshTask
  <2> QED BY <2>1 DEF Live
<1>6. TaskOf(c) <= made
  BY <1>4, <1>5, Made DEF ServerInv, TasksOK, Tasks
<1> QED BY <1>2, <1>4, <1>6, Made DEF ServerInv, TypeOK

(* A call that changes its status moves no request.                        *)
LEMMA BecomesIsQuiet ==
  ASSUME ServerInv, NEW c \in Calls, Live(c), NEW s \in Statuses, Becomes(c, s), UNCHANGED server
  PROVE  Typed /\ Within /\ Quiet
<1>1. TaskOf(c) \in 1..made /\ task[TaskOf(c)] \in TaskType
  BY LiveHasATask
<1>2. request \in RequestMap /\ call \in CallMap /\ TypeOK /\ TasksOK
  BY TypeIs DEF ServerInv
<1>3. [call EXCEPT ![c].status = s] \in CallMap
  BY <1>2, StatusTyped
<1> QED BY <1>1, <1>2, <1>3, SchedulerStepKeeps DEF Becomes, Quiet, Still, server

(* TypeOK from the types of the Tasks, the calls and the requests.         *)
LEMMA ServerStays ==
  ASSUME TypeOK, UNCHANGED server, Typed PROVE TypeOK'
BY TypeIs DEF server, Typed, TypeOK, TaskMap, CallMap, RequestMap

(* ServerInv when a call is validated or has run.                          *)
LEMMA ValidatedKeeps ==
  ASSUME ServerInv, NEW c \in Calls, Validated(c) \/ Finished(c)
  PROVE  ServerInv'
<1>1. PICK s \in Statuses : Becomes(c, s)
  BY DEF Validated, Finished, Statuses, Terminal
<1>2. Live(c) /\ UNCHANGED server
  BY DEF Validated, Finished
<1>3. Typed /\ Within /\ Quiet
  BY <1>1, <1>2, BecomesIsQuiet
<1> QED BY <1>2, <1>3, ServerStays, QuietKeeps DEF ServerInv

-----------------------------------------------------------------------------
(* A message begins                                                        *)

(* The record of a request, and what holds of it.                          *)
LEMMA RequestIs ==
  ASSUME request \in RequestMap, NEW m \in Requests, NEW rec,
         request' = [request EXCEPT ![m] = rec]
  PROVE  request'[m] = rec /\ Still(Requests \ {m})
BY DEF RequestMap, Still, StillAs

(* acceptUserMessage puts the message where it belongs.                    *)
LEMMA AcceptEnters ==
  ASSUME request \in RequestMap, NEW m \in Messages, NEW t, t \in 1..made', NEW tk,
         NEW primary \in BOOLEAN, Accept(m, t, tk, primary),
         RequestOK(m, request[m], made), request[m].pc \in {"new", "saving new", "loading"}
  PROVE  /\ Still(Requests \ {m}) /\ RequestOK(m, request'[m], made')
         /\ request'[m].task = t /\ request'[m].primary = primary
         /\ request'[m].pc \in {"accepted", "answering"}
<1> DEFINE rec(pc) == [request[m] EXCEPT !.pc = pc, !.task = t, !.primary = primary,
                                         !.loaded = None]
<1>1. m \in Requests /\ request[m] \in RequestType
  BY MessagesAreRequests DEF RequestMap
<1>2. PICK pc \in {"accepted", "answering"} :
        request' = [request EXCEPT ![m].pc = pc, ![m].task = t, ![m].primary = primary, ![m].loaded = None]
  BY DEF Accept
<1>3. request' = [request EXCEPT ![m] = rec(pc)]
  BY <1>1, <1>2
<1>4. /\ rec(pc).pc = pc /\ rec(pc).task = t /\ rec(pc).primary = primary
      /\ rec(pc).loaded = None /\ rec(pc).wants = request[m].wants
      /\ rec(pc).ended = request[m].ended
  BY <1>1 DEF RequestType
<1>5. request'[m] = rec(pc) /\ Still(Requests \ {m})
  <2> HIDE DEF rec
  <2> QED BY <1>1, <1>3, RequestIs
<1> HIDE DEF rec
<1>6. None # "working"
  BY NoneIsNoValue DEF TaskStates
<1>7. request[m].ended = None /\ request[m].wants = {}
  BY DEF RequestOK
<1>8. RequestOK(m, rec(pc), made')
  BY <1>2, <1>4, <1>6, <1>7 DEF RequestOK, Active, Working
<1> QED BY <1>2, <1>4, <1>5, <1>8

(* execute puts the message where it belongs.                              *)
LEMMA BeginEnters ==
  ASSUME request \in RequestMap, executing \in BOOLEAN, made \in Nat, made' \in Nat, made <= made',
         NEW m \in Messages, NEW t, t \in 1..made', NEW tk, Begin(m, t, tk),
         RequestOK(m, request[m], made), request[m].pc \in {"new", "saving new", "loading"}
  PROVE  Enters(m, t)
<1>1. CASE tk.state \in FinalStates
  <2> DEFINE rec == [request[m] EXCEPT !.pc = "done", !.loaded = None]
  <2>1. m \in Requests /\ request[m] \in RequestType
    BY MessagesAreRequests DEF RequestMap
  <2>2. request' = [request EXCEPT ![m] = rec] /\ executing' = executing
    BY <1>1, <2>1 DEF Begin
  <2>3. /\ rec.pc = "done" /\ rec.loaded = None /\ rec.wants = request[m].wants
        /\ rec.ended = request[m].ended
    BY <2>1 DEF RequestType
  <2> HIDE DEF rec
  <2>4. request'[m] = rec /\ Still(Requests \ {m})
    BY <2>1, <2>2, RequestIs
  <2>5. None # "working"
    BY NoneIsNoValue DEF TaskStates
  <2>6. request[m].ended = None /\ request[m].wants = {}
    BY DEF RequestOK
  <2>7. RequestOK(m, rec, made')
    BY <2>3, <2>5, <2>6 DEF RequestOK, Active, Working
  <2> QED BY <2>2, <2>3, <2>4, <2>7 DEF Enters
<1>2. CASE tk.state \notin FinalStates
  <2>1. executing' = TRUE /\ Accept(m, t, tk, ~ executing) /\ (~ executing) \in BOOLEAN
    BY <1>2 DEF Begin
  <2>2. /\ Still(Requests \ {m}) /\ RequestOK(m, request'[m], made')
        /\ request'[m].task = t /\ request'[m].primary = ~ executing
        /\ request'[m].pc \in {"accepted", "answering"}
    BY <2>1, AcceptEnters
  <2> QED BY <2>1, <2>2 DEF Enters
<1> QED BY <1>1, <1>2

(* There is room for the Task of a request that is loading.                *)
LEMMA OneMore ==
  ASSUME NEW a \in Nat, NEW M \in Nat, NEW S, IsFiniteSet(S), S # {}, a + Cardinality(S) <= M
  PROVE  a + 1 <= M
<1>1. Cardinality(S) \in Nat
  BY FS_CardinalityType
<1>2. Cardinality(S) # 0
  BY FS_EmptySet
<1> QED BY <1>1, <1>2

(* A message that begins changes the Task it is for.                       *)
LEMMA BeginWithin ==
  ASSUME NEW m, NEW t, NEW tk, Begin(m, t, tk), task \in TaskMap
  PROVE  \A u \in Tasks \ {t} : task'[u] = task[u]
BY DEF Begin, Accept, TaskMap

(* The numbers of Task objects are numbers.                                *)
LEMMA TaskCount ==
  ASSUME TypeOK, TasksOK
  PROVE  made \in Nat /\ made <= MaxTasks /\ MaxTasks \in Nat
         /\ made + Cardinality(Loading) <= MaxTasks /\ IsFiniteSet(Loading)
<1>1. MaxTasks \in Nat
  BY ConstantsOK
<1>2. made \in 0..MaxTasks
  BY DEF TypeOK
<1> QED BY <1>1, <1>2 DEF TasksOK

(* The Tasks known to a request or the executor are in use.                *)
LEMMA TasksAreMade ==
  ASSUME TypeOK, TasksOK, NEW m \in Requests, Found(m)
  PROVE  /\ made \in Nat /\ made' \in Nat /\ made' \in 0..MaxTasks /\ made <= made'
         /\ known' \in Tasks \cup {None}
         /\ known' # None => known' <= made'
<1>0. made \in Nat /\ made <= MaxTasks /\ MaxTasks \in Nat
      /\ made + Cardinality(Loading) <= MaxTasks /\ IsFiniteSet(Loading)
  BY TaskCount
<1>1. CASE request[m].pc = "loading" /\ Register
  <2>1. Loading # {}
    BY <1>1 DEF Loading
  <2>2. made + 1 <= MaxTasks
    BY <1>0, <2>1, OneMore
  <2>3. made' = made + 1 /\ known' = made + 1
    BY <1>1 DEF Register, NewTask
  <2>4. made + 1 \in Tasks
    BY <1>0, <2>2 DEF Tasks
  <2> QED BY <1>0, <2>2, <2>3, <2>4
<1>2. CASE UNCHANGED <<made, known>>
  <2>1. known \in Tasks \cup {None} /\ (known # None => known <= made)
    BY DEF TypeOK
  <2> QED BY <1>0, <1>2, <2>1
<1> QED BY <1>1, <1>2 DEF Found

(* A Task that will be fresh is fresh now.                                 *)
LEMMA Later ==
  ASSUME NEW a \in Nat, NEW b \in Nat, a <= b, NEW t \in 1..b
  PROVE  \A u \in Tasks : u > b => u > a /\ u # t
<1>1. \A u \in Tasks : u \in Nat
  BY ConstantsOK DEF Tasks
<1> QED BY <1>1

OthersTyped == stored' \in TaskStates \cup {None} /\ UNCHANGED <<restarts, canceled>>
               /\ replaced' \in BOOLEAN

(* ServerInv when a message begins in its Task.                            *)
LEMMA BeginKeeps ==
  ASSUME ServerInv, NEW m \in Messages, NEW t \in Tasks, t \in 1..made', NEW tk \in TaskType, Begin(m, t, tk),
         request[m].pc \in {"new", "saving new", "loading"}, Found(m),
         OthersTyped
  PROVE  ServerInv'
<1>1. TypeOK /\ TasksOK /\ task \in TaskMap /\ request \in RequestMap /\ call \in CallMap
      /\ executing \in BOOLEAN /\ restarts \in 0..MaxRestarts /\ canceled \in BOOLEAN
      /\ late \in BOOLEAN
  BY TypeIs DEF ServerInv
<1>2. m \in Requests /\ RequestOK(m, request[m], made)
  BY MessagesAreRequests DEF ServerInv, RequestsOK
<1>3. /\ made \in Nat /\ made' \in Nat /\ made' \in 0..MaxTasks /\ made <= made'
      /\ known' \in Tasks \cup {None}
      /\ known' # None => known' <= made'
  BY <1>1, <1>2, TasksAreMade
<1>3a. \A u \in Tasks : u > made' => u > made /\ u # t
  BY <1>3, Later
<1>5. task' \in TaskMap /\ call' \in CallMap /\ request' \in RequestMap /\ executing' \in BOOLEAN
      /\ late' \in BOOLEAN
  BY <1>1, BeginTyped
<1>6. Enters(m, t)
  BY <1>1, <1>2, <1>3, <1>3a, BeginEnters
<1>7. Within
  <2>1. \A u \in Tasks \ {t} : task'[u] = task[u]
    BY <1>1, BeginWithin
  <2> QED BY <1>1, <1>3a, <2>1 DEF Within, TasksOK
<1>8. TypeOK'
  BY <1>1, <1>3, <1>5 DEF TypeOK, TaskMap, RequestMap, CallMap, OthersTyped
<1> QED BY <1>6, <1>7, <1>8, EntersKeeps

(* ServerInv when a message arrives at a task in memory.                   *)
LEMMA ArriveKeeps ==
  ASSUME ServerInv, NEW m \in Messages, Arrive(m)
  PROVE  ServerInv'
<1>1. known \in Tasks /\ known \in 1..made' /\ task[known] \in TaskType
      /\ OthersTyped
  BY Made DEF ServerInv, TypeOK, Arrive, OthersTyped
<1>2. Found(m)
  BY DEF Arrive, Found
<1> QED BY <1>1, <1>2, BeginKeeps DEF Arrive

(* ServerInv when the new task has been saved.                             *)
LEMMA SaveNewKeeps ==
  ASSUME ServerInv, NEW m \in Messages, SaveNew(m)
  PROVE  ServerInv'
<1> DEFINE t == request[m].task
<1>1. m \in Requests /\ request[m].pc = "saving new" /\ Begin(m, t, task[t])
  BY MessagesAreRequests DEF SaveNew
<1>2. t \in 1..made /\ t \in Tasks /\ made' = made
  BY <1>1, Made DEF ServerInv, RequestsOK, RequestOK, SaveNew
<1>3. task[t] \in TaskType /\ stored \in TaskStates \cup {None} /\ replaced \in BOOLEAN
  BY <1>2 DEF ServerInv, TypeOK
<1>4. OthersTyped /\ Found(m)
  BY <1>1, <1>3 DEF SaveNew, Found, TaskStates, OthersTyped
<1> QED BY <1>1, <1>2, <1>3, <1>4, BeginKeeps DEF SaveNew

-----------------------------------------------------------------------------
(* Requests that find no Task                                              *)

NoneIs(pc) == \A m \in Messages : request[m].pc # pc

(* A request is loading, ignored, or being saved, and executes nothing.     *)
Aside(r) ==
  /\ Still(Requests \ {r}) /\ UNCHANGED executing
  /\ request[r].pc \in {"new", "loading", "saving"}
  /\ request'[r].pc \in {"loading", "saving", "done"}
  /\ RequestOK(r, request'[r], made')
  /\ stored' # "working" /\ NoneIs("creating")
  /\ NoneIs("saving new") \/ (UNCHANGED known /\ request'[r].pc # "loading")

Loads(r) ==
  \/ UNCHANGED made /\ request'[r].pc # "loading"
  \/ UNCHANGED made /\ request[r].pc # "loading" /\ made + Cardinality(Loading) < MaxTasks
  \/ request[r].pc = "loading" /\ request'[r].pc # "loading" /\ made' = made + 1

(* One more request is loading.                                            *)
LEMMA AddedCount ==
  ASSUME NEW S, IsFiniteSet(S), NEW x, NEW n \in Nat, NEW k \in Nat, n + Cardinality(S) < k, x \notin S
  PROVE  IsFiniteSet(S \cup {x}) /\ n + Cardinality(S \cup {x}) <= k
<1>1. Cardinality(S) \in Nat
  BY FS_CardinalityType
<1>2. IsFiniteSet(S \cup {x}) /\ Cardinality(S \cup {x}) = Cardinality(S) + 1
  BY FS_AddElement
<1> QED BY <1>1, <1>2

(* One request less is loading.                                            *)
LEMMA RemovedCount ==
  ASSUME NEW S, IsFiniteSet(S), NEW x, NEW n \in Nat, NEW i \in Nat, NEW k \in Nat,
         n + Cardinality(S) <= k, i = n \/ (x \in S /\ i = n + 1)
  PROVE  IsFiniteSet(S \ {x}) /\ i + Cardinality(S \ {x}) <= k
<1>1. Cardinality(S) \in Nat
  BY FS_CardinalityType
<1>2. IsFiniteSet(S \ {x})
      /\ Cardinality(S \ {x}) = IF x \in S THEN Cardinality(S) - 1 ELSE Cardinality(S)
  BY FS_RemoveElement
<1> QED BY <1>1, <1>2

(* How many requests load a Task, when one comes or goes.                  *)
LEMMA LoadingGoes ==
  ASSUME TypeOK, TasksOK, NEW r \in Requests, Still(Requests \ {r}), Loads(r)
  PROVE  IsFiniteSet(Loading') /\ made' + Cardinality(Loading') <= MaxTasks
<1>0. made \in Nat /\ made <= MaxTasks /\ MaxTasks \in Nat
      /\ made + Cardinality(Loading) <= MaxTasks /\ IsFiniteSet(Loading)
  BY TaskCount
<1>1. CASE request'[r].pc # "loading"
  <2>1. Loading' = Loading \ {r}
    BY <1>1, LoadingKept
  <2>2. made' \in Nat /\ (made' = made \/ (r \in Loading /\ made' = made + 1))
    BY <1>0, <1>1 DEF Loads, Loading
  <2>3. IsFiniteSet(Loading \ {r}) /\ made' + Cardinality(Loading \ {r}) <= MaxTasks
    BY <1>0, <2>2, RemovedCount
  <2> QED BY <2>1, <2>3
<1>2. CASE request'[r].pc = "loading"
  <2>1. made' = made /\ request[r].pc # "loading" /\ made + Cardinality(Loading) < MaxTasks
    BY <1>2 DEF Loads
  <2>2. Loading' = Loading \cup {r} /\ r \notin Loading
    BY <1>2, <2>1 DEF Still, StillAs, Loading
  <2>3. IsFiniteSet(Loading \cup {r}) /\ made + Cardinality(Loading \cup {r}) <= MaxTasks
    BY <1>0, <2>1, <2>2, AddedCount
  <2> QED BY <2>1, <2>2, <2>3
<1> QED BY <1>1, <1>2

(* ServerInv when a request moves that executes nothing.                   *)
LEMMA AsideKeeps ==
  ASSUME ServerInv, TypeOK', Within, NEW r \in Requests, Aside(r), Loads(r)
  PROVE  ServerInv'
<1>0. made \in Nat /\ made' \in Nat /\ made <= made'
  <2>1. made \in Nat
    BY Made DEF ServerInv
  <2>2. made' = made \/ made' = made + 1
    BY DEF Loads
  <2> QED BY <2>1, <2>2
<1>1. RequestsOK'
  <2>1. \A q \in Requests \ {r} : RequestOK(q, request'[q], made')
    BY <1>0, StillOK DEF ServerInv, Aside, Still, RequestsOK
  <2> QED BY <2>1 DEF RequestsOK, Aside
<1>a. \A q \in Requests \ {r} : request'[q].pc = request[q].pc /\ request'[q].task = request[q].task
  BY DEF Aside, Still, StillAs
<1>b. request'[r].pc \in {"loading", "saving", "done"} /\ request[r].pc \in {"new", "loading", "saving"}
  BY DEF Aside
<1>3. OnePrimary'
  <2>1. \A n \in Messages \ {r} : Running(n)' <=> Running(n)
    BY MessagesAreRequests DEF Aside, Still, StillAs, Running
  <2>2. r \in Messages => ~ Running(r) /\ ~ Running(r)'
    BY <1>b DEF Running, Active, Working
  <2>3. \A n \in Messages : Running(n)' <=> Running(n)
    BY <2>1, <2>2
  <2> QED BY <2>3 DEF ServerInv, OnePrimary, Aside
<1>4. FirstTask'
  <2>1. \E q \in Requests : request'[q].pc # "new"
    BY <1>b
  <2>2. \A n \in Messages : request'[n].pc \notin {"creating"}
    BY <1>a, <1>b, MessagesAreRequests DEF Aside, NoneIs
  <2>3. ASSUME NEW n \in Messages, request'[n].pc = "saving new"
        PROVE  known' = request'[n].task /\ Loading' = {}
    <3>1. n # r /\ request[n].pc = "saving new" /\ request'[n].task = request[n].task
      BY <1>a, <1>b, <2>3, MessagesAreRequests
    <3>2. known' = known /\ request'[r].pc # "loading"
      BY <3>1 DEF Aside, NoneIs
    <3>3. known = request[n].task /\ Loading = {}
      BY <3>1 DEF ServerInv, FirstTask
    <3>4. Loading' = Loading \ {r}
      BY <3>2, LoadingKept DEF Aside
    <3> QED BY <3>1, <3>2, <3>3, <3>4
  <2> QED BY <2>1, <2>2, <2>3 DEF FirstTask
<1>5. TasksOK'
  <2>1. IsFiniteSet(Loading') /\ made' + Cardinality(Loading') <= MaxTasks
    BY LoadingGoes DEF Aside, ServerInv
  <2> QED BY <2>1 DEF TasksOK, Within
<1> QED BY <1>1, <1>3, <1>4, <1>5 DEF ServerInv, Aside

(* The requests, when one has another record.                              *)
LEMMA RecordTyped ==
  ASSUME request \in RequestMap, NEW r \in Requests, NEW rec \in RequestType,
         request' = [request EXCEPT ![r] = rec]
  PROVE  request' \in RequestMap
BY DEF RequestMap

(* The parts of ServerInv, for every request, call and Task.               *)
LEMMA Parts ==
  ASSUME ServerInv
  PROVE  /\ TypeOK /\ RequestsOK /\ OnePrimary /\ FirstTask /\ TasksOK /\ stored # "working"
         /\ task \in TaskMap /\ request \in RequestMap /\ call \in CallMap
         /\ \A r \in Requests : request[r] \in RequestType /\ RequestOK(r, request[r], made)
BY TypeIs DEF ServerInv, RequestsOK, RequestMap

(* Where a request may be that executes nothing.                           *)
LEMMA AtRest ==
  ASSUME ServerInv
  PROVE  /\ known # None => NoneIs("creating")
         /\ known = None => NoneIs("saving new")
         /\ (\E r \in Requests : request[r].pc \in {"loading", "saving"}) => NoneIs("creating")
         /\ Loading # {} => NoneIs("saving new")
<1>0. FirstTask /\ RequestsOK /\ TypeOK
  BY DEF ServerInv
<1>1. known # None => NoneIs("creating")
  BY <1>0 DEF FirstTask, NoneIs
<1>2. known = None => NoneIs("saving new")
  <2> SUFFICES ASSUME NEW m \in Messages, request[m].pc = "saving new" PROVE known # None
    BY DEF NoneIs
  <2>1. request[m].task \in 1..made /\ known = request[m].task
    BY <1>0, MessagesAreRequests DEF FirstTask, RequestsOK, RequestOK
  <2> QED BY <1>0, <2>1, Made, NoneIsNoValue
<1>3. (\E r \in Requests : request[r].pc \in {"loading", "saving"}) => NoneIs("creating")
  BY <1>0 DEF FirstTask, NoneIs
<1>4. Loading # {} => NoneIs("saving new")
  BY <1>0 DEF FirstTask, NoneIs
<1> QED BY <1>1, <1>2, <1>3, <1>4

(* TypeOK from the types of its parts after the step.                      *)
LEMMA ServerTyped ==
  ASSUME TypeOK, Typed, made' \in 0..MaxTasks, known' \in Tasks \cup {None},
         known' # None => known' <= made', executing' \in BOOLEAN,
         stored' \in TaskStates \cup {None}, restarts' \in 0..MaxRestarts,
         canceled' \in BOOLEAN, replaced' \in BOOLEAN, late' \in BOOLEAN
  PROVE  TypeOK'
BY DEF TypeOK, Typed, TaskMap, RequestMap, CallMap

(* ServerInv when a request finds no Task in memory.                       *)
LEMMA ArriveColdKeeps ==
  ASSUME ServerInv, NEW r \in Messages \cup Readers, ArriveCold(r)
  PROVE  ServerInv'
<1>0. /\ r \in Requests /\ request[r].pc = "new" /\ known = None /\ UNCHANGED <<task, call, server>>
      /\ made + Cardinality(Loading) < MaxTasks
  BY MessagesAreRequests DEF ArriveCold, Requests
<1>1. /\ TypeOK /\ task \in TaskMap /\ request \in RequestMap /\ call \in CallMap
      /\ TasksOK /\ FirstTask /\ stored # "working"
      /\ RequestOK(r, request[r], made) /\ request[r] \in RequestType
  BY <1>0, Parts
<1>w. Within
  BY <1>0, <1>1 DEF Within, TasksOK, server
<1>2. CASE stored # None /\ request' = [request EXCEPT ![r].pc = "loading", ![r].loaded = stored]
  <2> DEFINE rec == [request[r] EXCEPT !.pc = "loading", !.loaded = stored]
  <2>1. request' = [request EXCEPT ![r] = rec]
    BY <1>0, <1>2
  <2>2. rec \in RequestType
    BY <1>1 DEF RequestType, TypeOK, Steps
  <2>3. /\ rec.pc = "loading" /\ rec.loaded = stored /\ rec.wants = request[r].wants
        /\ rec.ended = request[r].ended /\ rec.primary = request[r].primary
    BY <1>1 DEF RequestType
  <2> HIDE DEF rec
  <2>4. request' \in RequestMap /\ request'[r] = rec /\ Still(Requests \ {r})
    BY <1>0, <1>1, <2>1, <2>2, RecordTyped, RequestIs
  <2>5. TypeOK'
    BY <1>0, <1>1, <2>4, ServerStays DEF Typed
  <2>6. RequestOK(r, rec, made)
    BY <1>0, <1>1, <1>2, <2>3 DEF RequestOK, Active, Working
  <2>7. NoneIs("creating")
    BY <1>1, <1>2 DEF FirstTask, NoneIs
  <2>8. NoneIs("saving new")
    BY <1>0, AtRest
  <2>9. Aside(r) /\ Loads(r)
    BY <1>0, <1>1, <2>3, <2>4, <2>6, <2>7, <2>8 DEF Aside, Loads, server
  <2> QED BY <1>0, <1>w, <2>5, <2>9, AsideKeeps
<1>3. CASE /\ r \in Users /\ \A q \in Requests : request[q].pc = "new"
           /\ request' = [request EXCEPT ![r].pc = "creating"]
  <2> DEFINE rec == [request[r] EXCEPT !.pc = "creating"]
  <2>1. request' = [request EXCEPT ![r] = rec]
    BY <1>0, <1>3
  <2>2. rec \in RequestType
    BY <1>1 DEF RequestType, Steps
  <2>3. /\ rec.pc = "creating" /\ rec.loaded = request[r].loaded /\ rec.wants = request[r].wants
        /\ rec.ended = request[r].ended /\ rec.primary = request[r].primary
    BY <1>1 DEF RequestType
  <2> HIDE DEF rec
  <2>4. request' \in RequestMap /\ request'[r] = rec /\ Still(Requests \ {r})
    BY <1>0, <1>1, <2>1, <2>2, RecordTyped, RequestIs
  <2>5. TypeOK'
    BY <1>0, <1>1, <2>4, ServerStays DEF Typed
  <2>6. RequestOK(r, rec, made)
    BY <1>0, <1>1, <1>3, <2>3, MessagesAreRequests DEF RequestOK, Active, Working
  <2>7. RequestsOK'
    <3>1. \A q \in Requests \ {r} : RequestOK(q, request'[q], made')
      BY <1>0, <1>1, <2>4, StillOK, Parts, Made DEF Still, server
    <3> QED BY <1>0, <2>4, <2>6, <3>1 DEF RequestsOK, server
  <2>8. \A q \in Requests \ {r} : request'[q].pc = "new"
    BY <1>3, <2>4 DEF Still, StillAs
  <2>9. OnePrimary'
    <3>1. \A n \in Messages : ~ Running(n) /\ ~ Running(n)'
      BY <1>3, <2>3, <2>4, <2>8, MessagesAreRequests DEF Running, Active, Working
    <3> QED BY <1>0, <3>1, Parts DEF OnePrimary, server
  <2>10. stored = None
    BY <1>1, <1>3 DEF FirstTask
  <2>11. Loading = {}
    BY <1>3 DEF Loading
  <2>11a. Loading' = {}
    BY <2>3, <2>4, <2>8 DEF Loading
  <2>12. made < MaxTasks
    <3>1. made \in Nat /\ MaxTasks \in Nat
      BY <1>1, TaskCount
    <3> QED BY <1>0, <2>11, <3>1, FS_EmptySet
  <2>13. FirstTask'
    <3>1. \A m \in Messages : request'[m].pc = "creating" => m = r
      BY <2>8, MessagesAreRequests
    <3>2. \A m \in Messages : request'[m].pc # "saving new"
      BY <2>3, <2>4, <2>8, MessagesAreRequests
    <3> QED BY <1>0, <2>3, <2>4, <2>8, <2>10, <2>12, <3>1, <3>2 DEF FirstTask, server
  <2>14. TasksOK'
    BY <1>0, <1>1, <1>w, <2>11, <2>11a DEF TasksOK, Within, server
  <2> QED BY <1>0, <1>1, <2>5, <2>7, <2>9, <2>13, <2>14 DEF ServerInv, server
<1> QED BY <1>2, <1>3 DEF ArriveCold

(* ServerInv when the first message creates the task.                      *)
LEMMA CreateTaskKeeps ==
  ASSUME ServerInv, NEW m \in Messages, CreateTask(m)
  PROVE  ServerInv'
<1> DEFINE t == made + 1
           rec == [request[m] EXCEPT !.pc = "saving new", !.task = t]
<1>0. /\ m \in Requests /\ request[m].pc = "creating" /\ made' = t /\ known' = t
      /\ task' = [task EXCEPT ![t] = FreshTask("submitted")]
      /\ UNCHANGED <<executing, call, stored, restarts, canceled, replaced, late>>
  BY MessagesAreRequests DEF CreateTask, Register, NewTask
<1>1. /\ TypeOK /\ task \in TaskMap /\ request \in RequestMap /\ call \in CallMap
      /\ TasksOK /\ FirstTask /\ OnePrimary /\ stored # "working"
      /\ RequestOK(m, request[m], made) /\ request[m] \in RequestType
  BY <1>0, Parts
<1>2. stored = None /\ made < MaxTasks /\ \A r \in Requests \ {m} : request[r].pc = "new"
  BY <1>0, <1>1 DEF FirstTask
<1>3. made \in Nat /\ MaxTasks \in Nat
  BY <1>1, TaskCount
<1>4. t \in Tasks /\ t \in Nat /\ t \in 0..MaxTasks /\ t \in 1..t /\ made <= t /\ t <= t
  BY <1>2, <1>3 DEF Tasks
<1>5. request' = [request EXCEPT ![m] = rec]
  BY <1>0 DEF CreateTask, NewTask
<1>6. rec \in RequestType
  BY <1>1, <1>4 DEF RequestType, Steps
<1>7. /\ rec.pc = "saving new" /\ rec.task = t /\ rec.loaded = request[m].loaded
      /\ rec.wants = request[m].wants /\ rec.ended = request[m].ended
      /\ rec.primary = request[m].primary
  BY <1>1 DEF RequestType
<1> HIDE DEF rec
<1>8. request' \in RequestMap /\ request'[m] = rec /\ Still(Requests \ {m})
  BY <1>0, <1>1, <1>5, <1>6, RecordTyped, RequestIs
<1>9. \A q \in Requests \ {m} : request'[q].pc = "new"
  BY <1>2, <1>8 DEF Still, StillAs
<1>10. TypeOK'
  <2>1. FreshTask("submitted") \in TaskType
    BY FreshTyped DEF TaskStates
  <2>2. task' \in TaskMap
    BY <1>0, <1>1, <2>1 DEF TaskMap
  <2>3. Typed
    BY <1>0, <1>1, <1>8, <2>2 DEF Typed
  <2>4. /\ executing \in BOOLEAN /\ stored \in TaskStates \cup {None}
        /\ restarts \in 0..MaxRestarts /\ canceled \in BOOLEAN /\ replaced \in BOOLEAN
        /\ late \in BOOLEAN
    BY <1>1 DEF TypeOK
  <2> HIDE DEF t
  <2> QED BY <1>0, <1>1, <1>4, <2>3, <2>4, ServerTyped
<1>11. RequestOK(m, rec, t)
  BY <1>1, <1>0, <1>4, <1>7 DEF RequestOK, Active, Working
<1>12. RequestsOK'
  <2> HIDE DEF t
  <2>1. \A q \in Requests \ {m} : RequestOK(q, request'[q], made')
    BY <1>0, <1>3, <1>4, <1>8, StillOK, Parts DEF Still
  <2> QED BY <1>0, <1>8, <1>11, <2>1 DEF RequestsOK
<1>13. OnePrimary'
  <2>1. \A n \in Messages : ~ Running(n) /\ ~ Running(n)'
    BY <1>0, <1>2, <1>7, <1>8, <1>9, MessagesAreRequests DEF Running, Active, Working
  <2> QED BY <1>0, <1>1, <2>1 DEF OnePrimary
<1>14. Loading' = {}
  BY <1>7, <1>8, <1>9 DEF Loading
<1>15. FirstTask'
  <2>1. \A n \in Messages : request'[n].pc # "creating"
    BY <1>7, <1>8, <1>9, MessagesAreRequests
  <2>2. \A n \in Messages : request'[n].pc = "saving new" => n = m
    BY <1>9, MessagesAreRequests
  <2>3. \E q \in Requests : request'[q].pc # "new"
    BY <1>0, <1>7, <1>8
  <2> QED BY <1>0, <1>7, <1>8, <1>14, <2>1, <2>2, <2>3 DEF FirstTask
<1>16. TasksOK'
  <2>1. \A u \in Tasks : u > t => u > made /\ u # t
    <3> HIDE DEF t
    <3> QED BY <1>3, <1>4, Later
  <2>2. \A u \in Tasks : u > made' => task'[u] = FreshTask("submitted")
    BY <1>0, <1>1, <2>1 DEF TasksOK, TaskMap
  <2>3. IsFiniteSet(Loading') /\ Cardinality(Loading') = 0
    BY <1>14, FS_EmptySet
  <2>4. made' + Cardinality(Loading') <= MaxTasks
    BY <1>0, <1>2, <1>3, <2>3
  <2> QED BY <2>2, <2>3, <2>4 DEF TasksOK
<1> QED BY <1>0, <1>1, <1>10, <1>12, <1>13, <1>15, <1>16 DEF ServerInv

(* ServerInv when a Task is made of what was loaded.                       *)
LEMMA ReconstructKeeps ==
  ASSUME ServerInv, NEW r \in Messages \cup Readers, Reconstruct(r)
  PROVE  ServerInv'
<1> DEFINE t == made + 1
<1>0. /\ r \in Requests /\ request[r].pc = "loading" /\ Register /\ made' = t /\ known' = t
      /\ UNCHANGED <<stored, restarts, canceled>> /\ replaced' = (replaced \/ executing)
  BY MessagesAreRequests DEF Reconstruct, Requests, Register, NewTask
<1>1. /\ TypeOK /\ task \in TaskMap /\ request \in RequestMap /\ call \in CallMap
      /\ TasksOK /\ FirstTask /\ stored # "working"
      /\ RequestOK(r, request[r], made) /\ request[r] \in RequestType
  BY <1>0, Parts
<1>2. Found(r)
  BY <1>0 DEF Found
<1>3. request[r].loaded \in TaskStates
  BY <1>0, <1>1 DEF RequestOK, RequestType
<1>4. FreshTask(request[r].loaded) \in TaskType
  BY <1>3, FreshTyped
<1>5. made \in Nat /\ t \in Nat /\ t \in 0..MaxTasks /\ made <= t /\ t \in Tasks /\ t \in 1..t /\ t <= t
  <2>1. made \in Nat /\ MaxTasks \in Nat /\ made + Cardinality(Loading) <= MaxTasks /\ IsFiniteSet(Loading)
    BY <1>1, TaskCount
  <2>2. Loading # {}
    BY <1>0 DEF Loading
  <2>3. made + 1 <= MaxTasks
    BY <2>1, <2>2, OneMore
  <2> QED BY <2>1, <2>3 DEF Tasks
<1>6. OthersTyped
  BY <1>0, <1>1 DEF OthersTyped, TypeOK
<1>7. CASE r \in Readers
  <2> DEFINE rec == [request[r] EXCEPT !.pc = "done", !.loaded = None]
  <2>1. /\ task' = [task EXCEPT ![t] = FreshTask(request[r].loaded)]
        /\ request' = [request EXCEPT ![r] = rec] /\ UNCHANGED <<executing, call, late>>
    BY <1>0, <1>7 DEF Reconstruct, NewTask
  <2>2. rec \in RequestType
    BY <1>1 DEF RequestType, Steps
  <2>3. /\ rec.pc = "done" /\ rec.loaded = None /\ rec.wants = request[r].wants
        /\ rec.ended = request[r].ended /\ rec.primary = request[r].primary
    BY <1>1 DEF RequestType
  <2> HIDE DEF rec
  <2>4. request' \in RequestMap /\ request'[r] = rec /\ Still(Requests \ {r})
    BY <1>0, <1>1, <2>1, <2>2, RecordTyped, RequestIs
  <2>5. TypeOK'
    <3>1. task' \in TaskMap
      BY <1>1, <1>4, <2>1 DEF TaskMap
    <3>2. Typed
      BY <1>1, <2>1, <2>4, <3>1 DEF Typed
    <3>3. /\ executing \in BOOLEAN /\ stored' \in TaskStates \cup {None}
          /\ restarts' \in 0..MaxRestarts /\ canceled' \in BOOLEAN /\ replaced' \in BOOLEAN
          /\ late' \in BOOLEAN
      BY <1>0, <1>1, <1>6, <2>1 DEF TypeOK, OthersTyped
    <3> HIDE DEF t
    <3> QED BY <1>0, <1>1, <1>5, <2>1, <3>2, <3>3, ServerTyped
  <2>6. RequestOK(r, rec, made')
    <3>1. None # "working"
      BY NoneIsNoValue DEF TaskStates
    <3> QED BY <1>0, <1>1, <2>3, <3>1 DEF RequestOK, Active, Working
  <2>7. NoneIs("creating") /\ NoneIs("saving new")
    BY <1>0, AtRest DEF Loading
  <2>8. Aside(r) /\ Loads(r)
    BY <1>0, <1>1, <2>1, <2>3, <2>4, <2>6, <2>7 DEF Aside, Loads
  <2>9. Within
    <3>1. \A u \in Tasks : u > t => u > made /\ u # t
      <4> HIDE DEF t
      <4> QED BY <1>5, Later
    <3> QED BY <1>0, <1>1, <2>1, <3>1 DEF TasksOK, TaskMap, Within
  <2> QED BY <1>0, <2>5, <2>8, <2>9, AsideKeeps
<1>8. CASE r \notin Readers
  <2>1. r \in Messages /\ Begin(r, t, FreshTask(request[r].loaded))
    BY <1>8 DEF Reconstruct, NewTask
  <2> HIDE DEF t
  <2> QED BY <1>0, <1>2, <1>4, <1>5, <1>6, <2>1, BeginKeeps
<1> QED BY <1>7, <1>8

(* ServerInv when a save ends; what is stored never says working.          *)
LEMMA SaveKeeps ==
  ASSUME ServerInv, NEW r \in Requests, Save(r)
  PROVE  ServerInv'
<1> DEFINE rec == [request[r] EXCEPT !.pc = "done", !.loaded = None]
<1>0. /\ request[r].pc = "saving" /\ stored' \in {stored, request[r].loaded}
      /\ request' = [request EXCEPT ![r] = rec]
      /\ UNCHANGED <<task, made, known, executing, call, restarts, canceled, replaced, late>>
  BY DEF Save
<1>1. /\ TypeOK /\ task \in TaskMap /\ request \in RequestMap /\ call \in CallMap
      /\ TasksOK /\ FirstTask /\ stored # "working"
      /\ RequestOK(r, request[r], made) /\ request[r] \in RequestType
  BY Parts
<1>2. rec \in RequestType
  BY <1>1 DEF RequestType, Steps
<1>3. /\ rec.pc = "done" /\ rec.loaded = None /\ rec.wants = request[r].wants
      /\ rec.ended = request[r].ended /\ rec.primary = request[r].primary
  BY <1>1 DEF RequestType
<1> HIDE DEF rec
<1>4. request' \in RequestMap /\ request'[r] = rec /\ Still(Requests \ {r})
  BY <1>0, <1>1, <1>2, RecordTyped, RequestIs
<1>5. request[r].loaded \in TaskStates \cup {None} /\ request[r].loaded # "working"
  BY <1>1 DEF RequestOK, RequestType
<1>6. stored' \in TaskStates \cup {None} /\ stored' # "working"
  BY <1>0, <1>1, <1>5 DEF TypeOK
<1>7. TypeOK'
  BY <1>0, <1>1, <1>4, <1>6 DEF TypeOK, RequestMap
<1>8. RequestOK(r, rec, made')
  <2>1. None # "working"
    BY NoneIsNoValue DEF TaskStates
  <2> QED BY <1>0, <1>1, <1>3, <2>1 DEF RequestOK, Active, Working
<1>9. Aside(r) /\ Loads(r)
  BY <1>0, <1>3, <1>4, <1>6, <1>8, AtRest DEF Aside, Loads
<1>10. Within
  BY <1>0, <1>1 DEF Within, TasksOK
<1> QED BY <1>7, <1>9, <1>10, AsideKeeps

(* ServerInv when the client's socket ends.                                *)
LEMMA DisconnectKeeps ==
  ASSUME ServerInv, NEW m \in Messages, Disconnect(m)
  PROVE  ServerInv'
<1> DEFINE rec == [request[m] EXCEPT !.aborted = TRUE]
<1>0. m \in Requests /\ request' = [request EXCEPT ![m] = rec] /\ UNCHANGED <<task, call, server>>
  BY MessagesAreRequests DEF Disconnect
<1>1. /\ TypeOK /\ task \in TaskMap /\ request \in RequestMap /\ call \in CallMap /\ TasksOK
      /\ request[m] \in RequestType
  BY <1>0, Parts
<1>2. rec \in RequestType /\ StillAs(rec, request[m])
  BY <1>1 DEF RequestType, StillAs
<1> HIDE DEF rec
<1>3. request' \in RequestMap /\ request'[m] = rec /\ Still(Requests \ {m})
  BY <1>0, <1>1, <1>2, RecordTyped, RequestIs
<1>4. Quiet
  BY <1>0, <1>2, <1>3 DEF Quiet, Still
<1>5. TypeOK' /\ Within
  BY <1>0, <1>1, <1>3, ServerStays DEF Typed, Within, TasksOK, server
<1> QED BY <1>4, <1>5, QuietKeeps

(* ServerInv when the server crashes.                                      *)
LEMMA RestartKeeps ==
  ASSUME ServerInv, Restart
  PROVE  ServerInv'
<1>1. /\ TypeOK /\ RequestsOK /\ FirstTask /\ stored # "working" /\ request \in RequestMap /\ call \in CallMap
      /\ \A r \in Requests : request[r] \in RequestType /\ RequestOK(r, request[r], made)
  BY Parts
<1>2. /\ made' = 0 /\ known' = None /\ executing' = FALSE /\ UNCHANGED <<call, stored, canceled>>
      /\ replaced' = FALSE /\ late' = FALSE /\ task' = [t \in Tasks |-> FreshTask("submitted")]
  BY DEF Restart
<1>3. \A r \in Requests : \/ request[r].pc \in {"new", "done"} /\ request'[r] = request[r]
                          \/ request[r].pc \notin {"new", "done"} /\ request'[r] = [FreshRequest EXCEPT !.pc = "done", !.ended = "crashed"]
  BY DEF Restart
<1> DEFINE rec == [FreshRequest EXCEPT !.pc = "done", !.ended = "crashed"]
<1>4. rec \in RequestType /\ rec.pc = "done" /\ rec.ended = "crashed" /\ rec.wants = {}
      /\ rec.loaded = None
  BY DEF RequestType, FreshRequest, Steps, Ends
<1>5. \A r \in Requests : RequestOK(r, rec, 0)
  <2>1. None # "working"
    BY NoneIsNoValue DEF TaskStates
  <2> HIDE DEF rec
  <2> QED BY <1>4, <2>1 DEF RequestOK, Active, Working
<1> HIDE DEF rec
<1>6. \A r \in Requests : \/ request[r].pc \in {"new", "done"} /\ request'[r] = request[r]
                          \/ request[r].pc \notin {"new", "done"} /\ request'[r] = rec
  BY <1>3 DEF rec
<1>7. request' \in RequestMap
  <2>1. DOMAIN request' = Requests /\ request' = [r \in Requests |-> request'[r]]
    BY DEF Restart
  <2>2. \A r \in Requests : request'[r] \in RequestType
    BY <1>1, <1>4, <1>6
  <2> QED BY <2>1, <2>2 DEF RequestMap
<1>8. \A r \in Requests : RequestOK(r, request'[r], 0) /\ request'[r].pc \in {"new", "done"}
                          /\ (request[r].pc # "new" => request'[r].pc # "new")
  <2> TAKE r \in Requests
  <2>1. CASE request[r].pc \in {"new", "done"} /\ request'[r] = request[r]
    BY <1>1, <2>1 DEF RequestOK, Active, Working
  <2>2. CASE request[r].pc \notin {"new", "done"} /\ request'[r] = rec
    BY <1>4, <1>5, <2>2
  <2> QED BY <1>6, <2>1, <2>2
<1>9. RequestsOK'
  BY <1>2, <1>8 DEF RequestsOK
<1>10. OnePrimary'
  <2>1. \A n \in Messages : ~ Running(n)'
    BY <1>8, MessagesAreRequests DEF Running, Active, Working
  <2> QED BY <1>2, <2>1 DEF OnePrimary
<1>11. FirstTask'
  <2>1. \A n \in Messages : request'[n].pc \notin {"creating", "saving new"}
    BY <1>8, MessagesAreRequests
  <2> QED BY <1>1, <1>2, <1>8, <2>1 DEF FirstTask
<1>12. Loading' = {}
  BY <1>8 DEF Loading
<1>13. MaxTasks \in Nat /\ MaxRestarts \in Nat
  BY ConstantsOK
<1>14. TasksOK'
  <2>1. IsFiniteSet(Loading') /\ Cardinality(Loading') = 0
    BY <1>12, FS_EmptySet
  <2>2. made' + Cardinality(Loading') <= MaxTasks
    BY <1>2, <1>13, <2>1
  <2> QED BY <1>2, <2>1, <2>2 DEF TasksOK
<1>15. TypeOK'
  <2>1. FreshTask("submitted") \in TaskType
    BY FreshTyped DEF TaskStates
  <2>2. Typed
    BY <1>1, <1>2, <1>7, <2>1 DEF Typed, TaskMap
  <2>3. restarts' \in 0..MaxRestarts
    <3>1. restarts \in 0..MaxRestarts
      BY <1>1 DEF TypeOK
    <3>2. restarts' = restarts + 1 /\ restarts < MaxRestarts
      BY DEF Restart
    <3> QED BY <1>13, <3>1, <3>2
  <2>4. stored \in TaskStates \cup {None} /\ canceled \in BOOLEAN
    BY <1>1 DEF TypeOK
  <2>5. made' \in 0..MaxTasks
    BY <1>2, <1>13
  <2> QED BY <1>1, <1>2, <2>2, <2>3, <2>4, <2>5, ServerTyped
<1> QED BY <1>1, <1>2, <1>9, <1>10, <1>11, <1>14, <1>15 DEF ServerInv

(* ServerInv when the task is canceled.                                    *)
LEMMA CancelTaskKeeps ==
  ASSUME ServerInv, NEW k \in Cancels, CancelTask(k)
  PROVE  ServerInv'
<1>0. /\ k \in Requests /\ request[k].pc = "new" /\ known # None
      /\ UNCHANGED <<made, known, executing, call, stored, restarts, replaced, late>>
  BY DEF CancelTask, Requests
<1>1. /\ TypeOK /\ task \in TaskMap /\ request \in RequestMap /\ call \in CallMap
      /\ TasksOK /\ FirstTask /\ stored # "working"
      /\ RequestOK(k, request[k], made) /\ request[k] \in RequestType
  BY <1>0, Parts
<1>2. k \notin Messages /\ NoneIs("creating") /\ known \in Tasks /\ known \in 1..made
  BY <1>0, <1>1, ConstantsOK, AtRest, Made DEF Messages, TypeOK
<1>3. CASE task[known].state \in FinalStates
  <2> DEFINE rec == [request[k] EXCEPT !.pc = "done"]
  <2>1. request' = [request EXCEPT ![k] = rec] /\ UNCHANGED <<task, canceled>>
    BY <1>0, <1>3 DEF CancelTask
  <2>2. rec \in RequestType
    BY <1>1 DEF RequestType, Steps
  <2>3. /\ rec.pc = "done" /\ rec.loaded = request[k].loaded /\ rec.wants = request[k].wants
        /\ rec.ended = request[k].ended /\ rec.primary = request[k].primary
    BY <1>1 DEF RequestType
  <2> HIDE DEF rec
  <2>4. request' \in RequestMap /\ request'[k] = rec /\ Still(Requests \ {k})
    BY <1>0, <1>1, <2>1, <2>2, RecordTyped, RequestIs
  <2>5. TypeOK'
    BY <1>0, <1>1, <2>1, <2>4, ServerStays DEF Typed, server
  <2>6. RequestOK(k, rec, made')
    BY <1>0, <1>1, <2>3 DEF RequestOK, Active, Working
  <2>7. Aside(k) /\ Loads(k)
    BY <1>0, <1>1, <1>2, <2>3, <2>4, <2>6 DEF Aside, Loads
  <2>8. Within
    BY <1>0, <1>1, <2>1 DEF Within, TasksOK
  <2> QED BY <1>0, <2>5, <2>7, <2>8, AsideKeeps
<1>4. CASE task[known].state \notin FinalStates
  <2> DEFINE woken == Woken(request, known, "rejected")
             rec == [woken[k] EXCEPT !.pc = "saving", !.loaded = "canceled"]
             tk == [WithoutPending(task[known]) EXCEPT !.state = "canceled"]
  <2>1. /\ task' = [task EXCEPT ![known] = tk] /\ canceled' = TRUE
        /\ request' = [woken EXCEPT ![k].pc = "saving", ![k].loaded = "canceled"]
    BY <1>4 DEF CancelTask
  <2>2. woken \in RequestMap /\ \A r \in Requests : StillAs(woken[r], request[r])
    BY <1>1, WokenTyped, WokenIs
  <2>3. tk \in TaskType
    <3>1. task[known] \in TaskType
      BY <1>1, <1>2 DEF TaskMap
    <3>2. WithoutPending(task[known]) \in TaskType
      BY <3>1, WithoutPendingTyped
    <3> QED BY <3>2, StateTyped DEF TaskStates
  <2> HIDE DEF woken, tk
  <2>4. woken[k] \in RequestType
    BY <1>0, <2>2 DEF RequestMap
  <2>5. rec \in RequestType
    BY <2>4 DEF RequestType, Steps, TaskStates
  <2>6. /\ rec.pc = "saving" /\ rec.loaded = "canceled" /\ rec.wants = request[k].wants
        /\ rec.ended = request[k].ended
    BY <1>0, <2>2, <2>4 DEF RequestType, StillAs
  <2>7. request' = [woken EXCEPT ![k] = rec]
    BY <1>0, <2>1, <2>2 DEF RequestMap
  <2> HIDE DEF rec
  <2>8. request' \in RequestMap /\ request'[k] = rec /\ Still(Requests \ {k})
    BY <1>0, <2>2, <2>5, <2>7 DEF RequestMap, Still
  <2>9. None # "canceled"
    BY NoneIsNoValue DEF TaskStates
  <2>10. RequestOK(k, rec, made')
    BY <1>0, <1>1, <2>6, <2>9 DEF RequestOK, Active, Working
  <2>11. Aside(k) /\ Loads(k)
    BY <1>0, <1>1, <1>2, <2>6, <2>8, <2>10 DEF Aside, Loads
  <2>12. Within
    BY <1>0, <1>1, <1>2, <2>1, OneTaskWithin DEF TaskMap
  <2>13. TypeOK'
    <3>1. task' \in TaskMap
      BY <1>1, <1>2, <2>1, <2>3 DEF TaskMap
    <3> QED BY <1>0, <1>1, <2>1, <2>8, <3>1 DEF TypeOK, TaskMap, RequestMap, CallMap
  <2> QED BY <1>0, <2>11, <2>12, <2>13, AsideKeeps
<1> QED BY <1>3, <1>4

-----------------------------------------------------------------------------
(* The end of an execution                                                 *)

(* ServerInv at the end of execute.                                        *)
LEMMA LeaveKeeps ==
  ASSUME ServerInv, NEW m \in Messages, Running(m), NEW reqs \in RequestMap,
         \A r \in Requests : StillAs(reqs[r], request[r]),
         NEW tk \in TaskType, tk.state # "working", NEW how \in {"normal", "aborted", "failed"},
         Leave(m, tk, reqs, how), call' \in CallMap,
         UNCHANGED <<made, known, stored, restarts, canceled, replaced, late>>
  PROVE  ServerInv' /\ Leaves(m)
<1>0. m \in Requests /\ request[m].pc \in Active /\ tk.state \in TaskStates
  BY MessagesAreRequests DEF Running, TaskType
<1>1. /\ TypeOK /\ task \in TaskMap /\ request \in RequestMap /\ call \in CallMap
      /\ TasksOK /\ RequestOK(m, request[m], made) /\ request[m] \in RequestType
      /\ reqs[m] \in RequestType /\ StillAs(reqs[m], request[m])
  BY <1>0, Parts DEF RequestMap
<1>2. request[m].task \in 1..made /\ request[m].task \in Tasks
  BY <1>0, <1>1, Made DEF RequestOK
<1>3. task' \in TaskMap /\ request' \in RequestMap /\ executing' \in BOOLEAN
  BY <1>1, <1>2, LeaveTyped
<1>4. TypeOK'
  BY <1>1, <1>3 DEF TypeOK, TaskMap, RequestMap, CallMap
<1> DEFINE rec == [reqs[m] EXCEPT !.pc = "saving", !.loaded = tk.state, !.wants = {},
                                  !.wake = None, !.ended = how]
<1>5. request' = [reqs EXCEPT ![m] = rec] /\ executing' = FALSE
  BY <1>0 DEF Leave
<1>6. rec.pc = "saving" /\ rec.loaded = tk.state /\ rec.wants = {}
  BY <1>1 DEF RequestType
<1> HIDE DEF rec
<1>7. request'[m] = rec /\ Still(Requests \ {m})
  BY <1>0, <1>5 DEF RequestMap, Still
<1>8. RequestOK(m, rec, made)
  <2>1. None # tk.state
    BY <1>0, NoneIsNoValue
  <2> QED BY <1>6, <2>1 DEF RequestOK, Active, Working
<1>9. Leaves(m)
  BY <1>5, <1>6, <1>7, <1>8 DEF Leaves
<1>10. Within
  BY <1>1, <1>2, OneTaskWithin DEF Leave, TaskMap
<1> QED BY <1>4, <1>9, <1>10, LeavesKeeps

(* ServerInv in the catch of execute.                                      *)
LEMMA CatchKeeps ==
  ASSUME ServerInv, NEW m \in Messages, Running(m), Catch(m)
  PROVE  ServerInv' /\ Leaves(m)
<1> DEFINE t == request[m].task
           state == IF ~ request[m].aborted THEN "failed"
                    ELSE IF task[t].state \in FinalStates THEN task[t].state
                    ELSE "input-required"
           reqs == Woken(request, t, "rejected")
           tk == [WithoutPending(task[t]) EXCEPT !.state = state]
           how == IF request[m].aborted THEN "aborted" ELSE "failed"
<1>0. m \in Requests /\ request[m].pc \in Active
  BY MessagesAreRequests DEF Running
<1>1. /\ TypeOK /\ task \in TaskMap /\ request \in RequestMap /\ call \in CallMap
      /\ RequestOK(m, request[m], made)
  BY <1>0, Parts
<1>2. t \in Tasks
  BY <1>0, <1>1, Made DEF RequestOK
<1>3. reqs \in RequestMap /\ \A r \in Requests : StillAs(reqs[r], request[r])
  BY <1>1, WokenTyped, WokenIs
<1>4. state \in TaskStates /\ state # "working"
  BY DEF TaskStates, FinalStates
<1>5. WithoutPending(task[t]) \in TaskType
  BY <1>1, <1>2, WithoutPendingTyped DEF TaskMap
<1>6. tk \in TaskType /\ tk.state = state
  <2> HIDE DEF state
  <2> QED BY <1>4, <1>5, StateTyped DEF TaskType
<1>7. Leave(m, tk, reqs, how) /\ UNCHANGED <<made, known, call, stored, restarts, canceled, replaced, late>>
  BY DEF Catch
<1>8. how \in {"normal", "aborted", "failed"}
  OBVIOUS
<1> HIDE DEF tk, reqs, how, state
<1> QED BY <1>1, <1>3, <1>4, <1>6, <1>7, <1>8, LeaveKeeps

(* ServerInv when the turn ends with the task waiting for input.           *)
LEMMA EndTurnKeeps ==
  ASSUME ServerInv, NEW m \in Messages, Running(m), NEW tk \in TaskType, EndTurn(m, tk), call' \in CallMap
  PROVE  ServerInv' /\ Leaves(m)
<1>1. request \in RequestMap /\ \A r \in Requests : StillAs(request[r], request[r])
  BY Parts DEF StillAs
<1>2. [tk EXCEPT !.state = "input-required"] \in TaskType
      /\ [tk EXCEPT !.state = "input-required"].state = "input-required"
  BY StateTyped DEF TaskStates, TaskType
<1> DEFINE tk2 == [tk EXCEPT !.state = "input-required"]
<1>3. Leave(m, tk2, request, "normal") /\ UNCHANGED <<made, known, stored, restarts, canceled, replaced, late>>
  BY DEF EndTurn
<1>4. tk2 \in TaskType /\ tk2.state # "working"
  BY <1>2
<1> HIDE DEF tk2
<1> QED BY <1>1, <1>3, <1>4, LeaveKeeps

-----------------------------------------------------------------------------
(* The execution that runs                                                 *)

(* The record of an execution that goes on.                                 *)
GoesOn(m, rec) ==
  /\ request[m].pc \in Active
  /\ rec \in RequestType /\ rec.task = request[m].task /\ rec.primary = request[m].primary
  /\ IF rec.primary THEN rec.pc \in Working \cup {"accepted"}
     ELSE rec.pc \in {"accepted", "streaming", "done"}
  /\ RequestOK(m, rec, made)

(* An execution whose record changes to rec walks.                         *)
LEMMA WalkStep ==
  ASSUME ServerInv, NEW m \in Messages, NEW rec, GoesOn(m, rec),
         \A r \in Requests : StillAs(request'[r], [request EXCEPT ![m] = rec][r]),
         UNCHANGED server, Typed, Within
  PROVE  ServerInv' /\ Walks(m)
<1>0. m \in Requests
  BY MessagesAreRequests
<1>1. TypeOK /\ request \in RequestMap
  BY Parts
<1>2. \A r \in Requests \ {m} : StillAs(request'[r], request[r])
  BY <1>1 DEF RequestMap
<1>3. StillAs(request'[m], rec)
  BY <1>0, <1>1 DEF RequestMap
<1>4. RequestOK(m, request'[m], made)
  BY <1>1, <1>3, StillOK, Made DEF GoesOn
<1>5. Walks(m)
  BY <1>2, <1>3, <1>4 DEF Walks, GoesOn, Still, StillAs, server, core
<1> QED BY <1>1, <1>5, ServerStays, WalksKeeps

(* ServerInv when only the record of the execution changes.                *)
LEMMA WalkAlone ==
  ASSUME ServerInv, NEW m \in Messages, NEW rec, GoesOn(m, rec),
         request' = [request EXCEPT ![m] = rec],
         UNCHANGED server, task' \in TaskMap, call' \in CallMap, Within
  PROVE  ServerInv' /\ Walks(m)
<1>1. request \in RequestMap /\ rec \in RequestType /\ m \in Requests
  BY Parts, MessagesAreRequests DEF GoesOn
<1>2. Typed
  BY <1>1, RecordTyped DEF Typed
<1>3. \A r \in Requests : StillAs(request'[r], [request EXCEPT ![m] = rec][r])
  BY DEF StillAs
<1> QED BY <1>2, <1>3, WalkStep

(* What holds of an execution under way: its record and its Task.          *)
LEMMA ActiveIs ==
  ASSUME ServerInv, NEW m \in Messages, request[m].pc \in Active
  PROVE  /\ m \in Requests /\ TypeOK /\ task \in TaskMap /\ request \in RequestMap
         /\ call \in CallMap /\ TasksOK /\ request[m] \in RequestType
         /\ RequestOK(m, request[m], made)
         /\ request[m].task \in 1..made /\ request[m].task \in Tasks
         /\ task[request[m].task] \in TaskType
<1>1. m \in Requests
  BY MessagesAreRequests
<1>2. /\ TypeOK /\ task \in TaskMap /\ request \in RequestMap
      /\ call \in CallMap /\ TasksOK /\ request[m] \in RequestType
      /\ RequestOK(m, request[m], made)
  BY <1>1, Parts
<1>3. request[m].task \in 1..made /\ request[m].task \in Tasks
  BY <1>2, Made DEF RequestOK
<1> QED BY <1>1, <1>2, <1>3 DEF TaskMap

(* The calls a stream asks for are calls.                                  *)
LEMMA RequestedTyped ==
  ASSUME call \in CallMap, NEW cs, NEW m \in Messages, NEW s \in Statuses
  PROVE  Requested(cs, m, s) \in CallMap
<1>1. \A x \in CallType : [x EXCEPT !.status = s, !.by = m] \in CallType
  BY DEF CallType
<1> QED BY <1>1 DEF Requested, CallMap

(* ServerInv when the stream ends.                                         *)
LEMMA StreamEndsKeeps ==
  ASSUME ServerInv, NEW m \in Messages, StreamEnds(m)
  PROVE  ServerInv' /\ Walks(m)
<1>0. request[m].pc = "streaming" /\ request[m].primary /\ request[m].pc \in Active /\ UNCHANGED server
  BY DEF StreamEnds, Active, Working
<1>1. PICK cs \in SUBSET NewCalls : 
        /\ call' = Requested(cs, m, "requested")
        /\ request' = [request EXCEPT ![m].pc = "streamed", ![m].wants = cs]
        /\ \/ task' = [task EXCEPT ![request[m].task] = WithoutPending(@)]
           \/ task' = task
  BY DEF StreamEnds
<1>2. cs \subseteq Calls
  BY DEF NewCalls
<1> DEFINE rec == [request[m] EXCEPT !.pc = "streamed", !.wants = cs]
           t == request[m].task
<1>3. /\ m \in Requests /\ TypeOK /\ task \in TaskMap /\ request \in RequestMap
      /\ call \in CallMap /\ TasksOK /\ request[m] \in RequestType
      /\ RequestOK(m, request[m], made)
      /\ t \in 1..made /\ t \in Tasks /\ task[t] \in TaskType
  BY <1>0, ActiveIs
<1>4. request' = [request EXCEPT ![m] = rec]
  BY <1>1, <1>3
<1>5. /\ rec \in RequestType /\ rec.task = t /\ rec.primary = request[m].primary
      /\ rec.pc = "streamed" /\ rec.ended = request[m].ended /\ rec.loaded = request[m].loaded
  BY <1>2, <1>3 DEF RequestType, Steps
<1> HIDE DEF rec
<1>6. GoesOn(m, rec)
  BY <1>0, <1>3, <1>5 DEF GoesOn, RequestOK, Active, Working
<1>7. call' \in CallMap
  BY <1>1, <1>3, RequestedTyped DEF Statuses
<1>8. task' \in TaskMap /\ \A u \in Tasks \ {t} : task'[u] = task[u]
  BY <1>1, <1>3, WithoutPendingTyped DEF TaskMap
<1>9. Within
  BY <1>0, <1>3, <1>8, OneTaskWithin DEF server
<1> QED BY <1>0, <1>4, <1>6, <1>7, <1>8, <1>9, WalkAlone

(* ServerInv when a stream on the side ends.                               *)
LEMMA SideStreamEndsKeeps ==
  ASSUME ServerInv, NEW m \in Messages, SideStreamEnds(m)
  PROVE  ServerInv' /\ Walks(m)
<1>0. request[m].pc = "streaming" /\ ~ request[m].primary /\ request[m].pc \in Active
      /\ UNCHANGED <<task, server>>
  BY DEF SideStreamEnds, Active, Working
<1>1. PICK cs \in SUBSET NewCalls : call' = Requested(cs, m, "dropped")
  BY DEF SideStreamEnds
<1> DEFINE rec == [request[m] EXCEPT !.pc = "done"]
           t == request[m].task
<1>3. /\ m \in Requests /\ TypeOK /\ task \in TaskMap /\ request \in RequestMap
      /\ call \in CallMap /\ TasksOK /\ request[m] \in RequestType
      /\ RequestOK(m, request[m], made)
      /\ t \in 1..made /\ t \in Tasks /\ task[t] \in TaskType
  BY <1>0, ActiveIs
<1>4. request' = [request EXCEPT ![m] = rec]
  BY <1>3 DEF SideStreamEnds
<1>5. /\ rec \in RequestType /\ rec.task = t /\ rec.primary = request[m].primary
      /\ rec.pc = "done" /\ rec.ended = request[m].ended /\ rec.loaded = request[m].loaded
      /\ rec.wants = request[m].wants
  BY <1>3 DEF RequestType, Steps
<1> HIDE DEF rec
<1>6. GoesOn(m, rec)
  BY <1>0, <1>3, <1>5 DEF GoesOn, RequestOK, Active, Working
<1>7. call' \in CallMap
  BY <1>1, <1>3, RequestedTyped DEF Statuses
<1>9. Within
  BY <1>0, <1>3 DEF server, Within, TasksOK
<1> QED BY <1>0, <1>3, <1>4, <1>6, <1>7, <1>9, WalkAlone

(* ServerInv when the wait begins.                                         *)
LEMMA WaitKeeps ==
  ASSUME ServerInv, NEW m \in Messages, request[m].pc \in Active, request[m].primary, Wait(m)
  PROVE  ServerInv' /\ Walks(m)
<1> DEFINE w == IF task[request[m].task].promise = "open" THEN "asleep" ELSE "resolved"
           rec == [request[m] EXCEPT !.pc = "waiting", !.wake = w]
<1>3. /\ m \in Requests /\ TypeOK /\ task \in TaskMap /\ request \in RequestMap
      /\ call \in CallMap /\ TasksOK /\ request[m] \in RequestType
      /\ RequestOK(m, request[m], made)
  BY ActiveIs
<1>2. w \in Wakes /\ w # None
  BY NoneIsNoValue DEF Wakes
<1> HIDE DEF w
<1>4. request' = [request EXCEPT ![m] = rec] /\ UNCHANGED <<task, call, server>>
  BY <1>3 DEF Wait, w
<1>5. /\ rec \in RequestType /\ rec.task = request[m].task /\ rec.primary = request[m].primary
      /\ rec.pc = "waiting" /\ rec.ended = request[m].ended /\ rec.loaded = request[m].loaded
      /\ rec.wake = w
  BY <1>2, <1>3 DEF RequestType, Steps
<1> HIDE DEF rec
<1>6. GoesOn(m, rec)
  BY <1>2, <1>3, <1>5 DEF GoesOn, RequestOK, Active, Working
<1>9. Within
  BY <1>3, <1>4 DEF server, Within, TasksOK
<1> QED BY <1>3, <1>4, <1>6, <1>9, WalkAlone

(* ServerInv when a batch is scheduled.                                    *)
LEMMA ScheduleKeeps ==
  ASSUME ServerInv, NEW m \in Messages, request[m].pc \in Active, request[m].primary,
         NEW tk \in TaskType, Schedule(m, tk)
  PROVE  ServerInv' /\ Walks(m)
<1> DEFINE t == request[m].task
           wants == request[m].wants
           rec == [request[m] EXCEPT !.pc = "scheduling"]
           tk2 == [tk EXCEPT !.batch = wants]
           cs(bad) == [c \in Calls |->
            IF c \in bad THEN [call[c] EXCEPT !.status = "ended"]
            ELSE IF c \in wants THEN [call[c] EXCEPT !.status = "validating"]
            ELSE call[c]]
<1>3. /\ m \in Requests /\ TypeOK /\ task \in TaskMap /\ request \in RequestMap
      /\ call \in CallMap /\ TasksOK /\ request[m] \in RequestType
      /\ RequestOK(m, request[m], made)
      /\ t \in 1..made /\ t \in Tasks
  BY ActiveIs
<1>1. PICK bad \in SUBSET wants : SchedulerStep(t, tk2, cs(bad), [request EXCEPT ![m].pc = "scheduling"])
  BY DEF Schedule
<1>2. [request EXCEPT ![m].pc = "scheduling"] = [request EXCEPT ![m] = rec]
  BY <1>3
<1>4. wants \subseteq Calls /\ tk2 \in TaskType
  BY <1>3 DEF RequestType, TaskType
<1>5. /\ rec \in RequestType /\ rec.task = request[m].task /\ rec.primary = request[m].primary
      /\ rec.pc = "scheduling" /\ rec.ended = request[m].ended /\ rec.loaded = request[m].loaded
  BY <1>3 DEF RequestType, Steps
<1>6. cs(bad) \in CallMap
  <2>1. \A x \in CallType : [x EXCEPT !.status = "ended"] \in CallType
                            /\ [x EXCEPT !.status = "validating"] \in CallType
    BY DEF CallType, Statuses, Terminal
  <2> QED BY <1>3, <2>1 DEF CallMap
<1>7. GoesOn(m, rec)
  <2> HIDE DEF rec
  <2> QED BY <1>3, <1>5 DEF GoesOn, RequestOK, Active, Working
<1> DEFINE reqs == [request EXCEPT ![m] = rec]
<1>8. reqs \in RequestMap
  <2> HIDE DEF rec
  <2> QED BY <1>3, <1>5 DEF RequestMap
<1>9. SchedulerStep(t, tk2, cs(bad), reqs)
  BY <1>1, <1>2
<1>10. UNCHANGED server /\ UNCHANGED made
  BY DEF Schedule, server
<1> HIDE DEF tk2, cs, reqs
<1>11. Typed /\ Within /\ \A r \in Requests : StillAs(request'[r], reqs[r])
  BY <1>3, <1>4, <1>6, <1>8, <1>9, <1>10, SchedulerStepKeeps
<1> HIDE DEF rec
<1> QED BY <1>7, <1>10, <1>11, WalkStep DEF reqs

(* ServerInv when a batch is scheduled or queued.                          *)
LEMMA ScheduleToolCallsKeeps ==
  ASSUME ServerInv, NEW m \in Messages, ScheduleToolCalls(m)
  PROVE  ServerInv' /\ Walks(m)
<1> DEFINE t == request[m].task
           tk == [task[t] EXCEPT !.state = "working"]
           rec == [request[m] EXCEPT !.pc = "queued"]
<1>0. request[m].pc = "streamed" /\ request[m].pc \in Active
  BY DEF ScheduleToolCalls, Active, Working
<1>1. /\ m \in Requests /\ TypeOK /\ task \in TaskMap /\ request \in RequestMap
      /\ call \in CallMap /\ TasksOK /\ request[m] \in RequestType
      /\ RequestOK(m, request[m], made)
      /\ t \in 1..made /\ t \in Tasks /\ task[t] \in TaskType
  BY <1>0, ActiveIs
<1>2. request[m].primary
  BY <1>0, <1>1 DEF RequestOK, Working
<1>3. tk \in TaskType
  BY <1>1, StateTyped DEF TaskStates
<1>4. CASE Schedule(m, tk)
  <2> HIDE DEF tk
  <2> QED BY <1>0, <1>2, <1>3, <1>4, ScheduleKeeps
<1>5. CASE /\ task' = [task EXCEPT ![t] = tk]
           /\ request' = [request EXCEPT ![m].pc = "queued"] /\ UNCHANGED <<call, server>>
  <2>1. request' = [request EXCEPT ![m] = rec]
    BY <1>1, <1>5
  <2>2. /\ rec \in RequestType /\ rec.task = request[m].task /\ rec.primary = request[m].primary
        /\ rec.pc = "queued" /\ rec.ended = request[m].ended /\ rec.loaded = request[m].loaded
    BY <1>1 DEF RequestType, Steps
  <2> HIDE DEF rec, tk
  <2>3. GoesOn(m, rec)
    BY <1>0, <1>1, <1>2, <2>2 DEF GoesOn, RequestOK, Active, Working
  <2>4. task' \in TaskMap /\ \A u \in Tasks \ {t} : task'[u] = task[u]
    BY <1>1, <1>3, <1>5 DEF TaskMap
  <2>5. Within
    BY <1>1, <1>5, <2>4, OneTaskWithin DEF server
  <2> QED BY <1>1, <1>5, <2>1, <2>3, <2>4, <2>5, WalkAlone
<1> QED BY <1>4, <1>5 DEF ScheduleToolCalls

(* ServerInv when a queued batch is scheduled.                             *)
LEMMA LeaveQueueKeeps ==
  ASSUME ServerInv, NEW m \in Messages, LeaveQueue(m)
  PROVE  ServerInv' /\ Walks(m)
<1>0. request[m].pc = "queued" /\ request[m].pc \in Active /\ Schedule(m, task[request[m].task])
  BY DEF LeaveQueue, Active, Working
<1>1. RequestOK(m, request[m], made) /\ task[request[m].task] \in TaskType
  BY <1>0, ActiveIs
<1>2. request[m].primary
  BY <1>0, <1>1 DEF RequestOK, Working
<1> QED BY <1>0, <1>1, <1>2, ScheduleKeeps

(* ServerInv in the steps that begin a wait.                               *)
LEMMA WaitingStarts ==
  ASSUME ServerInv, NEW m \in Messages, NothingToSchedule(m) \/ Scheduled(m)
  PROVE  ServerInv' /\ Walks(m)
<1>0. request[m].pc \in {"streamed", "scheduling"} /\ request[m].pc \in Active /\ Wait(m)
  BY DEF NothingToSchedule, Scheduled, Active, Working
<1>1. RequestOK(m, request[m], made)
  BY <1>0, ActiveIs
<1>2. request[m].primary
  BY <1>0, <1>1 DEF RequestOK, Working
<1> QED BY <1>0, <1>2, WaitKeeps

Throws(m) == StreamFails(m) \/ AbortSeen(m) \/ ProposalFails(m) \/ WaitFails(m)

(* Where an execution that throws was.                                     *)
LEMMA ThrowsIs ==
  ASSUME ServerInv, NEW m \in Messages, Throws(m)
  PROVE  Running(m) /\ Catch(m)
<1>1. Catch(m) /\ request[m].pc \in Active
      /\ (request[m].primary \/ request[m].pc \in {"streamed", "queued", "waiting"})
  BY DEF Throws, StreamFails, AbortSeen, ProposalFails, WaitFails, Active, Working
<1>2. RequestOK(m, request[m], made)
  BY <1>1, ActiveIs
<1> QED BY <1>1, <1>2 DEF RequestOK, Running, Working

(* ServerInv when an execution throws.                                     *)
LEMMA ThrowsKeeps ==
  ASSUME ServerInv, NEW m \in Messages, Throws(m)
  PROVE  ServerInv' /\ Leaves(m)
BY ThrowsIs, CatchKeeps

(* The calls whose results were taken are calls.                           *)
LEMMA DeliveredTyped ==
  ASSUME call \in CallMap, NEW cs, NEW m \in Messages
  PROVE  [c \in Calls |-> IF c \in cs THEN [call[c] EXCEPT !.to = m] ELSE call[c]] \in CallMap
<1>1. \A x \in CallType : [x EXCEPT !.to = m] \in CallType
  BY DEF CallType
<1> QED BY <1>1 DEF CallMap

(* ServerInv when the wait is over.                                        *)
LEMMA ResumeKeeps ==
  ASSUME ServerInv, NEW m \in Messages, Resume(m)
  PROVE  ServerInv' /\ (Leaves(m) \/ Walks(m))
<1> DEFINE t == request[m].task
           taken == [task[t] EXCEPT !.completed = {}]
           tk == [taken EXCEPT !.state = "working"]
           rec == [request[m] EXCEPT !.pc = "streaming", !.wants = {}, !.wake = None]
<1>0. request[m].pc = "waiting" /\ request[m].pc \in Active
  BY DEF Resume, Active, Working
<1>1. /\ m \in Requests /\ TypeOK /\ task \in TaskMap /\ request \in RequestMap
      /\ call \in CallMap /\ TasksOK /\ request[m] \in RequestType
      /\ RequestOK(m, request[m], made)
      /\ t \in 1..made /\ t \in Tasks /\ task[t] \in TaskType
  BY <1>0, ActiveIs
<1>2. request[m].primary /\ Running(m)
  BY <1>0, <1>1 DEF RequestOK, Working, Active, Running
<1>3. taken \in TaskType
  BY <1>1 DEF TaskType
<1>4. tk \in TaskType
  <2> HIDE DEF taken
  <2> QED BY <1>3, StateTyped DEF TaskStates
<1>5. call' \in CallMap
  BY <1>1, DeliveredTyped DEF Resume
<1>6. CASE EndTurn(m, taken)
  <2> HIDE DEF taken
  <2> QED BY <1>2, <1>3, <1>5, <1>6, EndTurnKeeps
<1>7. CASE /\ task' = [task EXCEPT ![t] = tk] /\ UNCHANGED server
           /\ request' = [request EXCEPT ![m].pc = "streaming", ![m].wants = {}, ![m].wake = None]
  <2>1. request' = [request EXCEPT ![m] = rec]
    BY <1>1, <1>7
  <2>2. /\ rec \in RequestType /\ rec.task = request[m].task /\ rec.primary = request[m].primary
        /\ rec.pc = "streaming" /\ rec.ended = request[m].ended /\ rec.loaded = request[m].loaded
        /\ rec.wants = {}
    BY <1>1 DEF RequestType, Steps
  <2> HIDE DEF rec, tk
  <2>3. GoesOn(m, rec)
    BY <1>0, <1>1, <1>2, <2>2 DEF GoesOn, RequestOK, Active, Working
  <2>4. task' \in TaskMap /\ \A u \in Tasks \ {t} : task'[u] = task[u]
    BY <1>1, <1>4, <1>7 DEF TaskMap
  <2>5. Within
    BY <1>1, <1>7, <2>4, OneTaskWithin DEF server
  <2> QED BY <1>5, <1>7, <2>1, <2>3, <2>4, <2>5, WalkAlone
<1> QED BY <1>6, <1>7 DEF Resume, GetAndClearCompletedTools

(* ServerInv when the answer to a prompt is dealt with.                    *)
LEMMA AnswerKeeps ==
  ASSUME ServerInv, NEW c \in Calls, Answer(c)
  PROVE  ServerInv' /\ Walks(c)
<1> DEFINE t == request[c].task
           rec == [request[c] EXCEPT !.pc = "accepted"]
           forgets(tk) == [tk EXCEPT !.details = @ \ {c}]
           shown(s) == IF call[c].outcome = "edit" /\ s = "scheduled"
                       THEN Announced(task[t], call) ELSE task[t]
           now(s) == Started(task[t], [call EXCEPT ![c].status = s])
           told(s) == Reported(Notified(shown(s), now(s)), now(s))
           reqs == [request EXCEPT ![c] = rec]
<1>0. request[c].pc = "answering" /\ request[c].pc \in Active /\ UNCHANGED server /\ UNCHANGED made
      /\ c \in Messages
  BY MessagesAreRequests DEF Answer, Active, server
<1>1. /\ c \in Requests /\ TypeOK /\ task \in TaskMap /\ request \in RequestMap
      /\ call \in CallMap /\ TasksOK /\ request[c] \in RequestType
      /\ RequestOK(c, request[c], made)
      /\ t \in 1..made /\ t \in Tasks /\ task[t] \in TaskType
  BY <1>0, ActiveIs
<1>7. [request EXCEPT ![c].pc = "accepted"] = reqs
  BY <1>1
<1>2. PICK s \in {"cancelled", "scheduled"} :
        \/ /\ call' = now(s) /\ task' = [task EXCEPT ![t] = forgets(told(s))]
           /\ request' = Rewoken([request EXCEPT ![c].pc = "accepted"], t, shown(s), now(s))
        \/ /\ task' = [task EXCEPT ![t] = forgets(task[t])]
           /\ request' = [request EXCEPT ![c].pc = "accepted"]
           /\ UNCHANGED call
  BY <1>1 DEF Answer, TaskMap
<1>3. \A tk \in TaskType : forgets(tk) \in TaskType
  BY DEF TaskType
<1>4. shown(s) \in TaskType
  BY <1>1, AnnouncedTyped
<1>5. now(s) \in CallMap
  <2>1. s \in Statuses
    BY DEF Statuses, Terminal
  <2>2. [call EXCEPT ![c].status = s] \in CallMap
    BY <1>1, <2>1, StatusTyped
  <2> QED BY <2>2, StartedTyped
<1>6. told(s) \in TaskType
  <2> HIDE DEF shown, now
  <2> QED BY <1>4, NotifiedTyped, ReportedTyped
<1>8. /\ rec \in RequestType /\ rec.task = t /\ rec.primary = request[c].primary
      /\ rec.pc = "accepted" /\ rec.ended = request[c].ended /\ rec.loaded = request[c].loaded
      /\ rec.wants = request[c].wants
  BY <1>1 DEF RequestType, Steps
<1> HIDE DEF rec
<1>9. GoesOn(c, rec)
  BY <1>0, <1>1, <1>8 DEF GoesOn, RequestOK, Active, Working
<1>10. reqs \in RequestMap
  BY <1>1, <1>8 DEF RequestMap
<1> HIDE DEF shown, now, told, forgets
<1>11. call' \in CallMap
  BY <1>1, <1>2, <1>5
<1>12. task' \in TaskMap /\ \A u \in Tasks \ {t} : task'[u] = task[u]
  <2>1. forgets(told(s)) \in TaskType /\ forgets(task[t]) \in TaskType
    BY <1>1, <1>3, <1>6
  <2> QED BY <1>1, <1>2, <2>1 DEF TaskMap
<1>13. Within
  BY <1>0, <1>1, <1>12, OneTaskWithin
<1>14. request' = reqs \/ request' = Rewoken(reqs, t, shown(s), now(s))
  <2> HIDE DEF reqs
  <2> QED BY <1>2, <1>7
<1> HIDE DEF reqs
<1>15. request' \in RequestMap /\ \A r \in Requests : StillAs(request'[r], reqs[r])
  <2>1. CASE request' = reqs
    BY <1>10, <2>1 DEF StillAs
  <2>2. CASE request' = Rewoken(reqs, t, shown(s), now(s))
    BY <1>10, <2>2, RewokenTyped, RewokenIs
  <2> QED BY <1>14, <2>1, <2>2
<1>16. Typed
  BY <1>11, <1>12, <1>15 DEF Typed
<1> QED BY <1>0, <1>9, <1>13, <1>15, <1>16, WalkStep DEF reqs

(* ServerInv when a message has been accepted.                             *)
LEMMA ProceedKeeps ==
  ASSUME ServerInv, NEW m \in Messages, Proceed(m)
  PROVE  ServerInv'
<1> DEFINE t == request[m].task
<1>0. request[m].pc = "accepted" /\ request[m].pc \in Active /\ UNCHANGED core /\ UNCHANGED call
  BY DEF Proceed, Active, core
<1>1. /\ m \in Requests /\ TypeOK /\ task \in TaskMap /\ request \in RequestMap
      /\ call \in CallMap /\ TasksOK /\ request[m] \in RequestType
      /\ RequestOK(m, request[m], made)
      /\ t \in 1..made /\ t \in Tasks /\ task[t] \in TaskType
  BY <1>0, ActiveIs
<1>2. PICK pc \in {"streaming", "streamed", "done"} :
        /\ request' = [request EXCEPT ![m].pc = pc]
        /\ IF request[m].primary THEN pc # "done" ELSE pc # "streamed"
  BY <1>1 DEF Proceed, RequestType
<1> DEFINE rec == [request[m] EXCEPT !.pc = pc]
<1>3. request' = [request EXCEPT ![m] = rec]
  BY <1>1, <1>2
<1>4. /\ rec \in RequestType /\ rec.task = t /\ rec.primary = request[m].primary
      /\ rec.pc = pc /\ rec.ended = request[m].ended /\ rec.loaded = request[m].loaded
      /\ rec.wants = request[m].wants
  BY <1>1 DEF RequestType, Steps
<1> HIDE DEF rec
<1>5. RequestOK(m, rec, made)
  BY <1>0, <1>1, <1>2, <1>4 DEF RequestOK, Active, Working
<1>6. request' \in RequestMap /\ request'[m] = rec /\ Still(Requests \ {m})
  BY <1>1, <1>3, <1>4, RecordTyped, RequestIs
<1>7. Walks(m)
  BY <1>0, <1>1, <1>2, <1>4, <1>5, <1>6 DEF Walks, Working
<1>8. task' \in TaskMap /\ (\A u \in Tasks \ {t} : task'[u] = task[u]) /\ late' \in BOOLEAN
  <2>1. [task[t] EXCEPT !.state = "working"] \in TaskType
    BY <1>1, StateTyped DEF TaskStates
  <2>2. late' \in BOOLEAN
    BY <1>1 DEF Proceed, TypeOK
  <2>3. task' = task \/ task' = [task EXCEPT ![t] = [task[t] EXCEPT !.state = "working"]]
    BY <1>1 DEF Proceed, TaskMap
  <2> QED BY <1>1, <2>1, <2>2, <2>3 DEF TaskMap
<1>9. TypeOK'
  BY <1>0, <1>1, <1>6, <1>8, TypeIs DEF core, TypeOK, TaskMap, RequestMap, CallMap
<1>10. Within
  BY <1>0, <1>1, <1>8, OneTaskWithin DEF core
<1> QED BY <1>7, <1>9, <1>10, WalksKeeps

(* ServerInv in every step of an execution.                                *)
LEMMA ExecutionKeeps ==
  ASSUME ServerInv, NEW m \in Messages, Execution(m)
  PROVE  ServerInv'
<1>1. CASE Throws(m)
  BY <1>1, ThrowsKeeps
<1>2. CASE ~ Throws(m)
  BY <1>2, CreateTaskKeeps, SaveNewKeeps, ProceedKeeps, StreamEndsKeeps, SideStreamEndsKeeps,
     ScheduleToolCallsKeeps, WaitingStarts, LeaveQueueKeeps, ResumeKeeps
     DEF Execution, Throws
<1> QED BY <1>1, <1>2

(* The server starts in ServerInv.                                         *)
LEMMA InitServer ==
  ASSUME Init PROVE ServerInv
<1>1. MaxTasks \in Nat \ {0} /\ MaxRestarts \in Nat
  BY ConstantsOK
<1>2. None # "working"
  BY NoneIsNoValue DEF TaskStates
<1>3. TypeOK
  <2>1. task \in TaskMap /\ request \in RequestMap /\ call \in CallMap
    BY FreshTyped DEF Init, TaskMap, RequestMap, CallMap, TaskStates
  <2>2. made \in 0..MaxTasks /\ restarts \in 0..MaxRestarts
    BY <1>1 DEF Init
  <2> QED BY <2>1, <2>2 DEF Init, TypeOK, TaskMap, RequestMap, CallMap
<1>4. \A r \in Requests : request[r] = FreshRequest
  BY DEF Init
<1>5. RequestsOK
  <2>1. /\ FreshRequest.pc = "new" /\ ~ FreshRequest.primary /\ FreshRequest.ended = None
        /\ FreshRequest.wants = {} /\ FreshRequest.loaded = None
    BY DEF FreshRequest
  <2> QED BY <1>2, <1>4, <2>1 DEF RequestsOK, RequestOK, Active, Working
<1>6. OnePrimary
  BY <1>4, MessagesAreRequests DEF Init, OnePrimary, Running, FreshRequest
<1>7. FirstTask
  BY <1>4, MessagesAreRequests DEF Init, FirstTask, FreshRequest
<1>8. Loading = {}
  BY <1>4 DEF Loading, FreshRequest
<1>9. TasksOK
  <2>1. IsFiniteSet(Loading) /\ Cardinality(Loading) = 0
    BY <1>8, FS_EmptySet
  <2>2. made + Cardinality(Loading) <= MaxTasks
    BY <1>1, <2>1 DEF Init
  <2> QED BY <2>1, <2>2 DEF TasksOK, Init
<1> QED BY <1>2, <1>3, <1>5, <1>6, <1>7, <1>9 DEF ServerInv, Init

(* Every step keeps ServerInv.                                             *)
LEMMA NextServer ==
  ASSUME ServerInv, [Next]_vars PROVE ServerInv'
<1>1. CASE UNCHANGED vars
  <2>1. Typed
    BY <1>1, Parts DEF Typed, vars
  <2>2. Quiet
    BY <1>1 DEF Quiet, Still, StillAs, vars, server
  <2>3. Within
    BY <1>1, Parts DEF Within, TasksOK, vars
  <2>4. UNCHANGED server
    BY <1>1 DEF vars, server
  <2> QED BY <2>1, <2>2, <2>3, <2>4, ServerStays, QuietKeeps, Parts
<1>2. ASSUME NEW c \in Calls, Validated(c) \/ Finished(c) PROVE ServerInv'
  BY <1>2, ValidatedKeeps
<1>3. ASSUME NEW c \in Calls, Answer(c) PROVE ServerInv'
  BY <1>3, AnswerKeeps
<1>4. ASSUME NEW m \in Messages, Arrive(m) PROVE ServerInv'
  BY <1>4, ArriveKeeps
<1>5. ASSUME NEW m \in Messages, Execution(m) PROVE ServerInv'
  BY <1>5, ExecutionKeeps
<1>6. ASSUME NEW m \in Messages, Disconnect(m) PROVE ServerInv'
  BY <1>6, DisconnectKeeps
<1>7. ASSUME NEW r \in Messages \cup Readers, ArriveCold(r) PROVE ServerInv'
  BY <1>7, ArriveColdKeeps
<1>8. ASSUME NEW r \in Messages \cup Readers, Reconstruct(r) PROVE ServerInv'
  BY <1>8, ReconstructKeeps
<1>9. ASSUME NEW r \in Requests, Save(r) PROVE ServerInv'
  BY <1>9, SaveKeeps
<1>10. ASSUME NEW k \in Cancels, CancelTask(k) PROVE ServerInv'
  BY <1>10, CancelTaskKeeps
<1>11. CASE Restart
  BY <1>11, RestartKeeps
<1> QED BY <1>1, <1>2, <1>3, <1>4, <1>5, <1>6, <1>7, <1>8, <1>9, <1>10, <1>11 DEF Next

(* TypeOK, the type invariant of task.ts, executor.ts and the store: every *)
(* Task, request and call is what its record says, the executor knows no   *)
(* Task that was not made, and no more Tasks are made than there are.      *)
THEOREM TypeCorrect == Spec => []TypeOK
<1>1. Init => ServerInv
  BY InitServer
<1>2. ServerInv /\ [Next]_vars => ServerInv'
  BY NextServer
<1>3. ServerInv => TypeOK
  BY DEF ServerInv
<1> QED BY <1>1, <1>2, <1>3, PTL DEF Spec

-----------------------------------------------------------------------------
(* What a step of the scheduler does                                       *)

(* The Task tk, whose calls are as in cs, becomes tn and the calls ds.      *)
Moves(tk, cs, tn, ds) ==
  /\ \A c \in Calls :
       /\ ds[c].by = cs[c].by /\ ds[c].to = cs[c].to
       /\ \/ ds[c].status = cs[c].status
          \/ c \in tk.batch /\ cs[c].status = "scheduled" /\ ds[c].status = "executing"
  /\ tn.pending = {c \in tk.batch : ds[c].status \notin Terminal}
  /\ tn.promise = IF tn.pending = {} THEN "resolved" ELSE "open"
  /\ tn.details = tk.details \cup {c \in tn.pending : ds[c].status = "awaiting"}
  /\ \/ tn.pending # {} /\ tn.batch = tk.batch /\ tn.completed = tk.completed
     \/ tn.pending = {} /\ tn.batch = {} /\ tn.completed = tk.completed \cup tk.batch
  /\ tn.state \in {tk.state, "input-required"}

(* Only scheduled calls of the batch start to execute.                     *)
LEMMA StartedIs ==
  ASSUME NEW tk \in TaskType, NEW cs \in CallMap
  PROVE  \A c \in Calls :
           LET ds == Started(tk, cs) IN
           /\ ds[c].by = cs[c].by /\ ds[c].to = cs[c].to
           /\ \/ ds[c].status = cs[c].status
              \/ c \in tk.batch /\ cs[c].status = "scheduled" /\ ds[c].status = "executing"
<1> TAKE c \in Calls
<1> DEFINE ds == Started(tk, cs)
<1>1. cs[c] \in CallType
  BY DEF CallMap
<1>2. \/ ds[c] = cs[c]
      \/ /\ c \in tk.batch /\ cs[c].status = "scheduled"
         /\ ds[c] = [cs[c] EXCEPT !.status = "executing"]
  BY DEF Started
<1> QED BY <1>1, <1>2 DEF CallType

(* What _schedulerToolCallsUpdate makes of a Task.                         *)
LEMMA NotifiedIs ==
  ASSUME NEW tk \in TaskType, NEW ds
  PROVE  LET tn == Notified(tk, ds) IN
         /\ tn.pending = Registered(tk, ds)
         /\ tn.promise = IF tn.pending = {} THEN "resolved" ELSE "open"
         /\ tn.details = tk.details \cup {c \in tn.pending : ds[c].status = "awaiting"}
         /\ tn.batch = tk.batch /\ tn.completed = tk.completed
         /\ tn.state \in {tk.state, "input-required"}
<1> DEFINE p == Registered(tk, ds)
           new == [tk EXCEPT
             !.pending = p, !.promise = IF p = {} THEN "resolved" ELSE "open",
             !.details = @ \cup {c \in p : ds[c].status = "awaiting"}]
<1>1. Notified(tk, ds) = Announced(new, ds)
  BY DEF Notified
<1>2. /\ new.pending = p /\ new.promise = IF p = {} THEN "resolved" ELSE "open"
      /\ new.details = tk.details \cup {c \in p : ds[c].status = "awaiting"}
      /\ new.batch = tk.batch /\ new.completed = tk.completed /\ new.state = tk.state
      /\ new \in TaskType
  <2>1. p \subseteq Calls
    BY RegisteredTyped
  <2> HIDE DEF p
  <2> QED BY <2>1 DEF TaskType
<1> HIDE DEF p, new
<1>3. Notified(tk, ds) = [new EXCEPT !.state = IF Announces(new, ds) THEN "input-required" ELSE @]
  BY <1>1 DEF Announced
<1>4. /\ Notified(tk, ds).pending = p /\ Notified(tk, ds).promise = IF p = {} THEN "resolved" ELSE "open"
      /\ Notified(tk, ds).details = tk.details \cup {c \in p : ds[c].status = "awaiting"}
      /\ Notified(tk, ds).batch = tk.batch /\ Notified(tk, ds).completed = tk.completed
      /\ Notified(tk, ds).state \in {tk.state, "input-required"}
  BY <1>2, <1>3 DEF TaskType
<1> QED BY <1>4 DEF p

(* What the report of a complete batch makes of a Task.                    *)
LEMMA ReportedIs ==
  ASSUME NEW tk \in TaskType, NEW ds
  PROVE  LET tn == Reported(tk, ds) IN
         /\ tn.pending = tk.pending /\ tn.promise = tk.promise /\ tn.details = tk.details
         /\ tn.state = tk.state
         /\ IF \A c \in tk.batch : ds[c].status \in Terminal
            THEN tn.batch = {} /\ tn.completed = tk.completed \cup tk.batch
            ELSE tn.batch = tk.batch /\ tn.completed = tk.completed
BY DEF Reported, TaskType

(* The three together.                                                     *)
LEMMA SchedulerMoves ==
  ASSUME NEW tk \in TaskType, NEW cs \in CallMap
  PROVE  LET ds == Started(tk, cs) IN Moves(tk, cs, Reported(Notified(tk, ds), ds), ds)
<1> DEFINE ds == Started(tk, cs)
           told == Notified(tk, ds)
           tn == Reported(told, ds)
<1>1. \A c \in Calls :
           /\ ds[c].by = cs[c].by /\ ds[c].to = cs[c].to
           /\ \/ ds[c].status = cs[c].status
              \/ c \in tk.batch /\ cs[c].status = "scheduled" /\ ds[c].status = "executing"
  BY StartedIs
<1> HIDE DEF ds
<1>2. /\ told.pending = Registered(tk, ds)
      /\ told.promise = IF told.pending = {} THEN "resolved" ELSE "open"
      /\ told.details = tk.details \cup {c \in told.pending : ds[c].status = "awaiting"}
      /\ told.batch = tk.batch /\ told.completed = tk.completed
      /\ told.state \in {tk.state, "input-required"} /\ told \in TaskType
  BY NotifiedIs, NotifiedTyped
<1> HIDE DEF told
<1>3. /\ tn.pending = told.pending /\ tn.promise = told.promise /\ tn.details = told.details
      /\ tn.state = told.state
      /\ IF \A c \in told.batch : ds[c].status \in Terminal
         THEN tn.batch = {} /\ tn.completed = told.completed \cup told.batch
         ELSE tn.batch = told.batch /\ tn.completed = told.completed
  BY <1>2, ReportedIs
<1> HIDE DEF tn
<1>4. Registered(tk, ds) = {c \in tk.batch : ds[c].status \notin Terminal}
  BY DEF Registered
<1>5. Moves(tk, cs, tn, ds)
  BY <1>1, <1>2, <1>3, <1>4 DEF Moves
<1> QED BY <1>5 DEF tn, told, ds

-----------------------------------------------------------------------------
(* The calls of a step                                                     *)

Goes(m) ==
  /\ request[m].pc \notin Entering =>
       request'[m].pc \notin Entering /\ request'[m].task = request[m].task
  /\ \/ request'[m].wants = {}
     \/ /\ request'[m].wants = request[m].wants
        /\ request'[m].pc \in {"streamed", "queued"} => request[m].pc \in {"streamed", "queued"}

(* A call that comes to be answered has a prompt in the Task.               *)
Asks ==
  \A c \in Calls : request'[c].pc = "answering" =>
    \/ request[c].pc = "answering" /\ request'[c].task = request[c].task
    \/ request'[c].task \in Tasks /\ c \in task'[request'[c].task].details

SameCalls ==
  \A c \in Calls : /\ call'[c].by = call[c].by /\ call'[c].to = call[c].to
                   /\ call'[c].status = call[c].status

(* Who a call, a Task and a request belong to.                             *)
LEMMA ByIs ==
  ASSUME ServerInv
  PROVE  /\ \A c \in Calls : call[c] \in CallType /\ call[c].by \in Messages \cup {None}
         /\ None \notin Messages
         /\ \A t \in Tasks : task[t].batch \subseteq Calls /\ task[t].completed \subseteq Calls
                             /\ task[t] \in TaskType /\ task[t].details \subseteq Calls
         /\ \A m \in Messages : request[m].wants \subseteq Calls /\ request[m] \in RequestType
                                /\ RequestOK(m, request[m], made)
<1>1. /\ task \in TaskMap /\ request \in RequestMap /\ call \in CallMap
      /\ \A r \in Requests : request[r] \in RequestType /\ RequestOK(r, request[r], made)
  BY Parts
<1>2. None \notin Messages
  BY ConstantsOK DEF Messages
<1>3. \A c \in Calls : call[c] \in CallType
  BY <1>1 DEF CallMap
<1>4. \A t \in Tasks : task[t] \in TaskType
  BY <1>1 DEF TaskMap
<1>5. \A x \in CallType : x.by \in Messages \cup {None}
  BY DEF CallType
<1>6. \A x \in TaskType : x.batch \subseteq Calls /\ x.completed \subseteq Calls /\ x.details \subseteq Calls
  BY DEF TaskType
<1>7. \A x \in RequestType : x.wants \subseteq Calls
  BY DEF RequestType
<1> QED BY <1>1, <1>2, <1>3, <1>4, <1>5, <1>6, <1>7, MessagesAreRequests

Keeps(t) ==
  \/ /\ task'[t].batch = task[t].batch /\ task'[t].completed = task[t].completed
     /\ task'[t].details \subseteq task[t].details
  \/ task'[t].batch = {} /\ task'[t].completed = {} /\ task'[t].details = {}

(* The call of a prompt that is being answered.                             *)
LEMMA AsksIs ==
  ASSUME ServerInv, CallsInv, Asks, \A t \in Tasks : HeldOK(t)', \A m \in Messages : Goes(m),
         \A c \in Calls : call'[c].by = call[c].by,
         \A c \in Calls : call[c].status \notin {"new", "requested", "dropped"} =>
                           call'[c].status \notin {"new", "requested", "dropped"}
  PROVE  \A c \in Calls : AnswerOK(c)'
<1> SUFFICES ASSUME NEW c \in Calls, request'[c].pc = "answering"
             PROVE  /\ call'[c].status \notin {"new", "requested", "dropped"}
                    /\ request'[call'[c].by].task = request'[c].task
  BY DEF AnswerOK
<1>1. CASE request'[c].task \in Tasks /\ c \in task'[request'[c].task].details
  BY <1>1 DEF HeldOK
<1>2. CASE request[c].pc = "answering" /\ request'[c].task = request[c].task
  <2>1. AnswerOK(c) /\ CallOK(c) /\ call[c].by \in Messages \cup {None}
    BY ByIs DEF CallsInv
  <2>2. call[c].by \in Messages /\ request[call[c].by].pc \notin Entering
        /\ call[c].status \notin {"new", "requested", "dropped"}
        /\ request[call[c].by].task = request[c].task
    BY <1>2, <2>1 DEF AnswerOK, CallOK
  <2> QED BY <1>2, <2>2 DEF Goes
<1> QED BY <1>1, <1>2 DEF Asks

(* CallsInv when no call changes and the Tasks keep what they have.        *)
LEMMA CallsRest ==
  ASSUME ServerInv, CallsInv, SameCalls, \A m \in Messages : Goes(m), Asks,
         \A t \in Tasks : Keeps(t)
  PROVE  CallsInv'
<1>1. \A c \in Calls : call[c].by \in Messages \cup {None}
  BY ByIs
<1>2. \A c \in Calls : CallOK(c)'
  <2> TAKE c \in Calls
  <2>1. CallOK(c)
    BY DEF CallsInv
  <2> QED BY <1>1, <2>1 DEF CallOK, SameCalls, Goes
<1>3. \A m \in Messages : WantsOK(m)'
  <2> TAKE m \in Messages
  <2>1. WantsOK(m) /\ request[m].wants \subseteq Calls
    BY ByIs DEF CallsInv
  <2> QED BY <2>1 DEF WantsOK, SameCalls, Goes
<1>4. \A t \in Tasks : HeldOK(t)'
  <2> TAKE t \in Tasks
  <2>1. HeldOK(t) /\ task[t].batch \subseteq Calls /\ task[t].completed \subseteq Calls
        /\ task[t].details \subseteq Calls
    BY ByIs DEF CallsInv
  <2>2. CASE task'[t].batch = {} /\ task'[t].completed = {} /\ task'[t].details = {}
    BY <2>2 DEF HeldOK
  <2>3. CASE /\ task'[t].batch = task[t].batch /\ task'[t].completed = task[t].completed
             /\ task'[t].details \subseteq task[t].details
    <3>1. ASSUME NEW c \in task[t].batch \cup task[t].completed
          PROVE  /\ call'[c].to = None /\ call'[c].status \notin {"new", "requested", "dropped"}
                 /\ request'[call'[c].by].task = t
      <4>1. c \in Calls /\ CallOK(c)
        BY <2>1, <3>1 DEF CallsInv
      <4>2. /\ call[c].to = None /\ call[c].status \notin {"new", "requested", "dropped"}
            /\ request[call[c].by].task = t
        BY <2>1, <3>1 DEF HeldOK
      <4>3. call[c].by \in Messages /\ request[call[c].by].pc \notin Entering
        BY <1>1, <4>1, <4>2 DEF CallOK
      <4> QED BY <4>1, <4>2, <4>3 DEF SameCalls, Goes
    <3>2. ASSUME NEW c \in task[t].completed
          PROVE  call'[c].status \in Terminal /\ c \notin task'[t].batch
      BY <2>1, <2>3 DEF HeldOK, SameCalls
    <3>3. ASSUME NEW c \in task'[t].details
          PROVE  /\ call'[c].status \notin {"new", "requested", "dropped"}
                 /\ request'[call'[c].by].task = t
      <4>1. c \in Calls /\ CallOK(c) /\ c \in task[t].details
        BY <2>1, <2>3 DEF CallsInv
      <4>2. call[c].status \notin {"new", "requested", "dropped"} /\ request[call[c].by].task = t
        BY <2>1, <4>1 DEF HeldOK
      <4>3. call[c].by \in Messages /\ request[call[c].by].pc \notin Entering
        BY <1>1, <4>1, <4>2 DEF CallOK
      <4> QED BY <4>1, <4>2, <4>3 DEF SameCalls, Goes
    <3> QED BY <2>3, <3>1, <3>2, <3>3 DEF HeldOK
  <2> QED BY <2>2, <2>3 DEF Keeps
<1>5. \A c \in Calls : AnswerOK(c)'
  BY <1>4, AsksIs DEF SameCalls
<1> QED BY <1>2, <1>3, <1>4, <1>5 DEF CallsInv

(* The Task tk has what the scheduler may run for task t.                   *)
Ready(t, tk, cs) ==
  /\ tk.completed = task[t].completed /\ tk.details = task[t].details
  /\ \A c \in Calls : /\ cs[c].by = call[c].by /\ cs[c].to = call[c].to
                      /\ c \notin tk.batch => cs[c].status = call[c].status
  /\ \A c \in tk.batch :
       /\ c \in Calls /\ call[c].to = None /\ call[c].by # None
       /\ request[call[c].by].task = t /\ c \notin tk.completed
       /\ cs[c].status \notin {"new", "requested", "dropped"}
       /\ call[c].status = "requested" => request'[call[c].by].pc \notin {"streamed", "queued"}

(* CallsInv when the scheduler of a Task goes on.                          *)
LEMMA CallsMove ==
  ASSUME ServerInv, CallsInv, NEW t \in Tasks, NEW tk \in TaskType, NEW cs, NEW tn,
         Ready(t, tk, cs), Moves(tk, cs, tn, call'),
         task'[t].batch = tn.batch, task'[t].completed = tn.completed,
         task'[t].details \subseteq tn.details,
         \A u \in Tasks \ {t} : task'[u] = task[u],
         \A m \in Messages : Goes(m), Asks
  PROVE  CallsInv'
<1>1. \A c \in Calls : call[c].by \in Messages \cup {None} /\ CallOK(c)
  BY ByIs DEF CallsInv
<1>2. \A c \in Calls :
        /\ call'[c].by = call[c].by /\ call'[c].to = call[c].to
        /\ c \notin tk.batch => call'[c].status = call[c].status
        /\ c \in tk.batch => call'[c].status \notin {"new", "requested", "dropped"}
  BY DEF Moves, Ready
<1>3. \A c \in Calls : CallOK(c)'
  <2> TAKE c \in Calls
  <2>1. c \in tk.batch => call[c].by # None
    BY DEF Ready
  <2>2. /\ call'[c].by = call[c].by /\ call'[c].to = call[c].to
        /\ c \notin tk.batch => call'[c].status = call[c].status
        /\ c \in tk.batch => call'[c].status \notin {"new", "requested", "dropped"}
    BY <1>2
  <2>3. call[c].by # None => request'[call[c].by].pc \notin Entering
    BY <1>1 DEF CallOK, Goes
  <2> QED BY <1>1, <2>1, <2>2, <2>3 DEF CallOK
<1>4. \A m \in Messages : WantsOK(m)'
  <2> TAKE m \in Messages
  <2>1. WantsOK(m) /\ request[m].wants \subseteq Calls /\ Goes(m)
    BY ByIs DEF CallsInv
  <2> SUFFICES ASSUME NEW c \in request'[m].wants
               PROVE  /\ call'[c].by = m /\ call'[c].status # "new"
                      /\ request'[m].pc \in {"streamed", "queued"} => call'[c].status = "requested"
    BY DEF WantsOK
  <2>2. /\ c \in request[m].wants /\ c \in Calls
        /\ request'[m].pc \in {"streamed", "queued"} => request[m].pc \in {"streamed", "queued"}
    BY <2>1 DEF Goes
  <2>3. /\ call[c].by = m /\ call[c].status # "new"
        /\ request[m].pc \in {"streamed", "queued"} => call[c].status = "requested"
    BY <2>1, <2>2 DEF WantsOK
  <2>4. c \in tk.batch /\ call[c].status = "requested" => request'[m].pc \notin {"streamed", "queued"}
    BY <2>3 DEF Ready
  <2> QED BY <1>2, <2>2, <2>3, <2>4
<1>5. ASSUME NEW u \in Tasks, NEW c \in task[u].batch \cup task[u].completed
      PROVE  /\ c \in Calls /\ call'[c].to = None /\ call'[c].status \notin {"new", "requested", "dropped"}
             /\ request'[call'[c].by].task = u /\ request[call[c].by].task = u
  <2>1. HeldOK(u) /\ c \in Calls
    BY <1>5, ByIs DEF CallsInv
  <2>2. /\ call[c].to = None /\ call[c].status \notin {"new", "requested", "dropped"}
        /\ request[call[c].by].task = u
    BY <1>5, <2>1 DEF HeldOK
  <2>3. call[c].by \in Messages /\ request[call[c].by].pc \notin Entering
    BY <1>1, <2>1, <2>2 DEF CallOK
  <2> QED BY <1>2, <2>1, <2>2, <2>3 DEF Goes
<1>6. ASSUME NEW c \in tk.batch
      PROVE  /\ call'[c].to = None /\ call'[c].status \notin {"new", "requested", "dropped"}
             /\ request'[call'[c].by].task = t
  <2>1. c \in Calls /\ call[c].to = None /\ call[c].by # None /\ request[call[c].by].task = t
    BY <1>6 DEF Ready
  <2>2. call[c].by \in Messages /\ request[call[c].by].pc \notin Entering
    BY <1>1, <2>1 DEF CallOK
  <2> QED BY <1>2, <1>6, <2>1, <2>2 DEF Goes
<1>7. \A u \in Tasks : \A c \in task[u].completed :
        call'[c].status \in Terminal /\ c \notin tk.batch
  <2> SUFFICES ASSUME NEW u \in Tasks, NEW c \in task[u].completed
               PROVE  call'[c].status \in Terminal /\ c \notin tk.batch
    OBVIOUS
  <2>1. call[c].status \in Terminal /\ c \in Calls /\ request[call[c].by].task = u
    BY <1>5 DEF CallsInv, HeldOK
  <2>2. c \notin tk.batch
    BY <2>1 DEF Ready
  <2> QED BY <1>2, <2>1, <2>2
<1>7a. ASSUME NEW u \in Tasks, NEW c \in task[u].details
       PROVE  /\ call'[c].status \notin {"new", "requested", "dropped"}
              /\ request'[call'[c].by].task = u
  <2>1. HeldOK(u) /\ c \in Calls
    BY <1>7a, ByIs DEF CallsInv
  <2>2. call[c].status \notin {"new", "requested", "dropped"} /\ request[call[c].by].task = u
    BY <1>7a, <2>1 DEF HeldOK
  <2>3. call[c].by \in Messages /\ request[call[c].by].pc \notin Entering
    BY <1>1, <2>1, <2>2 DEF CallOK
  <2> QED BY <1>2, <2>1, <2>2, <2>3 DEF Goes
<1>8. ASSUME NEW u \in Tasks \ {t} PROVE HeldOK(u)'
  <2>1. task'[u] = task[u] /\ HeldOK(u)
    BY DEF CallsInv
  <2> QED BY <1>5, <1>7, <1>7a, <2>1 DEF HeldOK
<1>9. HeldOK(t)'
  <2>1. tk.completed = task[t].completed
    BY DEF Ready
  <2>1a. \A c \in task'[t].details : c \in task[t].details \/ c \in tk.batch
    BY DEF Ready, Moves
  <2>1b. \A c \in task'[t].details :
           call'[c].status \notin {"new", "requested", "dropped"} /\ request'[call'[c].by].task = t
    BY <1>6, <1>7a, <2>1a
  <2>2. CASE tn.batch = tk.batch /\ tn.completed = tk.completed
    BY <1>5, <1>6, <1>7, <2>1, <2>1b, <2>2 DEF HeldOK
  <2>3. CASE tn.pending = {} /\ tn.batch = {} /\ tn.completed = tk.completed \cup tk.batch
    <3>1. \A c \in tk.batch : call'[c].status \in Terminal
      BY <2>3 DEF Moves
    <3> QED BY <1>5, <1>6, <1>7, <2>1, <2>1b, <2>3, <3>1 DEF HeldOK
  <2> QED BY <2>2, <2>3 DEF Moves
<1>10. \A u \in Tasks : HeldOK(u)'
  BY <1>8, <1>9
<1>11. \A c \in Calls : AnswerOK(c)'
  <2>1. \A c \in Calls : call[c].status \notin {"new", "requested", "dropped"} =>
                          call'[c].status \notin {"new", "requested", "dropped"}
    BY <1>2
  <2> QED BY <1>2, <1>10, <2>1, AsksIs
<1> QED BY <1>3, <1>4, <1>10, <1>11 DEF CallsInv

-----------------------------------------------------------------------------
(* Validated, Finished and Answer                                          *)

(* A request that stays where it is keeps its Task and what it wants.      *)
LEMMA StillGoes ==
  ASSUME NEW m \in Messages, StillAs(request'[m], request[m])
  PROVE  Goes(m)
BY DEF StillAs, Goes

(* Nobody comes to answer a prompt when no request moves.                  *)
LEMMA StillAsks ==
  ASSUME \A r \in Requests : StillAs(request'[r], request[r])
  PROVE  Asks
BY MessagesAreRequests DEF StillAs, Asks

(* The scheduler of task t reports a change of call c to status s.          *)
Changes(c, t, s) ==
  /\ t \in 1..made /\ t \in Tasks /\ task[t] \in TaskType /\ c \in task[t].batch
  /\ call[c].status \in {"validating", "executing"} /\ s \in Statuses
  /\ s \notin {"new", "requested", "dropped"}
  /\ Moves(task[t], [call EXCEPT ![c].status = s], task'[t], call')
  /\ \A u \in Tasks \ {t} : task'[u] = task[u]
  /\ request' = Rewoken(request, t, task[t], call')
  /\ UNCHANGED server

(* The effect of Validated and Finished.                                   *)
LEMMA ChangesIs ==
  ASSUME ServerInv, NEW c \in Calls, Validated(c) \/ Finished(c)
  PROVE  \E t, s : Changes(c, t, s)
<1> DEFINE t == TaskOf(c)
<1>1. PICK s \in Statuses : Becomes(c, s) /\ s \notin {"new", "requested", "dropped"}
  BY DEF Validated, Finished, Statuses, Terminal
<1>2. Live(c) /\ UNCHANGED server /\ call[c].status \in {"validating", "executing"}
  BY DEF Validated, Finished
<1>3. t \in 1..made /\ t \in Tasks /\ task[t] \in TaskType /\ c \in task[t].batch
  BY <1>2, LiveHasATask DEF Live
<1>4. task \in TaskMap /\ call \in CallMap
  BY Parts
<1> DEFINE cs == [call EXCEPT ![c].status = s]
<1>5. cs \in CallMap
  BY <1>4, StatusTyped
<1>6. SchedulerStep(t, task[t], cs, request)
  BY <1>1 DEF Becomes
<1> HIDE DEF cs, t
<1>7. call' = Started(task[t], cs)
      /\ task' = [task EXCEPT ![t] = Reported(Notified(task[t], call'), call')]
      /\ request' = Rewoken(request, t, task[t], call')
  BY <1>6 DEF SchedulerStep
<1>8. Moves(task[t], cs, task'[t], call')
  <2>1. task'[t] = Reported(Notified(task[t], call'), call')
    BY <1>3, <1>4, <1>7 DEF TaskMap
  <2> QED BY <1>3, <1>5, <1>7, <2>1, SchedulerMoves
<1>9. \A u \in Tasks \ {t} : task'[u] = task[u]
  BY <1>4, <1>7 DEF TaskMap
<1>10. Changes(c, t, s)
  BY <1>1, <1>2, <1>3, <1>7, <1>8, <1>9 DEF Changes, cs
<1> QED BY <1>10

(* CallsInv when a call changes its status.                                *)
LEMMA ChangesCalls ==
  ASSUME ServerInv, CallsInv, NEW c \in Calls, NEW t, NEW s, Changes(c, t, s)
  PROVE  CallsInv'
<1> DEFINE cs == [call EXCEPT ![c].status = s]
<1>1. /\ task[t] \in TaskType /\ t \in Tasks /\ c \in task[t].batch /\ s \notin {"new", "requested", "dropped"}
      /\ Moves(task[t], cs, task'[t], call') /\ \A u \in Tasks \ {t} : task'[u] = task[u]
      /\ request' = Rewoken(request, t, task[t], call')
  BY DEF Changes
<1>2. call \in CallMap /\ request \in RequestMap
  BY Parts
<1>3. \A d \in Calls : cs[d].by = call[d].by /\ cs[d].to = call[d].to
                       /\ cs[d].status = IF d = c THEN s ELSE call[d].status
  BY <1>2 DEF CallMap, CallType
<1> HIDE DEF cs
<1>4. Ready(t, task[t], cs)
  <2>1. HeldOK(t) /\ task[t].batch \subseteq Calls
    BY <1>1, ByIs DEF CallsInv
  <2>2. ASSUME NEW d \in task[t].batch
        PROVE  /\ d \in Calls /\ call[d].to = None /\ call[d].by # None
               /\ request[call[d].by].task = t /\ d \notin task[t].completed
               /\ cs[d].status \notin {"new", "requested", "dropped"}
               /\ call[d].status # "requested"
    <3>1. d \in Calls /\ CallOK(d)
      BY <2>1 DEF CallsInv
    <3> QED BY <1>1, <1>3, <2>1, <3>1 DEF HeldOK, CallOK
  <2> QED BY <1>1, <1>3, <2>2 DEF Ready
<1>5. \A r \in Requests : StillAs(request'[r], request[r])
  BY <1>1, <1>2, RewokenIs
<1>6. Asks /\ \A m \in Messages : Goes(m)
  BY <1>5, StillGoes, StillAsks, MessagesAreRequests
<1> QED BY <1>1, <1>4, <1>6, CallsMove

(* The answer to the prompt of call c is dealt with.  Its Task is seen as   *)
(* tk by the scheduler and becomes tn before the prompt is forgotten.       *)
Answers(c, t, tk, cs, tn, reqs) ==
  /\ t = request[c].task /\ t \in 1..made /\ t \in Tasks /\ task[t] \in TaskType
  /\ tk \in TaskType /\ tk.batch = task[t].batch /\ tk.completed = task[t].completed
  /\ tk.pending = task[t].pending /\ tk.details = task[t].details
  /\ tk.state \in {task[t].state, "input-required"}
  /\ \A d \in Calls : cs[d].by = call[d].by /\ cs[d].to = call[d].to
                      /\ (d # c => cs[d].status = call[d].status)
  /\ reqs \in RequestMap /\ \A r \in Requests \ {c} : reqs[r] = request[r]
  /\ reqs[c].task = t /\ reqs[c].primary = request[c].primary /\ reqs[c].wants = request[c].wants
  /\ reqs[c].ended = request[c].ended
  /\ reqs[c].pc = "accepted"
  /\ \/ /\ Live(c) /\ call[c].status = "awaiting" /\ cs[c].status \in {"scheduled", "cancelled"}
        /\ Moves(tk, cs, tn, call') /\ request' = Rewoken(reqs, t, tk, call')
     \/ /\ ~ (Live(c) /\ call[c].status = "awaiting")
        /\ tn = task[t] /\ UNCHANGED call /\ request' = reqs
  /\ task'[t].batch = tn.batch /\ task'[t].completed = tn.completed
  /\ task'[t].pending = tn.pending /\ task'[t].promise = tn.promise
  /\ task'[t].details = tn.details \ {c}
  /\ task'[t].state = tn.state
  /\ \A u \in Tasks \ {t} : task'[u] = task[u]
  /\ UNCHANGED server

(* The effect of Answer.                                                   *)
LEMMA AnswersIs ==
  ASSUME ServerInv, NEW c \in Calls, Answer(c)
  PROVE  \E t, tk, cs, tn, reqs : Answers(c, t, tk, cs, tn, reqs)
<1> DEFINE t == request[c].task
           rec == [request[c] EXCEPT !.pc = "accepted"]
           forgets(tk) == [tk EXCEPT !.details = @ \ {c}]
           shown(s) == IF call[c].outcome = "edit" /\ s = "scheduled"
                       THEN Announced(task[t], call) ELSE task[t]
           cs(s) == [call EXCEPT ![c].status = s]
           now(s) == Started(task[t], cs(s))
           told(s) == Reported(Notified(shown(s), now(s)), now(s))
           reqs == [request EXCEPT ![c] = rec]
<1>0. request[c].pc = "answering" /\ request[c].pc \in Active /\ UNCHANGED server /\ c \in Messages
  BY MessagesAreRequests DEF Answer, Active
<1>1. /\ c \in Requests /\ TypeOK /\ task \in TaskMap /\ request \in RequestMap
      /\ call \in CallMap /\ TasksOK /\ request[c] \in RequestType
      /\ RequestOK(c, request[c], made)
      /\ t \in 1..made /\ t \in Tasks /\ task[t] \in TaskType
  BY <1>0, ActiveIs
<1>2. PICK s \in {"cancelled", "scheduled"} :
        \/ /\ Live(c) /\ call[c].status = "awaiting"
           /\ call' = now(s) /\ task' = [task EXCEPT ![t] = forgets(told(s))]
           /\ request' = Rewoken([request EXCEPT ![c].pc = "accepted"], t, shown(s), now(s))
        \/ /\ ~ (Live(c) /\ call[c].status = "awaiting")
           /\ task' = [task EXCEPT ![t] = forgets(task[t])]
           /\ request' = [request EXCEPT ![c].pc = "accepted"]
           /\ UNCHANGED call
  BY <1>1 DEF Answer, TaskMap
<1>3. \A tk \in TaskType :
        /\ forgets(tk).batch = tk.batch /\ forgets(tk).completed = tk.completed
        /\ forgets(tk).pending = tk.pending /\ forgets(tk).promise = tk.promise
        /\ forgets(tk).details = tk.details \ {c} /\ forgets(tk).state = tk.state
  BY DEF TaskType
<1>4. /\ shown(s) \in TaskType /\ shown(s).batch = task[t].batch /\ shown(s).completed = task[t].completed
      /\ shown(s).pending = task[t].pending /\ shown(s).details = task[t].details
      /\ shown(s).state \in {task[t].state, "input-required"}
  <2>1. /\ Announced(task[t], call) \in TaskType
        /\ Announced(task[t], call).batch = task[t].batch
        /\ Announced(task[t], call).completed = task[t].completed
        /\ Announced(task[t], call).pending = task[t].pending
        /\ Announced(task[t], call).details = task[t].details
        /\ Announced(task[t], call).state \in {task[t].state, "input-required"}
    BY <1>1, AnnouncedTyped DEF Announced, TaskType
  <2> QED BY <1>1, <2>1
<1>6. cs(s) \in CallMap
  <2>1. s \in Statuses
    BY DEF Statuses, Terminal
  <2> QED BY <1>1, <2>1, StatusTyped
<1>7. \A d \in Calls : cs(s)[d].by = call[d].by /\ cs(s)[d].to = call[d].to
                       /\ cs(s)[d].status = IF d = c THEN s ELSE call[d].status
  BY <1>1 DEF CallMap, CallType
<1>8. [request EXCEPT ![c].pc = "accepted"] = reqs
  BY <1>1
<1>9. /\ rec \in RequestType /\ rec.task = t /\ rec.primary = request[c].primary
      /\ rec.pc = "accepted" /\ rec.ended = request[c].ended /\ rec.wants = request[c].wants
  BY <1>1 DEF RequestType, Steps
<1> HIDE DEF rec
<1>10. reqs \in RequestMap /\ reqs[c] = rec /\ \A r \in Requests \ {c} : reqs[r] = request[r]
  BY <1>1, <1>9 DEF RequestMap
<1> HIDE DEF cs
<1>11. Started(shown(s), cs(s)) = now(s)
  BY <1>4 DEF Started
<1>12. told(s) \in TaskType /\ Moves(shown(s), cs(s), told(s), now(s))
  <2> HIDE DEF shown, now
  <2>1. told(s) \in TaskType
    BY <1>4, NotifiedTyped, ReportedTyped
  <2>2. Moves(shown(s), cs(s), Reported(Notified(shown(s), Started(shown(s), cs(s))), Started(shown(s), cs(s))),
              Started(shown(s), cs(s)))
    BY <1>4, <1>6, SchedulerMoves
  <2> QED BY <1>11, <2>1, <2>2
<1> HIDE DEF shown, now, told, forgets, reqs
<1>14. CASE /\ Live(c) /\ call[c].status = "awaiting"
            /\ call' = now(s) /\ task' = [task EXCEPT ![t] = forgets(told(s))]
            /\ request' = Rewoken(reqs, t, shown(s), now(s))
  <2>1. task'[t] = forgets(told(s)) /\ \A u \in Tasks \ {t} : task'[u] = task[u]
    BY <1>1, <1>14 DEF TaskMap
  <2>2. /\ task'[t].batch = told(s).batch /\ task'[t].completed = told(s).completed
        /\ task'[t].pending = told(s).pending /\ task'[t].promise = told(s).promise
        /\ task'[t].details = told(s).details \ {c}
        /\ task'[t].state = told(s).state
    BY <1>3, <1>12, <2>1
  <2>3. Answers(c, t, shown(s), cs(s), told(s), reqs)
    BY <1>0, <1>1, <1>2, <1>4, <1>7, <1>9, <1>10, <1>12, <1>14, <2>1, <2>2 DEF Answers
  <2> QED BY <2>3
<1>15. CASE /\ ~ (Live(c) /\ call[c].status = "awaiting")
            /\ task' = [task EXCEPT ![t] = forgets(task[t])]
            /\ request' = reqs
            /\ UNCHANGED call
  <2>1. task'[t] = forgets(task[t]) /\ \A u \in Tasks \ {t} : task'[u] = task[u]
    BY <1>1, <1>15 DEF TaskMap
  <2>2. /\ task'[t].batch = task[t].batch /\ task'[t].completed = task[t].completed
        /\ task'[t].pending = task[t].pending /\ task'[t].promise = task[t].promise
        /\ task'[t].details = task[t].details \ {c}
        /\ task'[t].state = task[t].state
    BY <1>1, <1>3, <2>1
  <2>3. Answers(c, t, shown(s), cs(s), task[t], reqs)
    BY <1>0, <1>1, <1>4, <1>7, <1>9, <1>10, <1>15, <2>1, <2>2 DEF Answers
  <2> QED BY <2>3
<1> QED BY <1>2, <1>8, <1>14, <1>15

(* CallsInv when an answer is dealt with.                                  *)
LEMMA AnswersCalls ==
  ASSUME ServerInv, CallsInv, NEW c \in Calls, request[c].pc = "answering",
         NEW t, NEW tk, NEW cs, NEW tn, NEW reqs, Answers(c, t, tk, cs, tn, reqs)
  PROVE  CallsInv'
<1>1. /\ t = request[c].task /\ t \in Tasks /\ task[t] \in TaskType /\ tk \in TaskType
      /\ tk.batch = task[t].batch /\ tk.completed = task[t].completed
      /\ task'[t].batch = tn.batch /\ task'[t].completed = tn.completed
      /\ \A u \in Tasks \ {t} : task'[u] = task[u]
      /\ \A r \in Requests \ {c} : reqs[r] = request[r]
      /\ reqs[c].task = t /\ reqs[c].wants = request[c].wants
      /\ reqs[c].pc = "accepted" /\ reqs \in RequestMap
  BY DEF Answers
<1>2. request[c].wants = {} /\ c \in Messages /\ c \in Requests
  BY ByIs, MessagesAreRequests DEF RequestOK
<1>3. \A r \in Requests : StillAs(request'[r], reqs[r])
  <2>1. \A r \in Requests : StillAs(reqs[r], reqs[r])
    BY DEF StillAs
  <2> QED BY <1>1, <2>1, RewokenIs DEF Answers
<1>4. \A m \in Messages : Goes(m)
  <2>1. \A m \in Messages \ {c} : Goes(m)
    BY <1>1, <1>3, StillGoes, MessagesAreRequests
  <2>2. Goes(c)
    BY <1>1, <1>2, <1>3 DEF StillAs, Goes, Entering
  <2> QED BY <2>1, <2>2
<1>4a. Asks
  <2> SUFFICES ASSUME NEW d \in Calls, request'[d].pc = "answering"
               PROVE  request[d].pc = "answering" /\ request'[d].task = request[d].task
    BY DEF Asks
  <2>1. d \in Requests
    BY MessagesAreRequests
  <2> QED BY <1>1, <1>3, <2>1 DEF StillAs
<1>5. CASE /\ Live(c) /\ call[c].status = "awaiting" /\ cs[c].status \in {"scheduled", "cancelled"}
           /\ Moves(tk, cs, tn, call')
  <2>1. \A d \in Calls : cs[d].by = call[d].by /\ cs[d].to = call[d].to
                      /\ (d # c => cs[d].status = call[d].status)
    BY DEF Answers
  <2>2. HeldOK(t) /\ task[t].batch \subseteq Calls
    BY <1>1, ByIs DEF CallsInv
  <2>3. c \in task[t].batch
    <3>1. AnswerOK(c)
      BY DEF CallsInv
    <3> QED BY <1>1, <1>5, <3>1 DEF AnswerOK, Live, TaskOf
  <2>4. ASSUME NEW d \in tk.batch
        PROVE  /\ d \in Calls /\ call[d].to = None /\ call[d].by # None
               /\ request[call[d].by].task = t /\ d \notin tk.completed
               /\ cs[d].status \notin {"new", "requested", "dropped"}
               /\ call[d].status # "requested"
    <3>1. d \in Calls /\ CallOK(d)
      BY <1>1, <2>2 DEF CallsInv
    <3> QED BY <1>1, <1>5, <2>1, <2>2, <3>1 DEF HeldOK, CallOK
  <2>5. tk.details = task[t].details /\ task'[t].details \subseteq tn.details
    BY DEF Answers
  <2>6. Ready(t, tk, cs)
    BY <1>1, <2>1, <2>3, <2>4, <2>5 DEF Ready
  <2> QED BY <1>1, <1>4, <1>4a, <1>5, <2>5, <2>6, CallsMove
<1>6. CASE tn = task[t] /\ UNCHANGED call
  <2>1. SameCalls
    BY <1>6 DEF SameCalls
  <2>2. task'[t].details \subseteq task[t].details
    BY <1>6 DEF Answers
  <2>3. \A u \in Tasks : Keeps(u)
    BY <1>1, <1>6, <2>2 DEF Keeps
  <2> QED BY <1>4, <1>4a, <2>1, <2>3, CallsRest
<1> QED BY <1>5, <1>6 DEF Answers

-----------------------------------------------------------------------------
(* The stream ends                                                         *)

(* Only the record of request m changes.                                    *)
Only(m) == \A r \in Requests \ {m} : request'[r] = request[r]
OnlyTask(t) == \A u \in Tasks \ {t} : task'[u] = task[u]
(* The Task tn has the calls of tk.                                         *)
SameWork(tk, tn) ==
  tn.batch = tk.batch /\ tn.completed = tk.completed /\ tn.details = tk.details
SamePending(tk, tn) == tn.pending = tk.pending /\ tn.promise = tk.promise
NothingPending(tn) == tn.pending = {} /\ tn.promise = "resolved"

(* What the stream of m asks for: the calls cs.                             *)
Asked(m, cs, s) ==
  /\ cs \subseteq Calls /\ \A c \in cs : call[c].status = "new"
  /\ \A c \in Calls : call'[c].to = call[c].to
  /\ \A c \in cs : call'[c].status = s /\ call'[c].by = m
  /\ \A c \in Calls \ cs : call'[c].status = call[c].status /\ call'[c].by = call[c].by

(* The effect of the requests in a stream.                                 *)
LEMMA AskedIs ==
  ASSUME call \in CallMap, NEW m, NEW cs \in SUBSET NewCalls, NEW s, call' = Requested(cs, m, s)
  PROVE  Asked(m, cs, s)
<1>1. cs \subseteq Calls /\ \A c \in cs : call[c].status = "new"
  BY DEF NewCalls
<1>2. \A c \in Calls : call[c] \in CallType
  BY DEF CallMap
<1> QED BY <1>1, <1>2 DEF Asked, Requested, CallType

(* CallsInv when new calls are asked for.                                  *)
LEMMA AskedCalls ==
  ASSUME ServerInv, CallsInv, NEW m \in Messages, m \in Requests, NEW cs, NEW s \in {"requested", "dropped"},
         Asked(m, cs, s), Only(m), request[m].pc = "streaming",
         request'[m].pc \in {"streamed", "done"}, request'[m].task = request[m].task,
         request'[m].wants = {} \/ (s = "requested" /\ request'[m].wants = cs),
         \A t \in Tasks : SameWork(task[t], task'[t])
  PROVE  CallsInv'
<1>0. \A c \in Calls : call[c].by \in Messages \cup {None} /\ CallOK(c) /\ AnswerOK(c)
  BY ByIs DEF CallsInv
<1>n. None \notin Messages
  BY ByIs
<1>1. \A c \in Calls : call[c].status # "new" =>
        c \notin cs /\ call'[c].status = call[c].status /\ call'[c].by = call[c].by /\ call'[c].to = call[c].to
  BY DEF Asked
<1>2. \A n \in Messages : n # m => request'[n] = request[n]
  BY MessagesAreRequests DEF Only
<1>3. \A n \in Messages : request[n].pc \notin Entering =>
        request'[n].pc \notin Entering /\ request'[n].task = request[n].task
  BY <1>2 DEF Entering
<1>3m. request'[m].pc \notin Entering
  BY DEF Entering
<1>4. \A c \in Calls : CallOK(c)'
  <2> TAKE c \in Calls
  <2>1. CASE c \in cs
    BY <1>0, <1>n, <1>3m, <2>1 DEF Asked, CallOK
  <2>2. CASE c \notin cs
    BY <1>0, <1>3, <2>2 DEF Asked, CallOK
  <2> QED BY <2>1, <2>2
<1>5. \A n \in Messages : WantsOK(n)'
  <2> TAKE n \in Messages
  <2>1. WantsOK(n) /\ request[n].wants \subseteq Calls
    BY ByIs DEF CallsInv
  <2>2. CASE n = m
    BY <2>2 DEF WantsOK, Asked
  <2>3. CASE n # m
    BY <1>1, <1>2, <2>1, <2>3 DEF WantsOK
  <2> QED BY <2>2, <2>3
<1>6. \A t \in Tasks : HeldOK(t)'
  <2> SUFFICES ASSUME NEW t \in Tasks PROVE HeldOK(t)'
    OBVIOUS
  <2>1. HeldOK(t) /\ task[t].batch \subseteq Calls /\ task[t].completed \subseteq Calls
        /\ task[t].details \subseteq Calls /\ SameWork(task[t], task'[t])
    BY ByIs DEF CallsInv
  <2>2. ASSUME NEW c \in task[t].batch \cup task[t].completed \cup task[t].details
        PROVE  /\ call'[c].status = call[c].status /\ call'[c].by = call[c].by /\ call'[c].to = call[c].to
               /\ request'[call'[c].by].task = t
    <3>1. c \in Calls /\ call[c].status \notin {"new", "requested", "dropped"} /\ request[call[c].by].task = t
      BY <2>1, <2>2 DEF HeldOK
    <3>2. call[c].by \in Messages /\ request[call[c].by].pc \notin Entering
      BY <1>0, <3>1 DEF CallOK
    <3> QED BY <1>1, <1>3, <3>1, <3>2
  <2> QED BY <2>1, <2>2 DEF HeldOK, SameWork
<1>7. \A c \in Calls : AnswerOK(c)'
  <2> SUFFICES ASSUME NEW c \in Calls, request'[c].pc = "answering"
               PROVE  /\ call'[c].status \notin {"new", "requested", "dropped"}
                      /\ request'[call'[c].by].task = request'[c].task
    BY DEF AnswerOK
  <2>1. c # m /\ request'[c] = request[c]
    BY <1>2, MessagesAreRequests
  <2>2. call[c].status \notin {"new", "requested", "dropped"} /\ request[call[c].by].task = request[c].task
    BY <1>0, <2>1 DEF AnswerOK
  <2>3. call[c].by \in Messages /\ request[call[c].by].pc \notin Entering
    BY <1>0, <2>2 DEF CallOK
  <2> QED BY <1>1, <1>3, <2>1, <2>2, <2>3
<1> QED BY <1>4, <1>5, <1>6, <1>7 DEF CallsInv

(* StreamEnds: m asks its Task to run the calls cs.                         *)
Streamed(m, cs) ==
  LET t == request[m].task IN
  /\ m \in Requests /\ Only(m) /\ Asked(m, cs, "requested")
  /\ request[m].pc = "streaming" /\ request[m].primary
  /\ request'[m].pc = "streamed" /\ request'[m].wants = cs
  /\ request'[m].task = t /\ request'[m].primary = request[m].primary
  /\ request'[m].ended = request[m].ended
  /\ t \in Tasks /\ OnlyTask(t) /\ SameWork(task[t], task'[t]) /\ task'[t].state = task[t].state
  /\ SamePending(task[t], task'[t]) \/ NothingPending(task'[t])
  /\ UNCHANGED server

(* The effect of StreamEnds.                                               *)
LEMMA StreamEndsIs ==
  ASSUME ServerInv, NEW m \in Messages, StreamEnds(m)
  PROVE  \E cs : Streamed(m, cs)
<1>0. request[m].pc = "streaming" /\ request[m].primary /\ request[m].pc \in Active /\ UNCHANGED server
  BY DEF StreamEnds, Active, Working
<1>1. PICK cs \in SUBSET NewCalls :
        /\ call' = Requested(cs, m, "requested")
        /\ request' = [request EXCEPT ![m].pc = "streamed", ![m].wants = cs]
        /\ \/ task' = [task EXCEPT ![request[m].task] = WithoutPending(@)]
           \/ task' = task
  BY DEF StreamEnds
<1> DEFINE rec == [request[m] EXCEPT !.pc = "streamed", !.wants = cs]
           t == request[m].task
<1>3. /\ m \in Requests /\ task \in TaskMap /\ request \in RequestMap
      /\ call \in CallMap /\ request[m] \in RequestType
      /\ t \in Tasks /\ task[t] \in TaskType
  BY <1>0, ActiveIs
<1>4. request' = [request EXCEPT ![m] = rec]
  BY <1>1, <1>3
<1>5. /\ rec.task = t /\ rec.primary = request[m].primary
      /\ rec.pc = "streamed" /\ rec.ended = request[m].ended /\ rec.wants = cs
  BY <1>3 DEF RequestType
<1> HIDE DEF rec
<1>6. request'[m] = rec /\ Only(m)
  BY <1>3, <1>4 DEF Only, RequestMap
<1>7. Asked(m, cs, "requested")
  BY <1>1, <1>3, AskedIs
<1>8. /\ SameWork(task[t], WithoutPending(task[t])) /\ WithoutPending(task[t]).state = task[t].state
      /\ NothingPending(WithoutPending(task[t]))
  BY <1>3 DEF WithoutPending, SameWork, NothingPending, TaskType
<1>9. OnlyTask(t) /\ task'[t] \in {task[t], WithoutPending(task[t])}
  BY <1>1, <1>3 DEF OnlyTask, TaskMap
<1>10. /\ SameWork(task[t], task'[t]) /\ task'[t].state = task[t].state
       /\ SamePending(task[t], task'[t]) \/ NothingPending(task'[t])
  BY <1>8, <1>9 DEF SameWork, SamePending
<1>11. Streamed(m, cs)
  BY <1>0, <1>3, <1>5, <1>6, <1>7, <1>9, <1>10 DEF Streamed
<1> QED BY <1>11

(* CallsInv when the stream ends.                                          *)
LEMMA StreamedCalls ==
  ASSUME ServerInv, CallsInv, NEW m \in Messages, NEW cs, Streamed(m, cs)
  PROVE  CallsInv'
<1>1. \A t \in Tasks : SameWork(task[t], task'[t])
  BY DEF Streamed, OnlyTask, SameWork
<1> QED BY <1>1, AskedCalls DEF Streamed

(* SideStreamEnds: what m asks for on the side is dropped.                  *)
Dropped(m, cs) ==
  /\ m \in Requests /\ Only(m) /\ Asked(m, cs, "dropped")
  /\ request[m].pc = "streaming" /\ ~ request[m].primary
  /\ request'[m].pc = "done" /\ request'[m].wants = {} /\ request[m].wants = {}
  /\ request'[m].task = request[m].task /\ request'[m].primary = request[m].primary
  /\ request'[m].ended = request[m].ended
  /\ UNCHANGED <<task, server>>

(* The effect of SideStreamEnds.                                           *)
LEMMA SideStreamEndsIs ==
  ASSUME ServerInv, NEW m \in Messages, SideStreamEnds(m)
  PROVE  \E cs : Dropped(m, cs)
<1>0. request[m].pc = "streaming" /\ ~ request[m].primary /\ request[m].pc \in Active
      /\ UNCHANGED <<task, server>>
  BY DEF SideStreamEnds, Active, Working
<1>1. PICK cs \in SUBSET NewCalls : call' = Requested(cs, m, "dropped")
  BY DEF SideStreamEnds
<1> DEFINE rec == [request[m] EXCEPT !.pc = "done"]
<1>3. /\ m \in Requests /\ request \in RequestMap
      /\ call \in CallMap /\ request[m] \in RequestType /\ RequestOK(m, request[m], made)
  BY <1>0, ActiveIs
<1>4. request' = [request EXCEPT ![m] = rec]
  BY <1>3 DEF SideStreamEnds
<1>5. /\ rec.task = request[m].task /\ rec.primary = request[m].primary
      /\ rec.pc = "done" /\ rec.ended = request[m].ended /\ rec.wants = request[m].wants
  BY <1>3 DEF RequestType
<1> HIDE DEF rec
<1>6. request'[m] = rec /\ Only(m)
  BY <1>3, <1>4 DEF Only, RequestMap
<1>7. Asked(m, cs, "dropped")
  BY <1>1, <1>3, AskedIs
<1>8. request[m].wants = {}
  BY <1>0, <1>3 DEF RequestOK
<1>9. Dropped(m, cs)
  BY <1>0, <1>3, <1>5, <1>6, <1>7, <1>8 DEF Dropped
<1> QED BY <1>9

(* CallsInv when a stream on the side ends.                                *)
LEMMA DroppedCalls ==
  ASSUME ServerInv, CallsInv, NEW m \in Messages, NEW cs, Dropped(m, cs)
  PROVE  CallsInv'
<1>1. \A t \in Tasks : SameWork(task[t], task'[t])
  BY DEF Dropped, SameWork
<1> QED BY <1>1, AskedCalls DEF Dropped

-----------------------------------------------------------------------------
(* Schedule and wait                                                       *)

(* The request as it was but for what an operator lists.                    *)
Carries(m) ==
  /\ request'[m].task = request[m].task /\ request'[m].primary = request[m].primary
  /\ request'[m].ended = request[m].ended

(* CallsInv when one request moves and no call does.                       *)
LEMMA AloneCalls ==
  ASSUME ServerInv, CallsInv, NEW m \in Requests, \A r \in Requests \ {m} : StillAs(request'[r], request[r]),
         m \in Messages => Goes(m), request'[m].pc # "answering",
         SameCalls, \A t \in Tasks : Keeps(t)
  PROVE  CallsInv'
<1>1. \A n \in Messages : Goes(n)
  <2>1. \A n \in Messages \ {m} : Goes(n)
    BY StillGoes, MessagesAreRequests
  <2> QED BY <2>1
<1>2. Asks
  <2> SUFFICES ASSUME NEW d \in Calls, request'[d].pc = "answering"
               PROVE  request[d].pc = "answering" /\ request'[d].task = request[d].task
    BY DEF Asks
  <2>1. d \in Requests /\ d # m
    BY MessagesAreRequests
  <2> QED BY <2>1 DEF StillAs
<1> QED BY <1>1, <1>2, CallsRest

(* The requests that do not change stay where they are.                    *)
LEMMA OnlyStill ==
  ASSUME NEW m, Only(m)
  PROVE  \A r \in Requests \ {m} : StillAs(request'[r], request[r])
BY DEF Only, StillAs

(* m hands its calls to the scheduler, which sees its Task as tk and them   *)
(* as in cs.                                                                *)
Schedules(m, tk, cs, reqs) ==
  LET t == request[m].task IN
  /\ m \in Requests /\ request[m].pc \in {"streamed", "queued"} /\ request[m].primary
  /\ t \in Tasks /\ task[t].batch = {} /\ request[m].wants \subseteq Calls
  /\ tk \in TaskType /\ tk.batch = request[m].wants /\ tk.completed = task[t].completed
  /\ tk.details = task[t].details /\ tk.pending = task[t].pending
  /\ tk.state \in {task[t].state, "working"}
  /\ \A c \in Calls : cs[c].by = call[c].by /\ cs[c].to = call[c].to
  /\ \A c \in Calls \ request[m].wants : cs[c].status = call[c].status
  /\ \A c \in request[m].wants : cs[c].status \in {"ended", "validating"}
  /\ reqs \in RequestMap /\ \A r \in Requests \ {m} : reqs[r] = request[r]
  /\ reqs[m].pc = "scheduling" /\ reqs[m].task = t /\ reqs[m].primary = request[m].primary
  /\ reqs[m].wants = request[m].wants /\ reqs[m].ended = request[m].ended
  /\ Moves(tk, cs, task'[t], call') /\ OnlyTask(t)
  /\ request' = Rewoken(reqs, t, tk, call') /\ UNCHANGED server

(* The effect of Schedule.                                                 *)
LEMMA ScheduleIs ==
  ASSUME ServerInv, NEW m \in Messages, request[m].pc \in {"streamed", "queued"},
         task[request[m].task].batch = {}, NEW tk0 \in TaskType,
         tk0.completed = task[request[m].task].completed, tk0.details = task[request[m].task].details,
         tk0.pending = task[request[m].task].pending,
         tk0.state \in {task[request[m].task].state, "working"}, Schedule(m, tk0)
  PROVE  \E tk, cs, reqs : Schedules(m, tk, cs, reqs)
<1> DEFINE t == request[m].task
           wants == request[m].wants
           rec == [request[m] EXCEPT !.pc = "scheduling"]
           tk == [tk0 EXCEPT !.batch = wants]
           cs(bad) == [c \in Calls |->
            IF c \in bad THEN [call[c] EXCEPT !.status = "ended"]
            ELSE IF c \in wants THEN [call[c] EXCEPT !.status = "validating"]
            ELSE call[c]]
           reqs == [request EXCEPT ![m] = rec]
<1>0. request[m].pc \in Active
  BY DEF Active, Working
<1>3. /\ m \in Requests /\ task \in TaskMap /\ request \in RequestMap
      /\ call \in CallMap /\ request[m] \in RequestType
      /\ RequestOK(m, request[m], made)
      /\ t \in Tasks
  BY <1>0, ActiveIs
<1>2. request[m].primary
  BY <1>3 DEF RequestOK, Working
<1>1. PICK bad \in SUBSET wants : SchedulerStep(t, tk, cs(bad), [request EXCEPT ![m].pc = "scheduling"])
  BY DEF Schedule
<1>4. [request EXCEPT ![m].pc = "scheduling"] = reqs
  BY <1>3
<1>5. /\ wants \subseteq Calls /\ tk \in TaskType /\ tk.batch = wants /\ tk.completed = tk0.completed
      /\ tk.details = tk0.details /\ tk.pending = tk0.pending /\ tk.state = tk0.state
  BY <1>3 DEF RequestType, TaskType
<1>6. /\ rec \in RequestType /\ rec.task = t /\ rec.primary = request[m].primary
      /\ rec.pc = "scheduling" /\ rec.ended = request[m].ended /\ rec.wants = wants
  BY <1>3 DEF RequestType, Steps
<1>7. cs(bad) \in CallMap
  <2>1. \A x \in CallType : [x EXCEPT !.status = "ended"] \in CallType
                            /\ [x EXCEPT !.status = "validating"] \in CallType
    BY DEF CallType, Statuses, Terminal
  <2> QED BY <1>3, <2>1 DEF CallMap
<1>8. /\ \A c \in Calls : cs(bad)[c].by = call[c].by /\ cs(bad)[c].to = call[c].to
      /\ \A c \in Calls \ wants : cs(bad)[c].status = call[c].status
      /\ \A c \in wants : cs(bad)[c].status \in {"ended", "validating"}
  BY <1>3, <1>5 DEF CallMap, CallType
<1> HIDE DEF rec
<1>9. reqs \in RequestMap /\ reqs[m] = rec /\ \A r \in Requests \ {m} : reqs[r] = request[r]
  BY <1>3, <1>6 DEF RequestMap
<1> HIDE DEF tk, cs, reqs
<1>10. /\ call' = Started(tk, cs(bad))
       /\ task' = [task EXCEPT ![t] = Reported(Notified(tk, call'), call')]
       /\ request' = Rewoken(reqs, t, tk, call')
  BY <1>1, <1>4 DEF SchedulerStep
<1>11. task'[t] = Reported(Notified(tk, call'), call') /\ OnlyTask(t)
  BY <1>3, <1>10 DEF TaskMap, OnlyTask
<1>12. Moves(tk, cs(bad), task'[t], call')
  BY <1>5, <1>7, <1>10, <1>11, SchedulerMoves
<1>13. UNCHANGED server
  BY DEF Schedule
<1>14. Schedules(m, tk, cs(bad), reqs)
  BY <1>2, <1>3, <1>5, <1>6, <1>8, <1>9, <1>10, <1>11, <1>12, <1>13 DEF Schedules
<1> QED BY <1>14

(* CallsInv when a batch is scheduled.                                     *)
LEMMA SchedulesCalls ==
  ASSUME ServerInv, CallsInv, NEW m \in Messages, NEW tk, NEW cs, NEW reqs, Schedules(m, tk, cs, reqs)
  PROVE  CallsInv'
<1> DEFINE t == request[m].task
           wants == request[m].wants
<1>1. /\ m \in Requests /\ request[m].pc \in {"streamed", "queued"}
      /\ t \in Tasks /\ task[t].batch = {} /\ wants \subseteq Calls
      /\ tk \in TaskType /\ tk.batch = wants /\ tk.completed = task[t].completed
      /\ tk.details = task[t].details
      /\ \A c \in Calls : cs[c].by = call[c].by /\ cs[c].to = call[c].to
      /\ \A c \in Calls \ wants : cs[c].status = call[c].status
      /\ \A c \in wants : cs[c].status \in {"ended", "validating"}
      /\ Moves(tk, cs, task'[t], call') /\ OnlyTask(t)
  BY DEF Schedules
<1>2. \A r \in Requests : StillAs(request'[r], reqs[r])
  BY RewokenIs DEF Schedules
<1>3. /\ \A r \in Requests \ {m} : StillAs(request'[r], request[r])
      /\ request'[m].pc = "scheduling" /\ request'[m].task = t /\ request'[m].wants = wants
  BY <1>1, <1>2 DEF Schedules, StillAs
<1>4. \A n \in Messages : Goes(n)
  <2>1. \A n \in Messages \ {m} : Goes(n)
    BY <1>3, StillGoes, MessagesAreRequests
  <2>2. Goes(m)
    BY <1>1, <1>3 DEF Goes, Entering
  <2> QED BY <2>1, <2>2
<1>5. Asks
  <2> SUFFICES ASSUME NEW d \in Calls, request'[d].pc = "answering"
               PROVE  request[d].pc = "answering" /\ request'[d].task = request[d].task
    BY DEF Asks
  <2>1. d \in Requests /\ d # m
    BY <1>3, MessagesAreRequests
  <2> QED BY <1>3, <2>1 DEF StillAs
<1>6. ASSUME NEW c \in wants
      PROVE  /\ c \in Calls /\ call[c].to = None /\ call[c].by = m /\ call[c].by # None
             /\ call[c].status = "requested" /\ c \notin task[t].completed
  <2>1. WantsOK(m) /\ CallOK(c) /\ HeldOK(t)
    BY <1>1, <1>6 DEF CallsInv
  <2>2. call[c].by = m /\ call[c].status = "requested"
    BY <1>1, <1>6, <2>1 DEF WantsOK
  <2> QED BY <1>1, <1>6, <2>1, <2>2, ByIs DEF CallOK, HeldOK, Terminal
<1>7. Ready(t, tk, cs)
  BY <1>1, <1>3, <1>6 DEF Ready
<1> QED BY <1>1, <1>4, <1>5, <1>7, CallsMove DEF OnlyTask

(* m waits behind other calls in the queue of the scheduler.                *)
Queues(m) ==
  LET t == request[m].task IN
  /\ m \in Requests /\ Only(m) /\ request[m].pc = "streamed" /\ request[m].primary
  /\ request'[m].pc = "queued" /\ request'[m].wants = request[m].wants /\ Carries(m)
  /\ t \in Tasks /\ OnlyTask(t) /\ SameWork(task[t], task'[t]) /\ SamePending(task[t], task'[t])
  /\ task'[t].state = "working" /\ UNCHANGED <<call, server>>

(* The effect of ScheduleToolCalls.                                        *)
LEMMA ScheduleToolCallsIs ==
  ASSUME ServerInv, NEW m \in Messages, ScheduleToolCalls(m)
  PROVE  Queues(m) \/ \E tk, cs, reqs : Schedules(m, tk, cs, reqs)
<1> DEFINE t == request[m].task
           tk == [task[t] EXCEPT !.state = "working"]
           rec == [request[m] EXCEPT !.pc = "queued"]
<1>0. request[m].pc = "streamed" /\ request[m].pc \in Active
  BY DEF ScheduleToolCalls, Active, Working
<1>1. /\ m \in Requests /\ task \in TaskMap /\ request \in RequestMap
      /\ request[m] \in RequestType /\ RequestOK(m, request[m], made)
      /\ t \in Tasks /\ task[t] \in TaskType
  BY <1>0, ActiveIs
<1>2. request[m].primary
  BY <1>0, <1>1 DEF RequestOK, Working
<1>3. /\ tk \in TaskType /\ tk.batch = task[t].batch /\ tk.completed = task[t].completed
      /\ tk.details = task[t].details /\ tk.pending = task[t].pending
      /\ tk.promise = task[t].promise /\ tk.state = "working"
  BY <1>1, StateTyped DEF TaskStates, TaskType
<1>4. CASE task[t].batch = {} /\ Schedule(m, tk)
  <2> HIDE DEF tk
  <2> QED BY <1>0, <1>3, <1>4, ScheduleIs
<1>5. CASE /\ task' = [task EXCEPT ![t] = tk]
           /\ request' = [request EXCEPT ![m].pc = "queued"] /\ UNCHANGED <<call, server>>
  <2>1. request' = [request EXCEPT ![m] = rec]
    BY <1>1, <1>5
  <2>2. /\ rec.task = request[m].task /\ rec.primary = request[m].primary
        /\ rec.pc = "queued" /\ rec.ended = request[m].ended /\ rec.wants = request[m].wants
    BY <1>1 DEF RequestType
  <2> HIDE DEF rec, tk
  <2>3. request'[m] = rec /\ Only(m) /\ task'[t] = tk /\ OnlyTask(t)
    BY <1>1, <1>5, <2>1 DEF Only, OnlyTask, RequestMap, TaskMap
  <2> QED BY <1>0, <1>1, <1>2, <1>3, <1>5, <2>2, <2>3 DEF Queues, Carries, SameWork, SamePending
<1> QED BY <1>4, <1>5 DEF ScheduleToolCalls

(* The effect of LeaveQueue.                                               *)
LEMMA LeaveQueueIs ==
  ASSUME ServerInv, NEW m \in Messages, LeaveQueue(m)
  PROVE  \E tk, cs, reqs : Schedules(m, tk, cs, reqs)
<1>0. request[m].pc = "queued" /\ request[m].pc \in Active /\ Schedule(m, task[request[m].task])
      /\ task[request[m].task].batch = {}
  BY DEF LeaveQueue, Active, Working
<1>1. task[request[m].task] \in TaskType
  BY <1>0, ActiveIs
<1> QED BY <1>0, <1>1, ScheduleIs

(* CallsInv when a batch is queued.                                        *)
LEMMA QueuesCalls ==
  ASSUME ServerInv, CallsInv, NEW m \in Messages, Queues(m)
  PROVE  CallsInv'
<1>1. \A u \in Tasks : Keeps(u)
  BY DEF Queues, OnlyTask, SameWork, Keeps
<1>2. SameCalls /\ Goes(m) /\ m \in Requests /\ request'[m].pc # "answering"
  BY DEF Queues, SameCalls, Goes, Carries, Entering
<1>3. \A r \in Requests \ {m} : StillAs(request'[r], request[r])
  BY OnlyStill DEF Queues
<1> QED BY <1>1, <1>2, <1>3, AloneCalls

(* m waits for the promise of its Task.                                     *)
Waits(m) ==
  LET t == request[m].task IN
  /\ m \in Requests /\ Only(m) /\ request[m].primary /\ t \in Tasks
  /\ \/ request[m].pc = "streamed" /\ request[m].wants = {}
     \/ request[m].pc = "scheduling"
  /\ request'[m].pc = "waiting" /\ request'[m].wants = request[m].wants /\ Carries(m)
  /\ request'[m].wake = IF task[t].promise = "open" THEN "asleep" ELSE "resolved"
  /\ UNCHANGED <<task, call, server>>

(* The effect of the steps that begin a wait.                              *)
LEMMA WaitsIs ==
  ASSUME ServerInv, NEW m \in Messages, NothingToSchedule(m) \/ Scheduled(m)
  PROVE  Waits(m)
<1> DEFINE w == IF task[request[m].task].promise = "open" THEN "asleep" ELSE "resolved"
           rec == [request[m] EXCEPT !.pc = "waiting", !.wake = w]
<1>0. /\ request[m].pc \in {"streamed", "scheduling"} /\ request[m].pc \in Active /\ Wait(m)
      /\ \/ request[m].pc = "streamed" /\ request[m].wants = {}
         \/ request[m].pc = "scheduling"
  BY DEF NothingToSchedule, Scheduled, Active, Working
<1>1. /\ m \in Requests /\ request \in RequestMap /\ request[m].task \in Tasks
      /\ request[m] \in RequestType /\ RequestOK(m, request[m], made)
  BY <1>0, ActiveIs
<1>2. request[m].primary
  BY <1>0, <1>1 DEF RequestOK, Working
<1>3. request' = [request EXCEPT ![m] = rec] /\ UNCHANGED <<task, call, server>>
  BY <1>0, <1>1 DEF Wait
<1>4. /\ rec.task = request[m].task /\ rec.primary = request[m].primary /\ rec.wake = w
      /\ rec.pc = "waiting" /\ rec.ended = request[m].ended /\ rec.wants = request[m].wants
  BY <1>1 DEF RequestType
<1> HIDE DEF rec
<1>5. request'[m] = rec /\ Only(m)
  BY <1>1, <1>3 DEF Only, RequestMap
<1> QED BY <1>0, <1>1, <1>2, <1>3, <1>4, <1>5 DEF Waits, Carries

(* CallsInv when a wait begins.                                            *)
LEMMA WaitsCalls ==
  ASSUME ServerInv, CallsInv, NEW m \in Messages, Waits(m)
  PROVE  CallsInv'
<1>1. \A u \in Tasks : Keeps(u)
  BY DEF Waits, Keeps
<1>2. SameCalls /\ Goes(m) /\ m \in Requests /\ request'[m].pc # "answering"
  BY DEF Waits, SameCalls, Goes, Carries, Entering
<1>3. \A r \in Requests \ {m} : StillAs(request'[r], request[r])
  BY OnlyStill DEF Waits
<1> QED BY <1>1, <1>2, <1>3, AloneCalls

-----------------------------------------------------------------------------
(* Results, failures and new messages                                      *)

(* The wait of m is over and the results of its Task go to it: the turn     *)
(* goes on, or it ends.                                                     *)
TurnGoesOn(m) ==
  /\ request'[m].pc = "streaming" /\ Carries(m)
  /\ task'[request[m].task].state = "working" /\ UNCHANGED server
TurnEnds(m) ==
  /\ request'[m].pc = "saving" /\ request'[m].ended = "normal"
  /\ request'[m].task = request[m].task /\ request'[m].primary = request[m].primary
  /\ task'[request[m].task].state = "input-required" /\ executing' = FALSE
  /\ UNCHANGED <<made, known, stored, restarts, canceled, replaced, late>>
Delivers(m) ==
  LET t == request[m].task IN
  /\ m \in Requests /\ Only(m) /\ request[m].pc = "waiting" /\ request[m].primary
  /\ request[m].wake = "resolved" /\ request'[m].wants = {}
  /\ t \in Tasks /\ OnlyTask(t)
  /\ task'[t].batch = task[t].batch /\ task'[t].details = task[t].details
  /\ task'[t].completed = {} /\ SamePending(task[t], task'[t])
  /\ \A c \in Calls :
       /\ call'[c].status = call[c].status /\ call'[c].by = call[c].by
       /\ call'[c].to = IF c \in task[t].completed THEN m ELSE call[c].to
  /\ TurnGoesOn(m) \/ TurnEnds(m)

(* The effect of Resume.                                                   *)
LEMMA ResumeIs ==
  ASSUME ServerInv, NEW m \in Messages, Resume(m)
  PROVE  Delivers(m)
<1> DEFINE t == request[m].task
           taken == [task[t] EXCEPT !.completed = {}]
           tk == [taken EXCEPT !.state = "working"]
           te == [taken EXCEPT !.state = "input-required"]
           rec == [request[m] EXCEPT !.pc = "streaming", !.wants = {}, !.wake = None]
           end == [request[m] EXCEPT !.pc = "saving", !.loaded = te.state, !.wants = {},
                                     !.wake = None, !.ended = "normal"]
<1>0. request[m].pc = "waiting" /\ request[m].pc \in Active /\ request[m].wake = "resolved"
  BY DEF Resume, Active, Working
<1>1. /\ m \in Requests /\ task \in TaskMap /\ request \in RequestMap
      /\ call \in CallMap /\ request[m] \in RequestType
      /\ RequestOK(m, request[m], made) /\ t \in Tasks /\ task[t] \in TaskType
  BY <1>0, ActiveIs
<1>2. request[m].primary
  BY <1>0, <1>1 DEF RequestOK, Working
<1>3. \A c \in Calls :
       /\ call'[c].status = call[c].status /\ call'[c].by = call[c].by
       /\ call'[c].to = IF c \in task[t].completed THEN m ELSE call[c].to
  <2>1. \A c \in Calls : call[c] \in CallType
    BY <1>1 DEF CallMap
  <2>2. \A c \in Calls : call'[c] = IF c \in task[t].completed THEN [call[c] EXCEPT !.to = m] ELSE call[c]
    BY DEF Resume
  <2> QED BY <2>1, <2>2 DEF CallType
<1>4. /\ tk.batch = task[t].batch /\ tk.details = task[t].details /\ tk.completed = {}
      /\ SamePending(task[t], tk) /\ tk.state = "working"
      /\ te.batch = task[t].batch /\ te.details = task[t].details /\ te.completed = {}
      /\ SamePending(task[t], te) /\ te.state = "input-required"
  BY <1>1 DEF TaskType, SamePending
<1>5. CASE EndTurn(m, taken)
  <2>1. task' = [task EXCEPT ![t] = te]
    BY <1>5 DEF EndTurn, Leave
  <2>2. /\ request' = [request EXCEPT ![m] = end] /\ executing' = FALSE
        /\ UNCHANGED <<made, known, stored, restarts, canceled, replaced, late>>
    <3>1. Leave(m, te, request, "normal") /\ UNCHANGED <<made, known, stored, restarts, canceled, replaced, late>>
      BY <1>5 DEF EndTurn
    <3> HIDE DEF te
    <3> QED BY <1>1, <3>1 DEF Leave, RequestMap
  <2>3. /\ end.pc = "saving" /\ end.ended = "normal" /\ end.wants = {}
        /\ end.task = t /\ end.primary = request[m].primary
    BY <1>1 DEF RequestType
  <2> HIDE DEF te, end
  <2>4. task'[t] = te /\ OnlyTask(t) /\ request'[m] = end /\ Only(m)
    BY <1>1, <2>1, <2>2 DEF TaskMap, RequestMap, OnlyTask, Only
  <2>5. TurnEnds(m)
    BY <1>4, <2>2, <2>3, <2>4 DEF TurnEnds
  <2> QED BY <1>0, <1>1, <1>2, <1>3, <1>4, <2>3, <2>4, <2>5 DEF Delivers
<1>6. CASE /\ task' = [task EXCEPT ![t] = tk] /\ UNCHANGED server
           /\ request' = [request EXCEPT ![m].pc = "streaming", ![m].wants = {}, ![m].wake = None]
  <2>1. request' = [request EXCEPT ![m] = rec]
    BY <1>1, <1>6
  <2>2. /\ rec.task = t /\ rec.primary = request[m].primary
        /\ rec.pc = "streaming" /\ rec.ended = request[m].ended /\ rec.wants = {}
    BY <1>1 DEF RequestType
  <2> HIDE DEF rec, tk
  <2>3. task'[t] = tk /\ OnlyTask(t) /\ request'[m] = rec /\ Only(m)
    BY <1>1, <1>6, <2>1 DEF TaskMap, RequestMap, OnlyTask, Only
  <2>4. TurnGoesOn(m)
    BY <1>4, <1>6, <2>2, <2>3 DEF TurnGoesOn, Carries
  <2> QED BY <1>0, <1>1, <1>2, <1>3, <1>4, <2>2, <2>3, <2>4 DEF Delivers
<1> QED BY <1>5, <1>6 DEF Resume, GetAndClearCompletedTools

(* CallsInv when results are given to the model.                           *)
LEMMA DeliversCalls ==
  ASSUME ServerInv, CallsInv, NEW m \in Messages, Delivers(m)
  PROVE  CallsInv'
<1> DEFINE t == request[m].task
<1>0. /\ \A c \in Calls : call[c].by \in Messages \cup {None} /\ CallOK(c) /\ AnswerOK(c)
      /\ None \notin Messages
  BY ByIs DEF CallsInv
<1>1. /\ Only(m) /\ t \in Tasks /\ OnlyTask(t) /\ request[m].pc = "waiting" /\ request'[m].wants = {}
      /\ task'[t].batch = task[t].batch /\ task'[t].details = task[t].details /\ task'[t].completed = {}
      /\ \A c \in Calls : call'[c].status = call[c].status /\ call'[c].by = call[c].by
      /\ \A c \in Calls : c \notin task[t].completed => call'[c].to = call[c].to
      /\ request'[m].pc \in {"streaming", "saving"} /\ request'[m].task = request[m].task
  BY DEF Delivers, TurnGoesOn, TurnEnds, Carries
<1>2. HeldOK(t) /\ task[t].completed \subseteq Calls
  BY <1>1, ByIs DEF CallsInv
<1>3. \A n \in Messages : n # m => request'[n] = request[n]
  BY <1>1, MessagesAreRequests DEF Only
<1>4. \A n \in Messages : request[n].pc \notin Entering =>
        request'[n].pc \notin Entering /\ request'[n].task = request[n].task
  BY <1>1, <1>3 DEF Entering
<1>5. \A c \in Calls : CallOK(c)'
  <2> TAKE c \in Calls
  <2>1. call[c].status \in {"new", "requested"} => c \notin task[t].completed
    BY <1>2 DEF HeldOK
  <2> QED BY <1>0, <1>1, <1>4, <2>1 DEF CallOK
<1>6. \A n \in Messages : WantsOK(n)'
  <2> TAKE n \in Messages
  <2>1. WantsOK(n) /\ request[n].wants \subseteq Calls
    BY ByIs DEF CallsInv
  <2> QED BY <1>1, <1>3, <2>1 DEF WantsOK
<1>7. ASSUME NEW u \in Tasks PROVE HeldOK(u)'
  <2>1. HeldOK(u) /\ task[u].batch \subseteq Calls /\ task[u].completed \subseteq Calls
        /\ task[u].details \subseteq Calls
    BY ByIs DEF CallsInv
  <2>2. ASSUME NEW c \in task[u].batch \cup task[u].completed \cup task[u].details
        PROVE  /\ call'[c].status = call[c].status /\ call'[c].by = call[c].by
               /\ request'[call'[c].by].task = u
    <3>1. c \in Calls /\ call[c].status \notin {"new", "requested", "dropped"} /\ request[call[c].by].task = u
      BY <2>1, <2>2 DEF HeldOK
    <3>2. call[c].by \in Messages /\ request[call[c].by].pc \notin Entering
      BY <1>0, <3>1 DEF CallOK
    <3> QED BY <1>1, <1>4, <3>1, <3>2
  <2>3. CASE u = t
    <3>1. \A c \in task[u].batch : call'[c].to = None
      BY <1>1, <2>1, <2>3 DEF HeldOK
    <3> QED BY <1>1, <2>1, <2>2, <2>3, <3>1 DEF HeldOK
  <2>4. CASE u # t
    <3>1. \A c \in task[u].batch \cup task[u].completed : c \notin task[t].completed
      BY <1>2, <2>1, <2>4 DEF HeldOK
    <3>2. task'[u] = task[u]
      BY <1>1, <2>4 DEF OnlyTask
    <3> QED BY <1>1, <2>1, <2>2, <3>1, <3>2 DEF HeldOK
  <2> QED BY <2>3, <2>4
<1>8. \A c \in Calls : AnswerOK(c)'
  <2> SUFFICES ASSUME NEW c \in Calls, request'[c].pc = "answering"
               PROVE  /\ call'[c].status \notin {"new", "requested", "dropped"}
                      /\ request'[call'[c].by].task = request'[c].task
    BY DEF AnswerOK
  <2>1. c # m /\ request'[c] = request[c]
    BY <1>1, <1>3, MessagesAreRequests
  <2>2. call[c].status \notin {"new", "requested", "dropped"} /\ request[call[c].by].task = request[c].task
    BY <1>0, <2>1 DEF AnswerOK
  <2>3. call[c].by \in Messages /\ request[call[c].by].pc \notin Entering
    BY <1>0, <2>2 DEF CallOK
  <2> QED BY <1>1, <1>4, <2>1, <2>2, <2>3
<1> QED BY <1>5, <1>6, <1>7, <1>8 DEF CallsInv

(* m ends with an error or an abort.                                        *)
Caught(m) ==
  LET t == request[m].task IN
  /\ m \in Requests /\ Running(m) /\ request[m].pc \in {"streaming", "streamed", "queued", "waiting"}
  /\ request[m].pc = "waiting" => request[m].wake \in {"rejected", "resolved"}
  /\ Still(Requests \ {m})
  /\ request'[m].pc = "saving" /\ request'[m].wants = {}
  /\ request'[m].task = t /\ request'[m].primary = request[m].primary
  /\ t \in Tasks /\ OnlyTask(t) /\ SameWork(task[t], task'[t]) /\ NothingPending(task'[t])
  /\ task'[t].state # "working"
  /\ request'[m].ended \in {"failed", "aborted"}
  /\ request[m].pc = "waiting" /\ request[m].wake = "resolved" => request'[m].ended = "aborted"
  /\ executing' = FALSE
  /\ UNCHANGED <<made, known, call, stored, restarts, canceled, replaced, late>>

(* The effect of the steps that throw.                                     *)
LEMMA CatchIs ==
  ASSUME ServerInv, NEW m \in Messages, Throws(m)
  PROVE  Caught(m)
<1> DEFINE t == request[m].task
           state == IF ~ request[m].aborted THEN "failed"
                    ELSE IF task[t].state \in FinalStates THEN task[t].state
                    ELSE "input-required"
           reqs == Woken(request, t, "rejected")
           tk == [WithoutPending(task[t]) EXCEPT !.state = state]
           how == IF request[m].aborted THEN "aborted" ELSE "failed"
           rec == [reqs[m] EXCEPT !.pc = "saving", !.loaded = tk.state, !.wants = {},
                                  !.wake = None, !.ended = how]
<1>0. Running(m) /\ Catch(m)
  BY ThrowsIs
<1>1. /\ request[m].pc \in {"streaming", "streamed", "queued", "waiting"}
      /\ request[m].pc = "waiting" => request[m].wake \in {"rejected", "resolved"}
      /\ request[m].pc = "waiting" /\ request[m].wake = "resolved" => how = "aborted"
  BY DEF Throws, StreamFails, AbortSeen, ProposalFails, WaitFails
<1>2. request[m].pc \in Active
  BY <1>0 DEF Running
<1>3. /\ m \in Requests /\ task \in TaskMap /\ request \in RequestMap
      /\ request[m] \in RequestType /\ t \in Tasks /\ task[t] \in TaskType
  BY <1>2, ActiveIs
<1>4. reqs \in RequestMap /\ \A r \in Requests : StillAs(reqs[r], request[r])
  BY <1>3, WokenTyped, WokenIs
<1>5. reqs[m] \in RequestType /\ StillAs(reqs[m], request[m])
  BY <1>3, <1>4 DEF RequestMap
<1>6. state # "working"
  BY DEF FinalStates
<1>7. SameWork(task[t], tk) /\ NothingPending(tk) /\ tk.state = state
  <2> HIDE DEF state
  <2> QED BY <1>3 DEF WithoutPending, SameWork, NothingPending, TaskType
<1>8. /\ task' = [task EXCEPT ![t] = tk] /\ executing' = FALSE
      /\ request' = [reqs EXCEPT ![m] = rec]
      /\ UNCHANGED <<made, known, call, stored, restarts, canceled, replaced, late>>
  <2>1. Leave(m, tk, reqs, how) /\ UNCHANGED <<made, known, call, stored, restarts, canceled, replaced, late>>
    BY <1>0 DEF Catch
  <2> HIDE DEF tk, reqs, how, state
  <2> QED BY <1>3, <1>4, <2>1 DEF Leave, RequestMap
<1> HIDE DEF reqs, tk, how, state
<1>9. /\ rec.pc = "saving" /\ rec.wants = {} /\ rec.task = t /\ rec.primary = request[m].primary
      /\ rec.ended = how
  BY <1>5 DEF RequestType, StillAs
<1> HIDE DEF rec
<1>10. request'[m] = rec /\ Still(Requests \ {m}) /\ task'[t] = tk /\ OnlyTask(t)
  BY <1>3, <1>4, <1>8 DEF RequestMap, TaskMap, Still, OnlyTask
<1>11. how \in {"aborted", "failed"}
  BY DEF how
<1> QED BY <1>0, <1>1, <1>3, <1>6, <1>7, <1>8, <1>9, <1>10, <1>11 DEF Caught

(* CallsInv when an execution throws.                                      *)
LEMMA CaughtCalls ==
  ASSUME ServerInv, CallsInv, NEW m \in Messages, Caught(m)
  PROVE  CallsInv'
<1>1. \A u \in Tasks : Keeps(u)
  BY DEF Caught, OnlyTask, SameWork, Keeps
<1>2. SameCalls /\ Goes(m) /\ m \in Requests /\ request'[m].pc # "answering"
  BY DEF Caught, SameCalls, Goes, Entering
<1>3. \A r \in Requests \ {m} : StillAs(request'[r], request[r])
  BY DEF Caught, Still
<1> QED BY <1>1, <1>2, <1>3, AloneCalls

(* m comes to its Task t, which is as in tk.                                *)
Begins(m, t, tk) ==
  /\ m \in Requests /\ Only(m) /\ request[m].pc \in Entering
  /\ request[m].wants = {} /\ request'[m].wants = {} /\ request'[m].ended = request[m].ended
  /\ request[m].ended = None
  /\ t \in Tasks /\ OnlyTask(t) /\ SameCalls
  /\ SameWork(tk, task'[t]) /\ SamePending(tk, task'[t])
  /\ \/ /\ tk.state \in FinalStates /\ task'[t].state = tk.state /\ executing' = executing
        /\ request'[m].pc = "done"
     \/ /\ tk.state \notin FinalStates /\ executing' = TRUE
        /\ task'[t].state = tk.state
        /\ request'[m].task = t /\ request'[m].primary = ~ executing
        /\ request'[m].pc \in {"accepted", "answering"}
        /\ request'[m].pc = "answering" => m \in tk.details

(* The effect of Begin.                                                    *)
LEMMA BeginIs ==
  ASSUME ServerInv, NEW m \in Messages, NEW t \in Tasks, NEW tk \in TaskType,
         request[m].pc \in {"new", "saving new", "loading"}, Begin(m, t, tk)
  PROVE  Begins(m, t, tk)
<1>1. /\ m \in Requests /\ task \in TaskMap /\ request \in RequestMap /\ call \in CallMap
      /\ request[m] \in RequestType /\ RequestOK(m, request[m], made)
  BY Parts, MessagesAreRequests
<1>2. request[m].wants = {} /\ request[m].pc \in Entering /\ request[m].ended = None
  BY <1>1 DEF RequestOK, Entering
<1>3. CASE tk.state \in FinalStates
  <2> DEFINE rec == [request[m] EXCEPT !.pc = "done", !.loaded = None]
  <2>1. /\ task' = [task EXCEPT ![t] = tk] /\ request' = [request EXCEPT ![m] = rec]
        /\ UNCHANGED <<call, executing>>
    BY <1>1, <1>3 DEF Begin
  <2>2. rec.pc = "done" /\ rec.wants = request[m].wants /\ rec.ended = request[m].ended
    BY <1>1 DEF RequestType
  <2> HIDE DEF rec
  <2>3. request'[m] = rec /\ Only(m) /\ task'[t] = tk /\ OnlyTask(t)
    BY <1>1, <2>1 DEF RequestMap, TaskMap, Only, OnlyTask
  <2> QED BY <1>1, <1>2, <1>3, <2>1, <2>2, <2>3 DEF Begins, SameCalls, SameWork, SamePending
<1>4. CASE tk.state \notin FinalStates
  <2> DEFINE rec(pc) == [request[m] EXCEPT !.pc = pc, !.task = t, !.primary = ~ executing,
                                           !.loaded = None]
             goes(pc) == [request EXCEPT ![m].pc = pc, ![m].task = t, ![m].primary = ~ executing,
                                         ![m].loaded = None]
  <2>1. executing' = TRUE /\ Accept(m, t, tk, ~ executing)
    BY <1>4 DEF Begin
  <2>2. PICK pc \in {"accepted", "answering"} :
          request' = goes(pc) /\ (pc = "answering" => m \in tk.details)
    BY <2>1 DEF Accept
  <2>3. goes(pc) = [request EXCEPT ![m] = rec(pc)]
    BY <1>1
  <2>4. /\ rec(pc).pc = pc /\ rec(pc).wants = request[m].wants /\ rec(pc).task = t
        /\ rec(pc).primary = ~ executing /\ rec(pc).ended = request[m].ended
    BY <1>1 DEF RequestType
  <2> HIDE DEF rec
  <2>5. request'[m] = rec(pc) /\ Only(m)
    BY <1>1, <2>2, <2>3 DEF RequestMap, Only
  <2>6. /\ SameCalls /\ OnlyTask(t) /\ SameWork(tk, task'[t]) /\ SamePending(tk, task'[t])
        /\ task'[t].state = tk.state
    <3>2. CASE \E o \in Outcomes :
                 /\ call' = [call EXCEPT ![m].outcome = o] /\ m \in Calls
                 /\ task' = [task EXCEPT ![t] =
                      [tk EXCEPT !.skip = IF m \in Edits THEN o = "edit" ELSE @]]
      <4>1. PICK o \in Outcomes :
                 /\ call' = [call EXCEPT ![m].outcome = o] /\ m \in Calls
                 /\ task' = [task EXCEPT ![t] =
                      [tk EXCEPT !.skip = IF m \in Edits THEN o = "edit" ELSE @]]
        BY <3>2
      <4>2. SameCalls
        BY <1>1, <4>1 DEF SameCalls, CallMap, CallType
      <4> DEFINE b == IF m \in Edits THEN o = "edit" ELSE tk.skip
      <4>3. task' = [task EXCEPT ![t] = [tk EXCEPT !.skip = b]]
        BY <4>1
      <4> HIDE DEF b
      <4> QED BY <1>1, <4>2, <4>3 DEF TaskMap, OnlyTask, SameWork, SamePending, TaskType
    <3>3. CASE task' = [task EXCEPT ![t] = tk] /\ UNCHANGED call
      BY <1>1, <3>3 DEF TaskMap, SameCalls, OnlyTask, SameWork, SamePending
    <3>4. tk.details \subseteq Calls
      BY DEF TaskType
    <3> QED BY <2>1, <3>2, <3>3, <3>4 DEF Accept
  <2> QED BY <1>1, <1>2, <1>4, <2>1, <2>2, <2>4, <2>5, <2>6 DEF Begins
<1> QED BY <1>3, <1>4

(* CallsInv when a message begins.                                         *)
LEMMA BeginsCalls ==
  ASSUME ServerInv, CallsInv, NEW m \in Messages, NEW t, NEW tk, Begins(m, t, tk),
         tk = task[t] \/ (tk.batch = {} /\ tk.completed = {} /\ tk.details = {})
  PROVE  CallsInv'
<1>1. \A u \in Tasks : Keeps(u)
  BY DEF Begins, OnlyTask, SameWork, Keeps
<1>2. \A n \in Messages : Goes(n)
  <2>1. \A n \in Messages \ {m} : Goes(n)
    BY OnlyStill, StillGoes, MessagesAreRequests DEF Begins
  <2>2. Goes(m)
    BY DEF Begins, Goes
  <2> QED BY <2>1, <2>2
<1>3. Asks
  <2> SUFFICES ASSUME NEW d \in Calls, request'[d].pc = "answering"
               PROVE  \/ request[d].pc = "answering" /\ request'[d].task = request[d].task
                      \/ request'[d].task \in Tasks /\ d \in task'[request'[d].task].details
    BY DEF Asks
  <2>1. CASE d = m
    BY <2>1 DEF Begins, SameWork
  <2>2. CASE d # m
    BY <2>2, MessagesAreRequests DEF Begins, Only
  <2> QED BY <2>1, <2>2
<1> QED BY <1>1, <1>2, <1>3, CallsRest DEF Begins

(* The rest of acceptUserMessage of m: the task may be said to work.        *)
Proceeds(m) ==
  LET t == request[m].task IN
  /\ m \in Requests /\ Only(m) /\ request[m].pc = "accepted" /\ Carries(m)
  /\ request'[m].pc \in IF request[m].primary THEN {"streaming", "streamed"} ELSE {"streaming", "done"}
  /\ request[m].wants = {} /\ request'[m].wants = {}
  /\ t \in Tasks /\ OnlyTask(t) /\ SameWork(task[t], task'[t]) /\ SamePending(task[t], task'[t])
  /\ \/ task'[t].state = task[t].state
     \/ task'[t].state = "working" /\ (late' \/ executing)
  /\ late => late'
  /\ UNCHANGED core /\ UNCHANGED call

(* The effect of Proceed.                                                  *)
LEMMA ProceedIs ==
  ASSUME ServerInv, NEW m \in Messages, Proceed(m)
  PROVE  Proceeds(m)
<1> DEFINE t == request[m].task
           tk == [task[t] EXCEPT !.state = "working"]
<1>0. request[m].pc = "accepted" /\ request[m].pc \in Active /\ UNCHANGED core /\ UNCHANGED call
  BY DEF Proceed, Active, core
<1>1. /\ m \in Requests /\ TypeOK /\ task \in TaskMap /\ request \in RequestMap
      /\ request[m] \in RequestType /\ RequestOK(m, request[m], made)
      /\ t \in Tasks /\ task[t] \in TaskType
  BY <1>0, ActiveIs
<1>2. PICK pc \in IF request[m].primary THEN {"streaming", "streamed"} ELSE {"streaming", "done"} :
        request' = [request EXCEPT ![m].pc = pc]
  BY <1>1 DEF Proceed, RequestType
<1> DEFINE rec == [request[m] EXCEPT !.pc = pc]
<1>3. request' = [request EXCEPT ![m] = rec]
  BY <1>1, <1>2
<1>4. /\ rec.task = t /\ rec.primary = request[m].primary /\ rec.pc = pc
      /\ rec.ended = request[m].ended /\ rec.wants = request[m].wants
  BY <1>1 DEF RequestType
<1> HIDE DEF rec
<1>5. request'[m] = rec /\ Only(m)
  BY <1>1, <1>3 DEF Only, RequestMap
<1>6. request[m].wants = {}
  BY <1>0, <1>1 DEF RequestOK
<1>7. PICK works \in BOOLEAN :
        /\ task' = IF works THEN [task EXCEPT ![t] = tk] ELSE task
        /\ late' = (late \/ (works /\ ~ executing))
  BY <1>1 DEF Proceed, TaskMap
<1>8. SameWork(task[t], tk) /\ SamePending(task[t], tk) /\ tk.state = "working"
  BY <1>1 DEF SameWork, SamePending, TaskType
<1> HIDE DEF tk
<1>9. OnlyTask(t) /\ task'[t] = IF works THEN tk ELSE task[t]
  BY <1>1, <1>7 DEF OnlyTask, TaskMap
<1>10. /\ SameWork(task[t], task'[t]) /\ SamePending(task[t], task'[t])
       /\ \/ task'[t].state = task[t].state
          \/ task'[t].state = "working" /\ (late' \/ executing)
       /\ late => late'
  <2>1. late \in BOOLEAN /\ executing \in BOOLEAN
    BY <1>1 DEF TypeOK
  <2> QED BY <1>7, <1>8, <1>9, <2>1 DEF SameWork, SamePending
<1> QED BY <1>0, <1>1, <1>2, <1>4, <1>5, <1>6, <1>9, <1>10 DEF Proceeds, Carries

(* CallsInv when a message has been accepted.                              *)
LEMMA ProceedsCalls ==
  ASSUME ServerInv, CallsInv, NEW m \in Messages, Proceeds(m)
  PROVE  CallsInv'
<1>1. \A u \in Tasks : Keeps(u)
  BY DEF Proceeds, OnlyTask, SameWork, Keeps
<1>2. SameCalls /\ Goes(m) /\ m \in Requests /\ request'[m].pc # "answering"
  BY DEF Proceeds, SameCalls, Goes, Carries, Entering
<1>3. \A r \in Requests \ {m} : StillAs(request'[r], request[r])
  BY OnlyStill DEF Proceeds
<1> QED BY <1>1, <1>2, <1>3, AloneCalls

-----------------------------------------------------------------------------
(* Requests without calls, crashes                                         *)

(* A Task just made has no calls.                                          *)
LEMMA FreshIs ==
  \A s : /\ FreshTask(s).batch = {} /\ FreshTask(s).completed = {} /\ FreshTask(s).details = {}
         /\ FreshTask(s).pending = {} /\ FreshTask(s).promise = "resolved" /\ FreshTask(s).state = s
BY DEF FreshTask

(* No execution runs in task t.                                             *)
Unused(t) == \A m \in Messages : Running(m) => request[m].task # t

(* No execution runs in the Task that is made next.                        *)
LEMMA NewTaskIsUnused ==
  ASSUME ServerInv
  PROVE  Unused(made + 1)
<1> SUFFICES ASSUME NEW m \in Messages, Running(m) PROVE request[m].task # made + 1
  BY DEF Unused
<1>1. request[m].task \in 1..made
  BY ByIs DEF Running, RequestOK
<1>2. made \in Nat
  BY Parts, Made
<1> QED BY <1>1, <1>2

(* The request r goes on without the calls.                                 *)
Passes(r) ==
  /\ r \in Requests /\ Only(r) /\ UNCHANGED call
  /\ request[r].pc \notin Active /\ request'[r].pc \notin Active
  /\ request'[r].wants = request[r].wants /\ request'[r].ended = request[r].ended
  /\ request'[r].primary = request[r].primary
  /\ request[r].pc \notin Entering =>
       request'[r].pc \notin Entering /\ request'[r].task = request[r].task
  /\ \A t \in Tasks : \/ task'[t] = task[t]
                      \/ Unused(t) /\ \E s : s # "working" /\ task'[t] = FreshTask(s)

(* CallsInv when a request passes.                                         *)
LEMMA PassesCalls ==
  ASSUME ServerInv, CallsInv, NEW r, Passes(r)
  PROVE  CallsInv'
<1>1. \A u \in Tasks : Keeps(u)
  BY FreshIs DEF Passes, Keeps
<1>2. SameCalls /\ Goes(r) /\ r \in Requests /\ request'[r].pc # "answering"
  BY DEF Passes, SameCalls, Goes, Active, Working
<1>3. \A q \in Requests \ {r} : StillAs(request'[q], request[q])
  BY OnlyStill DEF Passes
<1> QED BY <1>1, <1>2, <1>3, AloneCalls

(* The effect of ArriveCold.                                               *)
LEMMA ArriveColdIs ==
  ASSUME ServerInv, NEW r \in Messages \cup Readers, ArriveCold(r)
  PROVE  Passes(r) /\ UNCHANGED <<task, server>>
<1>0. r \in Requests /\ request[r].pc = "new" /\ UNCHANGED <<task, call, server>>
  BY MessagesAreRequests DEF ArriveCold, Requests
<1>1. request \in RequestMap /\ request[r] \in RequestType
  BY <1>0, Parts
<1> DEFINE a == [request[r] EXCEPT !.pc = "loading", !.loaded = stored]
           b == [request[r] EXCEPT !.pc = "creating"]
<1>2. request' = [request EXCEPT ![r] = a] \/ request' = [request EXCEPT ![r] = b]
  BY <1>0, <1>1 DEF ArriveCold
<1>3. /\ a.pc = "loading" /\ a.wants = request[r].wants /\ a.ended = request[r].ended
      /\ a.primary = request[r].primary
      /\ b.pc = "creating" /\ b.wants = request[r].wants /\ b.ended = request[r].ended
      /\ b.primary = request[r].primary
  BY <1>1 DEF RequestType
<1> HIDE DEF a, b
<1>4. request'[r] \in {a, b} /\ Only(r)
  BY <1>0, <1>1, <1>2 DEF RequestMap, Only
<1> QED BY <1>0, <1>3, <1>4 DEF Passes, Active, Working, Entering

(* The effect of CreateTask.                                               *)
LEMMA CreateTaskIs ==
  ASSUME ServerInv, NEW m \in Messages, CreateTask(m)
  PROVE  /\ Passes(m) /\ UNCHANGED <<executing, canceled, replaced>>
         /\ known' = made + 1 /\ made + 1 \in Tasks /\ task'[made + 1] = FreshTask("submitted")
         /\ \A n \in Messages : ~ Running(n)
<1> DEFINE t == made + 1
           rec == [request[m] EXCEPT !.pc = "saving new", !.task = t]
<1>0. /\ m \in Requests /\ request[m].pc = "creating" /\ known' = t
      /\ task' = [task EXCEPT ![t] = FreshTask("submitted")]
      /\ UNCHANGED <<executing, call, canceled, replaced>>
  BY MessagesAreRequests DEF CreateTask, Register, NewTask
<1>1. /\ TypeOK /\ task \in TaskMap /\ request \in RequestMap /\ FirstTask /\ TasksOK
      /\ request[m] \in RequestType
  BY <1>0, Parts
<1>2. made < MaxTasks /\ \A r \in Requests \ {m} : request[r].pc = "new"
  BY <1>0, <1>1 DEF FirstTask
<1>3. t \in Tasks
  <2>1. made \in Nat /\ MaxTasks \in Nat
    BY <1>1, TaskCount
  <2> QED BY <1>2, <2>1 DEF Tasks
<1>4. request' = [request EXCEPT ![m] = rec]
  BY <1>0 DEF CreateTask, NewTask
<1>5. /\ rec.pc = "saving new" /\ rec.wants = request[m].wants /\ rec.ended = request[m].ended
      /\ rec.primary = request[m].primary
  BY <1>1 DEF RequestType
<1> HIDE DEF rec, t
<1>6. request'[m] = rec /\ Only(m)
  BY <1>0, <1>1, <1>4 DEF RequestMap, Only
<1>7. \A u \in Tasks : task'[u] = task[u] \/ (u = t /\ task'[u] = FreshTask("submitted"))
  BY <1>0, <1>1 DEF TaskMap
<1>8. task'[t] = FreshTask("submitted")
  BY <1>0, <1>1, <1>3 DEF TaskMap
<1>9. Passes(m)
  BY <1>0, <1>5, <1>6, <1>7, NewTaskIsUnused DEF Passes, Active, Working, Entering, t
<1>10. \A n \in Messages : ~ Running(n)
  <2>1. \A n \in Messages : request[n].pc \in {"new", "creating"}
    BY <1>0, <1>2, MessagesAreRequests
  <2> QED BY <2>1 DEF Running, Active, Working
<1> QED BY <1>0, <1>3, <1>8, <1>9, <1>10 DEF t

(* The Task made for a request that was loading it.                        *)
LEMMA NewTaskIs ==
  ASSUME ServerInv, NEW r \in Requests, request[r].pc = "loading"
  PROVE  NewTask \in Tasks /\ request[r].loaded \in TaskStates \ {"working"}
         /\ FreshTask(request[r].loaded) \in TaskType
<1>1. TypeOK /\ TasksOK /\ RequestOK(r, request[r], made) /\ request[r] \in RequestType
  BY Parts
<1>2. made \in Nat /\ MaxTasks \in Nat /\ made + Cardinality(Loading) <= MaxTasks /\ IsFiniteSet(Loading)
  BY <1>1, TaskCount
<1>3. Loading # {}
  BY DEF Loading
<1>4. made + 1 <= MaxTasks
  BY <1>2, <1>3, OneMore
<1>5. NewTask \in Tasks
  BY <1>2, <1>4 DEF NewTask, Tasks
<1>6. request[r].loaded \in TaskStates \ {"working"}
  BY <1>1 DEF RequestOK, RequestType
<1> QED BY <1>5, <1>6, FreshTyped

(* The effect of Reconstruct.                                              *)
LEMMA ReconstructIs ==
  ASSUME ServerInv, NEW r \in Messages \cup Readers, Reconstruct(r)
  PROVE  /\ known' = NewTask /\ NewTask \in Tasks /\ replaced' = (replaced \/ executing)
         /\ UNCHANGED canceled /\ request[r].loaded # "working"
         /\ \/ Passes(r) /\ UNCHANGED executing /\ task'[NewTask] = FreshTask(request[r].loaded)
            \/ r \in Messages /\ Begins(r, NewTask, FreshTask(request[r].loaded))
<1>0. /\ r \in Requests /\ request[r].pc = "loading" /\ known' = NewTask
      /\ UNCHANGED <<stored, restarts, canceled>> /\ replaced' = (replaced \/ executing)
  BY MessagesAreRequests DEF Reconstruct, Requests, Register
<1>1. task \in TaskMap /\ request \in RequestMap /\ request[r] \in RequestType
  BY <1>0, Parts
<1>2. NewTask \in Tasks /\ request[r].loaded \in TaskStates \ {"working"}
         /\ FreshTask(request[r].loaded) \in TaskType
  BY <1>0, NewTaskIs
<1>3. CASE r \in Readers
  <2> DEFINE rec == [request[r] EXCEPT !.pc = "done", !.loaded = None]
  <2>1. /\ task' = [task EXCEPT ![NewTask] = FreshTask(request[r].loaded)]
        /\ request' = [request EXCEPT ![r] = rec] /\ UNCHANGED <<executing, call>>
    BY <1>0, <1>3 DEF Reconstruct
  <2>2. /\ rec.pc = "done" /\ rec.wants = request[r].wants /\ rec.ended = request[r].ended
        /\ rec.primary = request[r].primary
    BY <1>1 DEF RequestType
  <2> HIDE DEF rec
  <2>3. request'[r] = rec /\ Only(r) /\ task'[NewTask] = FreshTask(request[r].loaded)
        /\ \A u \in Tasks : task'[u] = task[u] \/ (u = NewTask /\ task'[u] = FreshTask(request[r].loaded))
    BY <1>0, <1>1, <1>2, <2>1 DEF RequestMap, TaskMap, Only
  <2>4. Passes(r)
    BY <1>0, <1>2, <2>1, <2>2, <2>3, NewTaskIsUnused DEF Passes, Active, Working, Entering, NewTask
  <2> QED BY <1>0, <1>2, <2>1, <2>3, <2>4
<1>4. CASE r \notin Readers
  <2>1. r \in Messages /\ Begin(r, NewTask, FreshTask(request[r].loaded))
    BY <1>4 DEF Reconstruct
  <2> QED BY <1>0, <1>2, <2>1, BeginIs
<1> QED BY <1>3, <1>4

(* The effect of Save.                                                     *)
LEMMA SaveIs ==
  ASSUME ServerInv, NEW r \in Requests, Save(r)
  PROVE  Passes(r) /\ UNCHANGED <<task, made, known, executing, call, canceled, replaced, late>>
<1> DEFINE rec == [request[r] EXCEPT !.pc = "done", !.loaded = None]
<1>0. /\ request[r].pc = "saving" /\ request' = [request EXCEPT ![r] = rec]
      /\ UNCHANGED <<task, made, known, executing, call, restarts, canceled, replaced, late>>
  BY DEF Save
<1>1. request \in RequestMap /\ request[r] \in RequestType
  BY Parts
<1>2. /\ rec.pc = "done" /\ rec.wants = request[r].wants /\ rec.ended = request[r].ended
      /\ rec.task = request[r].task /\ rec.primary = request[r].primary
  BY <1>1 DEF RequestType
<1> HIDE DEF rec
<1>3. request'[r] = rec /\ Only(r)
  BY <1>0, <1>1 DEF RequestMap, Only
<1> QED BY <1>0, <1>2, <1>3 DEF Passes, Active, Working, Entering

(* The effect of Arrive.                                                   *)
LEMMA ArriveIs ==
  ASSUME ServerInv, NEW m \in Messages, Arrive(m)
  PROVE  Begins(m, known, task[known]) /\ UNCHANGED <<known, canceled, replaced>>
<1>1. known \in Tasks /\ task[known] \in TaskType
  BY DEF ServerInv, TypeOK, Arrive
<1> QED BY <1>1, BeginIs DEF Arrive

(* The effect of SaveNew.                                                  *)
LEMMA SaveNewIs ==
  ASSUME ServerInv, NEW m \in Messages, SaveNew(m)
  PROVE  Begins(m, known, task[known]) /\ UNCHANGED <<known, canceled, replaced>>
<1>1. request[m].pc = "saving new" /\ known = request[m].task
  BY DEF SaveNew, ServerInv, FirstTask
<1>2. known \in 1..made /\ known \in Tasks
  BY <1>1, MessagesAreRequests, Made DEF ServerInv, RequestsOK, RequestOK
<1>3. task[known] \in TaskType
  BY <1>2 DEF ServerInv, TypeOK
<1> QED BY <1>1, <1>2, <1>3, BeginIs DEF SaveNew

(* The effect of CancelTask.                                               *)
LEMMA CancelTaskIs ==
  ASSUME ServerInv, NEW k \in Cancels, CancelTask(k)
  PROVE  /\ k \in Requests /\ k \notin Messages /\ Still(Requests \ {k}) /\ SameCalls
         /\ \A t \in Tasks : Keeps(t)
         /\ request'[k].pc # "answering"
         /\ canceled' \/ (Passes(k) /\ UNCHANGED <<task, made, known, executing, call, canceled, replaced, late>>)
<1>0. /\ k \in Requests /\ request[k].pc = "new" /\ known # None
      /\ UNCHANGED <<made, known, executing, call, stored, restarts, replaced, late>>
  BY DEF CancelTask, Requests
<1>1. /\ TypeOK /\ task \in TaskMap /\ request \in RequestMap /\ request[k] \in RequestType
  BY <1>0, Parts
<1>2. k \notin Messages /\ known \in Tasks
  BY <1>0, <1>1, ConstantsOK DEF Messages, TypeOK
<1>3. CASE task[known].state \in FinalStates
  <2> DEFINE rec == [request[k] EXCEPT !.pc = "done"]
  <2>1. request' = [request EXCEPT ![k] = rec] /\ UNCHANGED <<task, canceled>>
    BY <1>0, <1>3 DEF CancelTask
  <2>2. /\ rec.pc = "done" /\ rec.wants = request[k].wants /\ rec.ended = request[k].ended
        /\ rec.primary = request[k].primary
    BY <1>1 DEF RequestType
  <2> HIDE DEF rec
  <2>3. request'[k] = rec /\ Only(k)
    BY <1>0, <1>1, <2>1 DEF RequestMap, Only
  <2>4. Passes(k)
    BY <1>0, <2>1, <2>2, <2>3 DEF Passes, Active, Working, Entering
  <2>5. Still(Requests \ {k}) /\ SameCalls /\ \A t \in Tasks : Keeps(t)
    BY <1>0, <2>1, <2>3, OnlyStill DEF Still, SameCalls, Keeps
  <2> QED BY <1>0, <1>2, <2>1, <2>2, <2>3, <2>4, <2>5
<1>4. CASE task[known].state \notin FinalStates
  <2> DEFINE woken == Woken(request, known, "rejected")
             rec == [woken[k] EXCEPT !.pc = "saving", !.loaded = "canceled"]
             tk == [WithoutPending(task[known]) EXCEPT !.state = "canceled"]
  <2>1. /\ task' = [task EXCEPT ![known] = tk] /\ canceled' = TRUE
        /\ request' = [woken EXCEPT ![k].pc = "saving", ![k].loaded = "canceled"]
    BY <1>4 DEF CancelTask
  <2>2. woken \in RequestMap /\ \A r \in Requests : StillAs(woken[r], request[r])
    BY <1>1, WokenTyped, WokenIs
  <2>3. SameWork(task[known], tk)
    BY <1>1, <1>2 DEF TaskMap, TaskType, WithoutPending, SameWork
  <2> HIDE DEF woken, tk
  <2>4. woken[k] \in RequestType
    BY <1>0, <2>2 DEF RequestMap
  <2>5. rec.pc = "saving"
    BY <2>4 DEF RequestType
  <2>6. request' = [woken EXCEPT ![k] = rec]
    BY <1>0, <2>1, <2>2 DEF RequestMap
  <2> HIDE DEF rec
  <2>7. request'[k] = rec /\ Still(Requests \ {k})
    BY <1>0, <2>2, <2>6 DEF RequestMap, Still
  <2>8. \A t \in Tasks : Keeps(t)
    BY <1>1, <1>2, <2>1, <2>3 DEF TaskMap, SameWork, Keeps
  <2>9. SameCalls
    BY <1>0 DEF SameCalls
  <2> QED BY <1>0, <1>2, <2>1, <2>5, <2>7, <2>8, <2>9
<1> QED BY <1>3, <1>4

(* The effect of Disconnect.                                               *)
LEMMA DisconnectIs ==
  ASSUME ServerInv, NEW m \in Messages, Disconnect(m)
  PROVE  /\ \A r \in Requests : StillAs(request'[r], request[r]) /\ request'[r].wake = request[r].wake
         /\ UNCHANGED <<task, call, server>>
<1> DEFINE rec == [request[m] EXCEPT !.aborted = TRUE]
<1>0. m \in Requests /\ request' = [request EXCEPT ![m] = rec] /\ UNCHANGED <<task, call, server>>
  BY MessagesAreRequests DEF Disconnect
<1>1. request \in RequestMap /\ request[m] \in RequestType
  BY <1>0, Parts
<1>2. StillAs(rec, request[m]) /\ rec.wake = request[m].wake
  BY <1>1 DEF RequestType, StillAs
<1> HIDE DEF rec
<1>3. request'[m] = rec /\ \A r \in Requests \ {m} : request'[r] = request[r]
  BY <1>0, <1>1 DEF RequestMap
<1> QED BY <1>0, <1>2, <1>3 DEF StillAs

(* After a crash nothing is left of the Tasks and the executions.           *)
Crashed ==
  /\ UNCHANGED <<call, canceled>> /\ known' = None /\ executing' = FALSE
  /\ \A t \in Tasks : task'[t] = FreshTask("submitted")
  /\ \A r \in Requests :
       \/ request[r].pc \in {"new", "done"} /\ request'[r] = request[r]
       \/ /\ request[r].pc \notin {"new", "done"}
          /\ request'[r].pc = "done" /\ request'[r].ended = "crashed" /\ request'[r].wants = {}

(* The effect of Restart.                                                  *)
LEMMA RestartIs ==
  ASSUME Restart
  PROVE  Crashed
<1> DEFINE rec == [FreshRequest EXCEPT !.pc = "done", !.ended = "crashed"]
<1>1. rec.pc = "done" /\ rec.ended = "crashed" /\ rec.wants = {}
  BY DEF FreshRequest
<1>2. \A r \in Requests : \/ request[r].pc \in {"new", "done"} /\ request'[r] = request[r]
                          \/ request[r].pc \notin {"new", "done"} /\ request'[r] = rec
  BY DEF Restart
<1> HIDE DEF rec
<1> QED BY <1>1, <1>2 DEF Restart, Crashed

(* CallsInv after a crash.                                                 *)
LEMMA CrashedCalls ==
  ASSUME ServerInv, CallsInv, Crashed
  PROVE  CallsInv'
<1>1. \A c \in Calls : CallOK(c)'
  <2> TAKE c \in Calls
  <2>1. CallOK(c) /\ call[c].by \in Messages \cup {None}
    BY ByIs DEF CallsInv
  <2> QED BY <2>1, MessagesAreRequests DEF CallOK, Crashed, Entering
<1>2. \A m \in Messages : WantsOK(m)'
  <2> TAKE m \in Messages
  <2>1. WantsOK(m)
    BY DEF CallsInv
  <2> QED BY <2>1, MessagesAreRequests DEF WantsOK, Crashed
<1>3. \A t \in Tasks : HeldOK(t)'
  BY FreshIs DEF HeldOK, Crashed
<1>4. \A c \in Calls : AnswerOK(c)'
  BY MessagesAreRequests DEF AnswerOK, Crashed
<1> QED BY <1>1, <1>2, <1>3, <1>4 DEF CallsInv

(* The server starts in CallsInv.                                          *)
LEMMA InitCalls ==
  ASSUME Init PROVE CallsInv
<1>1. /\ \A c \in Calls : call[c].status = "new" /\ call[c].by = None /\ call[c].to = None
      /\ \A r \in Requests : request[r].pc = "new" /\ request[r].wants = {}
      /\ \A t \in Tasks : task[t] = FreshTask("submitted")
  BY DEF Init, FreshCall, FreshRequest
<1> QED BY <1>1, FreshIs, MessagesAreRequests DEF CallsInv, CallOK, AnswerOK, WantsOK, HeldOK

(* The effects of the steps of an execution.                               *)
LEMMA StepsOfExecution ==
  ASSUME ServerInv, NEW m \in Messages, Execution(m)
  PROVE  \/ CreateTask(m) \/ SaveNew(m) \/ Proceeds(m) \/ Caught(m)
         \/ Queues(m) \/ Waits(m) \/ Delivers(m)
         \/ (\E cs : Streamed(m, cs)) \/ (\E cs : Dropped(m, cs))
         \/ \E tk, cs, reqs : Schedules(m, tk, cs, reqs)
BY StreamEndsIs, SideStreamEndsIs, ScheduleToolCallsIs, LeaveQueueIs, WaitsIs, ResumeIs, CatchIs,
   ProceedIs DEF Execution, Throws

(* Every step keeps CallsInv, whether the task is canceled or not.         *)
LEMMA NextCalls ==
  ASSUME ServerInv, CallsInv, [Next]_vars PROVE CallsInv'
<1>1. CASE UNCHANGED vars
  <2>1. SameCalls /\ (\A t \in Tasks : Keeps(t)) /\ \A r \in Requests : StillAs(request'[r], request[r])
    BY <1>1 DEF vars, SameCalls, Keeps, StillAs
  <2> QED BY <2>1, StillGoes, StillAsks, CallsRest, MessagesAreRequests
<1>2. ASSUME NEW c \in Calls, Validated(c) \/ Finished(c) PROVE CallsInv'
  BY <1>2, ChangesIs, ChangesCalls
<1>3. ASSUME NEW c \in Calls, Answer(c) PROVE CallsInv'
  <2>1. request[c].pc = "answering"
    BY <1>3 DEF Answer
  <2> QED BY <1>3, <2>1, AnswersIs, AnswersCalls
<1>4. ASSUME NEW m \in Messages, Arrive(m) PROVE CallsInv'
  BY <1>4, ArriveIs, BeginsCalls
<1>5. ASSUME NEW m \in Messages, Execution(m) PROVE CallsInv'
  <2>1. CASE CreateTask(m)
    BY <2>1, CreateTaskIs, PassesCalls
  <2>2. CASE SaveNew(m)
    BY <2>2, SaveNewIs, BeginsCalls
  <2>3. CASE Proceeds(m) \/ Caught(m) \/ Queues(m) \/ Waits(m) \/ Delivers(m)
    BY <2>3, ProceedsCalls, CaughtCalls, QueuesCalls, WaitsCalls, DeliversCalls
  <2>4. CASE \E cs : Streamed(m, cs)
    BY <2>4, StreamedCalls
  <2>5. CASE \E cs : Dropped(m, cs)
    BY <2>5, DroppedCalls
  <2>6. CASE \E tk, cs, reqs : Schedules(m, tk, cs, reqs)
    BY <2>6, SchedulesCalls
  <2> QED BY <1>5, <2>1, <2>2, <2>3, <2>4, <2>5, <2>6, StepsOfExecution
<1>6. ASSUME NEW m \in Messages, Disconnect(m) PROVE CallsInv'
  <2>1. SameCalls /\ (\A t \in Tasks : Keeps(t)) /\ \A r \in Requests : StillAs(request'[r], request[r])
    BY <1>6, DisconnectIs DEF SameCalls, Keeps
  <2> QED BY <2>1, StillGoes, StillAsks, CallsRest, MessagesAreRequests
<1>7. ASSUME NEW r \in Messages \cup Readers, ArriveCold(r) PROVE CallsInv'
  BY <1>7, ArriveColdIs, PassesCalls
<1>8. ASSUME NEW r \in Messages \cup Readers, Reconstruct(r) PROVE CallsInv'
  BY <1>8, ReconstructIs, PassesCalls, BeginsCalls, FreshIs
<1>9. ASSUME NEW r \in Requests, Save(r) PROVE CallsInv'
  BY <1>9, SaveIs, PassesCalls
<1>10. ASSUME NEW k \in Cancels, CancelTask(k) PROVE CallsInv'
  BY <1>10, CancelTaskIs, AloneCalls DEF Still
<1>11. CASE Restart
  BY <1>11, RestartIs, CrashedCalls
<1> QED BY <1>1, <1>2, <1>3, <1>4, <1>5, <1>6, <1>7, <1>8, <1>9, <1>10, <1>11 DEF Next

-----------------------------------------------------------------------------
(* A step of the execution that runs, m, in task t                          *)

NoWork(tk) ==
  /\ tk.batch = {} /\ tk.completed = {} /\ tk.details = {}
  /\ tk.pending = {} /\ tk.promise = "resolved"

(* What m may change besides its own record and its Task.                   *)
CallFrame(m, c) ==
  /\ \/ call'[c].by = call[c].by /\ (call[c].status = "dropped" => call'[c].status = "dropped")
     \/ call'[c].by = m
  /\ call[c].to # None => call'[c].to = call[c].to
  /\ call[c].status # "new" => call'[c].by = call[c].by
Frame(m, t) ==
  /\ Running(m) /\ t = request[m].task /\ t \in Tasks /\ OnlyTask(t)
  /\ \A n \in Messages \ {m} :
       /\ ~ Running(n)' /\ request'[n].ended = request[n].ended
       /\ request'[n].pc = "answering" =>
            request[n].pc = "answering" /\ request'[n].task = request[n].task
  /\ request'[m].task = t /\ request'[m].pc # "answering"
  /\ \A c \in Calls : CallFrame(m, c)

(* Only the task of the execution that runs has a batch.                    *)
LEMMA OthersAreIdle ==
  ASSUME ServerInv, TurnParts, NEW m \in Messages, Running(m)
  PROVE  /\ \A u \in Tasks \ {request[m].task} : task[u].batch = {} /\ task[u].details = {}
         /\ request[m].pc \notin {"scheduling", "waiting"} =>
              \A u \in Tasks : task[u].batch = {} /\ task[u].details = {}
         /\ request[m].ended = None
         /\ \A n \in Messages \ {m} : ~ Running(n)
<1>1. \A n \in Messages : Running(n) => n = m
  BY Parts DEF OnePrimary
<1>2. \A u \in Tasks : OwnedOK(u) /\ BatchOK(task[u], call)
  BY DEF TurnParts, TaskOK
<1>3. request[m].ended = None
  <2>1. RequestOK(m, request[m], made) /\ request[m].pc \in Active
    BY ByIs DEF Running
  <2> QED BY <2>1 DEF RequestOK, Active, Working
<1>4. \A u \in Tasks : task[u].batch # {} => Works(m, u)
  BY <1>1, <1>2 DEF OwnedOK, Works
<1>5. \A u \in Tasks : task[u].batch = {} => task[u].details = {}
  BY <1>2 DEF BatchOK
<1> QED BY <1>1, <1>3, <1>4, <1>5 DEF Works

(* A result that is kept was asked for by an execution of its Task.        *)
LEMMA CompletedIs ==
  ASSUME ServerInv, CallsInv, NEW t \in Tasks, NEW c \in task[t].completed
  PROVE  /\ c \in Calls /\ call[c].by \in Messages /\ call[c].status # "new"
         /\ request[call[c].by].task = t /\ call[c].to = None
<1>1. c \in Calls /\ HeldOK(t) /\ CallOK(c) /\ call[c].by \in Messages \cup {None}
  BY ByIs DEF CallsInv
<1> QED BY <1>1 DEF HeldOK, CallOK

(* The Tasks beside that of the execution that runs.                       *)
LEMMA OtherTaskOK ==
  ASSUME ServerInv, CallsInv, TurnParts, NEW m \in Messages, NEW t, Frame(m, t),
         NEW u \in Tasks, u # t
  PROVE  TaskOK(u)'
<1>1. /\ task'[u] = task[u] /\ Running(m) /\ t = request[m].task
      /\ \A n \in Messages \ {m} : ~ Running(n)' /\ request'[n].ended = request[n].ended
      /\ request'[m].task = t
  BY DEF Frame, OnlyTask
<1>2. /\ task[u].batch = {} /\ task[u].details = {} /\ request[m].ended = None
      /\ \A n \in Messages \ {m} : ~ Running(n)
  BY <1>1, OthersAreIdle
<1>3. BatchOK(task[u], call) /\ CompletedOK(u)
  BY DEF TurnParts, TaskOK
<1>4. BatchOK(task[u], call)'
  BY <1>1, <1>2, <1>3 DEF BatchOK
<1>5. OwnedOK(u)' /\ FinalOK(u)'
  BY <1>1, <1>2 DEF OwnedOK, FinalOK
<1>6. CompletedOK(u)'
  <2> SUFFICES ASSUME NEW c \in task[u].completed
               PROVE  request'[call'[c].by].ended = "aborted"
    BY <1>1 DEF CompletedOK
  <2>1. /\ c \in Calls /\ call[c].by \in Messages /\ call[c].status # "new"
        /\ request[call[c].by].task = u
    BY CompletedIs
  <2>2. CallFrame(m, c)
    BY <2>1 DEF Frame
  <2>3. call'[c].by = call[c].by /\ call[c].by # m
    BY <1>1, <2>1, <2>2 DEF CallFrame
  <2>4. ~ Running(call[c].by) /\ request'[call[c].by].ended = request[call[c].by].ended
    BY <1>1, <1>2, <2>1, <2>3
  <2>5. request[call[c].by].ended = "aborted"
    BY <1>3, <2>4 DEF CompletedOK, Collects
  <2> QED BY <2>3, <2>4, <2>5
<1> QED BY <1>4, <1>5, <1>6 DEF TaskOK

(* The turns that ended before keep the results of their calls.            *)
LEMMA OtherEndedOK ==
  ASSUME ServerInv, CallsInv, TurnParts, NEW m \in Messages, NEW t, Frame(m, t),
         NEW n \in Messages, n # m
  PROVE  EndedOK(n)'
<1> SUFFICES ASSUME request'[n].ended = "normal", NEW c \in Calls,
                    call'[c].by = n, call'[c].status # "dropped"
             PROVE  call'[c].to = n
  BY DEF EndedOK
<1>1. request[n].ended = "normal" /\ CallFrame(m, c) /\ EndedOK(n) /\ n # None
  BY ByIs DEF Frame, TurnParts
<1>2. call[c].by = n /\ call[c].status # "dropped"
  BY <1>1 DEF CallFrame
<1>3. call[c].to = n
  BY <1>1, <1>2 DEF EndedOK
<1> QED BY <1>1, <1>3 DEF CallFrame

(* The results a task keeps, when m ends or goes on.                        *)
LEMMA CompletedStays ==
  ASSUME ServerInv, CallsInv, TurnParts, NEW m \in Messages, NEW t, Frame(m, t),
         \A c \in task'[t].completed : c \in task[t].completed \/ call'[c].by = m,
         \/ Collects(m)' \/ request'[m].ended = "aborted"
         \/ ~ Collects(m) /\ task'[t].completed \subseteq task[t].completed
  PROVE  CompletedOK(t)'
<1>1. /\ Running(m) /\ t = request[m].task /\ t \in Tasks
      /\ \A n \in Messages \ {m} : request'[n].ended = request[n].ended
  BY DEF Frame
<1>2. request[m].ended = None /\ \A n \in Messages \ {m} : ~ Running(n)
  BY <1>1, OthersAreIdle
<1>3. CompletedOK(t) /\ None # "aborted"
  BY <1>1, NoneIsNoValue DEF TurnParts, TaskOK, Ends
<1> SUFFICES ASSUME NEW c \in task'[t].completed,
                    ~ (call'[c].by = m /\ (Collects(m)' \/ request'[m].ended = "aborted"))
             PROVE  request'[call'[c].by].ended = "aborted"
  BY DEF CompletedOK
<1>5. c \in task[t].completed
  OBVIOUS
<1>6. c \in Calls /\ call[c].by \in Messages /\ call[c].status # "new"
  BY <1>1, <1>5, CompletedIs
<1>7. call'[c].by = call[c].by
  BY <1>6 DEF Frame, CallFrame
<1>8. Collects(call[c].by) \/ request[call[c].by].ended = "aborted"
  BY <1>3, <1>5 DEF CompletedOK
<1>9. call[c].by # m
  BY <1>2, <1>3, <1>7, <1>8
<1>10. ~ Collects(call[c].by)
  BY <1>2, <1>6, <1>9 DEF Collects
<1> QED BY <1>1, <1>6, <1>7, <1>8, <1>9, <1>10

(* TurnInv from what the step makes of the Task and the turn of m.         *)
LEMMA FrameTurn ==
  ASSUME ServerInv, ServerInv', CallsInv, TurnParts, NEW m \in Messages, NEW t, Frame(m, t),
         TaskOK(t)', WorkOK(m)', EndedOK(m)',
         \A n \in Messages \ {m} :
           request'[n].pc = "answering" /\ n \in task[t].details => n \in task'[t].details,
         known' = known, replaced' = replaced, Running(m)' \/ task'[t].state # "working"
  PROVE  TurnParts'
<1>1. /\ Running(m) /\ t = request[m].task /\ t \in Tasks /\ OnlyTask(t)
      /\ \A n \in Messages \ {m} : ~ Running(n)' /\ request'[n].ended = request[n].ended
      /\ request'[m].task = t /\ request'[m].pc # "answering"
  BY DEF Frame
<1>2. \A u \in Tasks : TaskOK(u)'
  BY <1>1, OtherTaskOK
<1>3. \A n \in Messages : EndedOK(n)'
  BY OtherEndedOK
<1>4. \A n \in Messages : WorkOK(n)'
  BY <1>1 DEF WorkOK
<1>5. \A n \in Messages : PromptOK(n)'
  <2> SUFFICES ASSUME NEW n \in Messages, request'[n].pc = "answering"
               PROVE  n \in task'[request'[n].task].details
    BY DEF PromptOK
  <2>1. n # m /\ request[n].pc = "answering" /\ request'[n].task = request[n].task
    BY <1>1 DEF Frame
  <2>2. PromptOK(n) /\ RequestOK(n, request[n], made)
    BY ByIs DEF TurnParts
  <2>3. request[n].task \in 1..made
    BY <2>1, <2>2 DEF RequestOK, Active
  <2>4. request[n].task \in Tasks
    BY <2>3, Parts, Made
  <2> QED BY <1>1, <2>1, <2>2, <2>4 DEF PromptOK, OnlyTask
<1>6. KnownOK'
  <2>1. KnownOK
    BY DEF TurnParts
  <2> QED BY <1>1, <2>1 DEF KnownOK
<1>7. Rests'
  <2> SUFFICES ASSUME known # None, ~ replaced, ~ executing' PROVE task'[known].state # "working"
    BY DEF Rests
  <2>1. known = t
    BY <1>1 DEF TurnParts, KnownOK
  <2>2. ~ Running(m)'
    BY DEF ServerInv, OnePrimary
  <2> QED BY <2>1, <2>2
<1> QED BY <1>2, <1>3, <1>4, <1>5, <1>6, <1>7 DEF TurnParts

-----------------------------------------------------------------------------
(* The calls of the batch go on                                            *)

(* The batch, its promise and its prompts after a step of the scheduler.   *)
LEMMA MovesBatch ==
  ASSUME NEW tk \in TaskType, NEW cs, NEW tn, NEW ds, Moves(tk, cs, tn, ds), NEW X, NEW new,
         \A c \in tk.details \ X : c \in tk.batch /\ cs[c].status = "awaiting",
         new.batch = tn.batch, new.pending = tn.pending, new.promise = tn.promise,
         new.details = tn.details \ X
  PROVE  BatchOK(new, ds)
<1>0. tk.batch \subseteq Calls
  BY DEF TaskType
<1>1. tn.pending = {c \in tk.batch : ds[c].status \notin Terminal}
  BY DEF Moves
<1>2. new.pending = {c \in new.batch : ds[c].status \notin Terminal}
      /\ (new.batch # {} => new.pending # {})
  BY <1>1 DEF Moves
<1>3. new.promise = IF new.pending = {} THEN "resolved" ELSE "open"
  BY DEF Moves
<1>4. ASSUME NEW d \in new.details
      PROVE  d \in new.batch /\ ds[d].status = "awaiting"
  <2>1. tn.details = tk.details \cup {c \in tn.pending : ds[c].status = "awaiting"}
    BY DEF Moves
  <2>2. d \in tk.batch /\ ds[d].status = "awaiting"
    <3>1. CASE d \in tk.details
      <4>1. d \in tk.batch /\ cs[d].status = "awaiting"
        BY <1>4, <3>1
      <4> QED BY <1>0, <4>1 DEF Moves
    <3>2. CASE d \in tn.pending /\ ds[d].status = "awaiting"
      BY <1>1, <3>2
    <3> QED BY <1>4, <2>1, <3>1, <3>2
  <2>3. d \in tn.pending
    BY <1>1, <2>2 DEF Terminal
  <2> QED BY <2>2, <2>3 DEF Moves
<1> QED BY <1>2, <1>3, <1>4 DEF BatchOK

(* The waiting execution is woken when nothing is pending any more.         *)
LEMMA RewokenWake ==
  ASSUME NEW reqs \in RequestMap, NEW m \in Requests, NEW t, NEW tk, NEW tn, NEW cs, NEW ds,
         Moves(tk, cs, tn, ds), tk.pending # {}, reqs[m].task = t
  PROVE  Rewoken(reqs, t, tk, ds)[m].wake =
           IF tn.pending = {} /\ reqs[m].pc = "waiting" /\ reqs[m].wake = "asleep" THEN "resolved"
           ELSE reqs[m].wake
<1>1. Registered(tk, ds) = tn.pending
  BY DEF Registered, Moves
<1>2. Rewoken(reqs, t, tk, ds) = IF tn.pending = {} THEN Woken(reqs, t, "resolved") ELSE reqs
  BY <1>1 DEF Rewoken
<1>3. reqs[m] \in RequestType
  BY DEF RequestMap
<1>4. Woken(reqs, t, "resolved")[m] =
        IF reqs[m].pc = "waiting" /\ reqs[m].task = t /\ reqs[m].wake = "asleep"
        THEN [reqs[m] EXCEPT !.wake = "resolved"] ELSE reqs[m]
  BY DEF Woken
<1>5. [reqs[m] EXCEPT !.wake = "resolved"].wake = "resolved"
  BY <1>3 DEF RequestType
<1> QED BY <1>2, <1>4, <1>5

(* The batch of the running execution goes on: tk is its Task as the        *)
(* scheduler sees it, X what is no longer asked.                            *)
BatchMoves(m, t, tk, cs, tn, reqs, X) ==
  /\ Works(m, t) /\ Frame(m, t) /\ task[t].batch # {}
  /\ tk \in TaskType /\ tk.batch = task[t].batch /\ tk.completed = task[t].completed
  /\ tk.pending = task[t].pending /\ tk.details = task[t].details
  /\ tk.state \in {task[t].state, "input-required"}
  /\ \A c \in Calls : cs[c].by = call[c].by /\ cs[c].to = call[c].to
                      /\ (call[c].status = "dropped" => cs[c].status = "dropped")
  /\ \A c \in tk.details \ X : cs[c].status = "awaiting"
  /\ Moves(tk, cs, tn, call')
  /\ task'[t].batch = tn.batch /\ task'[t].completed = tn.completed
  /\ task'[t].pending = tn.pending /\ task'[t].promise = tn.promise
  /\ task'[t].details = tn.details \ X
  /\ task'[t].state \in {tn.state, "working"}
  /\ reqs \in RequestMap /\ reqs[m] = request[m]
  /\ request' = Rewoken(reqs, t, tk, call')

(* The Task and the turn of m after a step of the scheduler.               *)
LEMMA BatchMovesOK ==
  ASSUME ServerInv, CallsInv, TurnParts, NEW m \in Messages, NEW t, NEW tk, NEW cs, NEW tn,
         NEW reqs, NEW X, BatchMoves(m, t, tk, cs, tn, reqs, X)
  PROVE  Running(m)' /\ TaskOK(t)' /\ WorkOK(m)' /\ EndedOK(m)'
<1>0. /\ Frame(m, t) /\ Running(m) /\ t = request[m].task /\ t \in Tasks
      /\ request[m].pc \in {"scheduling", "waiting"} /\ m \in Requests
      /\ tk.batch = task[t].batch /\ tk.completed = task[t].completed
      /\ tk.pending = task[t].pending /\ task[t].batch # {}
      /\ task'[t].batch = tn.batch /\ task'[t].completed = tn.completed
      /\ Moves(tk, cs, tn, call') /\ reqs \in RequestMap /\ reqs[m] = request[m]
      /\ request' = Rewoken(reqs, t, tk, call')
  BY MessagesAreRequests DEF BatchMoves, Frame, Works
<1>1. /\ TaskOK(t) /\ WorkOK(m) /\ WantsOK(m) /\ request[m].ended = None
      /\ task[t].batch \subseteq Calls /\ task[t].completed \subseteq Calls
  BY <1>0, OthersAreIdle, ByIs DEF TurnParts, CallsInv
<1>2. request[m].wants = task[t].batch
      /\ (request[m].pc = "waiting" => request[m].wake = "asleep")
  BY <1>0, <1>1 DEF WorkOK
<1>3. StillAs(request'[m], request[m])
  BY <1>0, RewokenIs
<1>4. Running(m)' /\ request'[m].task = t /\ request'[m].wants = request[m].wants
      /\ request'[m].pc = request[m].pc /\ request'[m].ended = None
  BY <1>0, <1>1, <1>3 DEF StillAs, Running
<1>5. tk.pending # {} /\ \A c \in task[t].details : c \in task[t].batch /\ call[c].status = "awaiting"
  BY <1>0, <1>1 DEF TaskOK, BatchOK
<1>6. request[m].pc = "waiting" => request'[m].wake = IF tn.pending = {} THEN "resolved" ELSE "asleep"
  <2>1. request'[m].wake = IF tn.pending = {} /\ reqs[m].pc = "waiting" /\ reqs[m].wake = "asleep" THEN "resolved"
           ELSE reqs[m].wake
    BY <1>0, <1>5, RewokenWake
  <2> QED BY <1>0, <1>2, <2>1
<1>7. tn.pending = {} <=> tn.batch = {}
  BY <1>0 DEF Moves
<1>8. tn.batch # {} => tn.batch = task[t].batch /\ tn.completed = task[t].completed
  BY <1>0 DEF Moves
<1>9. tn.batch = {} => tn.completed = task[t].completed \cup task[t].batch
  BY <1>0 DEF Moves
<1>10. BatchOK(task'[t], call')
  <2>1. \A c \in tk.details \ X : c \in tk.batch /\ cs[c].status = "awaiting"
    BY <1>0, <1>5 DEF BatchMoves
  <2> QED BY <2>1, MovesBatch DEF BatchMoves
<1>11. OwnedOK(t)'
  <2>1. Works(m, t)'
    BY <1>0, <1>4 DEF Works
  <2> QED BY <1>0, <1>2, <1>4, <1>8, <2>1 DEF OwnedOK
<1>12. FinalOK(t)'
  <2>1. task[t].state \notin FinalStates
    BY <1>0, <1>1 DEF TaskOK, FinalOK
  <2>2. task'[t].state \in {task[t].state, "input-required", "working"}
    BY DEF BatchMoves, Moves
  <2> QED BY <2>1, <2>2 DEF FinalOK, FinalStates
<1>13. CompletedOK(t)'
  <2>1. ASSUME NEW c \in task'[t].completed, c \notin task[t].completed
        PROVE  call'[c].by = m
    <3>1. c \in task[t].batch
      BY <1>0, <1>8, <1>9, <2>1
    <3>2. c \in Calls /\ call[c].by = m /\ call[c].status # "new"
      BY <1>1, <1>2, <3>1 DEF WantsOK
    <3> QED BY <1>0, <3>2 DEF Frame, CallFrame
  <2>2. Collects(m)'
    BY <1>0, <1>4 DEF Collects
  <2> QED BY <1>0, <2>1, <2>2, CompletedStays
<1>14. WorkOK(m)'
  <2>1. ASSUME NEW c \in Calls, call'[c].by = m, call'[c].status # "dropped"
        PROVE  call'[c].to = m \/ c \in request[m].wants \/ c \in task'[t].completed
    <3>1. /\ cs[c].by = call[c].by /\ cs[c].to = call[c].to
          /\ call[c].status = "dropped" => cs[c].status = "dropped"
          /\ call'[c].by = cs[c].by /\ call'[c].to = cs[c].to
          /\ \/ call'[c].status = cs[c].status
             \/ cs[c].status = "scheduled"
      BY <1>0 DEF BatchMoves, Moves
    <3>2. call[c].by = m /\ call'[c].to = call[c].to /\ call[c].status # "dropped"
      BY <1>0, <2>1, <3>1 DEF Frame, CallFrame
    <3> QED BY <1>0, <1>1, <1>8, <1>9, <3>2 DEF WorkOK
  <2>2. request'[m].pc \in {"scheduling", "waiting"} =>
         IF task'[t].batch = {} THEN request[m].wants \subseteq task'[t].completed
                          ELSE request[m].wants = task'[t].batch
    BY <1>0, <1>2, <1>8, <1>9
  <2>3. request'[m].pc = "waiting" =>
         request'[m].wake = IF task'[t].batch = {} THEN "resolved" ELSE "asleep"
    BY <1>0, <1>4, <1>6, <1>7
  <2> QED BY <1>4, <2>1, <2>2, <2>3 DEF WorkOK
<1>15. EndedOK(m)'
  BY <1>4, NoneIsNoValue DEF EndedOK, Ends
<1> QED BY <1>4, <1>10, <1>11, <1>12, <1>13, <1>14, <1>15 DEF TaskOK

(* A step of the scheduler gives no call away.                             *)
LEMMA MovesFrame ==
  ASSUME NEW tk, NEW cs, NEW tn, NEW m, Moves(tk, cs, tn, call'),
         \A c \in Calls : cs[c].by = call[c].by /\ cs[c].to = call[c].to
                          /\ (call[c].status = "dropped" => cs[c].status = "dropped")
  PROVE  \A c \in Calls : CallFrame(m, c)
<1> SUFFICES ASSUME NEW c \in Calls PROVE CallFrame(m, c)
  OBVIOUS
<1>1. /\ call'[c].by = cs[c].by /\ call'[c].to = cs[c].to
      /\ call'[c].status = cs[c].status \/ cs[c].status = "scheduled"
  BY DEF Moves
<1> QED BY <1>1 DEF CallFrame

(* A request that stays where it is runs as before.                        *)
LEMMA StillRuns ==
  ASSUME NEW n, StillAs(request'[n], request[n])
  PROVE  /\ Running(n)' <=> Running(n)
         /\ request'[n].task = request[n].task /\ request'[n].ended = request[n].ended
         /\ request'[n].pc = request[n].pc /\ request'[n].wants = request[n].wants
BY DEF StillAs, Running

(* TurnInv when a call changes its status.                                 *)
LEMMA ChangesTurn ==
  ASSUME ServerInv, ServerInv', CallsInv, TurnParts,
         NEW c \in Calls, NEW t, NEW s, Changes(c, t, s)
  PROVE  TurnParts'
<1> DEFINE cs == [call EXCEPT ![c].status = s]
<1>0. /\ t \in Tasks /\ task[t] \in TaskType /\ c \in task[t].batch
      /\ call[c].status \in {"validating", "executing"}
      /\ Moves(task[t], cs, task'[t], call') /\ OnlyTask(t)
      /\ request' = Rewoken(request, t, task[t], call') /\ UNCHANGED server
  BY DEF Changes, OnlyTask
<1>1. call \in CallMap /\ request \in RequestMap
  BY Parts
<1>2. \A d \in Calls : cs[d].by = call[d].by /\ cs[d].to = call[d].to
                       /\ cs[d].status = IF d = c THEN s ELSE call[d].status
  BY <1>1 DEF CallMap, CallType
<1> HIDE DEF cs
<1>3. TaskOK(t)
  BY <1>0 DEF TurnParts
<1>4. PICK m \in Messages : Works(m, t)
  BY <1>0, <1>3 DEF TaskOK, OwnedOK
<1>5. Running(m) /\ t = request[m].task /\ request[m].pc \in {"scheduling", "waiting"}
      /\ \A n \in Messages \ {m} : ~ Running(n)
  BY <1>4, OthersAreIdle DEF Works
<1>6. \A r \in Requests : StillAs(request'[r], request[r])
  BY <1>0, <1>1, RewokenIs
<1>7. \A d \in Calls : CallFrame(m, d)
  BY <1>0, <1>2, MovesFrame
<1>8. Frame(m, t)
  <2>1. \A n \in Messages : StillAs(request'[n], request[n])
    BY <1>6, MessagesAreRequests
  <2>2. \A n \in Messages :
         /\ Running(n)' <=> Running(n)
         /\ request'[n].task = request[n].task /\ request'[n].ended = request[n].ended
         /\ request'[n].pc = request[n].pc
    BY <2>1, StillRuns
  <2> QED BY <1>0, <1>5, <1>7, <2>2 DEF Frame
<1>9. \A d \in task[t].details : call[d].status = "awaiting" /\ d \in Calls /\ d # c
  BY <1>0, <1>3, ByIs DEF TaskOK, BatchOK
<1>10. BatchMoves(m, t, task[t], cs, task'[t], request, {})
  BY <1>0, <1>1, <1>2, <1>4, <1>8, <1>9 DEF BatchMoves
<1>11. Running(m)' /\ TaskOK(t)' /\ WorkOK(m)' /\ EndedOK(m)'
  BY <1>10, BatchMovesOK
<1>12. task[t].details \subseteq task'[t].details
  BY <1>0 DEF Moves
<1>13. known' = known /\ replaced' = replaced
  BY <1>0 DEF server
<1> QED BY <1>8, <1>11, <1>12, <1>13, FrameTurn

(* TurnInv when an answer is dealt with: the prompt is still open, so the  *)
(* answer reaches its call.                                                *)
LEMMA AnswersTurn ==
  ASSUME ServerInv, ServerInv', CallsInv, TurnParts,
         NEW c \in Calls, request[c].pc = "answering",
         NEW t, NEW tk, NEW cs, NEW tn, NEW reqs, Answers(c, t, tk, cs, tn, reqs)
  PROVE  TurnParts'
<1>0. t = request[c].task /\ t \in Tasks /\ c \in Messages /\ c \in Requests /\ OnlyTask(t)
      /\ UNCHANGED server
  BY MessagesAreRequests DEF Answers, OnlyTask
<1>1. c \in task[t].details /\ TaskOK(t)
  BY <1>0 DEF TurnParts, PromptOK
<1>2. c \in task[t].batch /\ call[c].status = "awaiting"
      /\ \A d \in task[t].details : call[d].status = "awaiting" /\ d \in Calls
  BY <1>0, <1>1, ByIs DEF TaskOK, BatchOK
<1>3. PICK m \in Messages : Works(m, t) /\ task[t].batch = request[m].wants
  BY <1>1, <1>2 DEF TaskOK, OwnedOK
<1>4. Running(m) /\ t = request[m].task /\ request[m].pc \in {"scheduling", "waiting"}
      /\ \A n \in Messages \ {m} : ~ Running(n)
  BY <1>3, OthersAreIdle DEF Works
<1>5. m # c /\ ~ request[c].primary
  <2>1. m # c
    BY <1>4
  <2> QED BY <1>0, <1>4, <2>1 DEF Running, Active
<1>6. Live(c)
  <2>1. WantsOK(m) /\ m # None
    BY ByIs DEF CallsInv
  <2>2. call[c].by = m
    BY <1>2, <1>3, <2>1 DEF WantsOK
  <2>3. None \notin Tasks
    BY NoneIsNoValue
  <2> QED BY <1>0, <1>2, <1>4, <2>1, <2>2, <2>3 DEF Live, TaskOf
<1>7. /\ cs[c].status \in {"scheduled", "cancelled"} /\ Moves(tk, cs, tn, call')
      /\ request' = Rewoken(reqs, t, tk, call') /\ reqs \in RequestMap
      /\ \A r \in Requests \ {c} : reqs[r] = request[r]
      /\ reqs[c].pc = "accepted" /\ ~ reqs[c].primary
      /\ reqs[c].ended = request[c].ended
      /\ \A d \in Calls : cs[d].by = call[d].by /\ cs[d].to = call[d].to
                      /\ (d # c => cs[d].status = call[d].status)
  BY <1>2, <1>5, <1>6 DEF Answers
<1>8. \A r \in Requests : StillAs(request'[r], reqs[r])
  BY <1>7, RewokenIs
<1>9. \A n \in Messages \ {c} : StillAs(request'[n], request[n])
  BY <1>7, <1>8, MessagesAreRequests
<1>10. ~ Running(c)' /\ request'[c].pc # "answering" /\ request'[c].ended = request[c].ended
  BY <1>0, <1>7, <1>8 DEF StillAs, Running
<1>11. \A d \in Calls : CallFrame(m, d)
  BY <1>2, <1>7, MovesFrame
<1>12. Frame(m, t)
  <2>2. \A n \in Messages \ {c} :
         /\ Running(n)' <=> Running(n)
         /\ request'[n].task = request[n].task /\ request'[n].ended = request[n].ended
         /\ request'[n].pc = request[n].pc
    BY <1>9, StillRuns
  <2> QED BY <1>0, <1>4, <1>5, <1>10, <1>11, <2>2 DEF Frame
<1>13. BatchMoves(m, t, tk, cs, tn, reqs, {c})
  <2>1. m \in Requests \ {c}
    BY <1>5, MessagesAreRequests
  <2>2. \A d \in Calls : call[d].status = "dropped" => cs[d].status = "dropped"
    BY <1>2, <1>7
  <2>3. tk.details = task[t].details
    BY DEF Answers
  <2>4. \A d \in tk.details \ {c} : cs[d].status = "awaiting"
    BY <1>2, <1>7, <2>3
  <2>5. /\ tk \in TaskType /\ tk.batch = task[t].batch /\ tk.completed = task[t].completed
        /\ tk.pending = task[t].pending /\ tk.details = task[t].details
        /\ tk.state \in {task[t].state, "input-required"}
        /\ task'[t].batch = tn.batch /\ task'[t].completed = tn.completed
        /\ task'[t].pending = tn.pending /\ task'[t].promise = tn.promise
        /\ task'[t].details = tn.details \ {c}
        /\ task'[t].state \in {tn.state, "working"}
    BY DEF Answers
  <2> QED BY <1>2, <1>3, <1>7, <1>12, <2>1, <2>2, <2>4, <2>5 DEF BatchMoves
<1>14. Running(m)' /\ TaskOK(t)' /\ WorkOK(m)' /\ EndedOK(m)'
  BY <1>13, BatchMovesOK
<1>15. \A d \in task[t].details : d # c => d \in task'[t].details
  BY <1>7 DEF Answers, Moves
<1>16. known' = known /\ replaced' = replaced
  BY <1>0 DEF server
<1> QED BY <1>10, <1>12, <1>14, <1>15, <1>16, FrameTurn

(* A step that changes the record of m, its Task and its calls.            *)
LEMMA OnlyFrame ==
  ASSUME ServerInv, TurnParts, NEW m \in Messages, Running(m), NEW t, t = request[m].task, t \in Tasks,
         OnlyTask(t), \A r \in Requests \ {m} : StillAs(request'[r], request[r]),
         request'[m].task = t, request'[m].pc # "answering", \A c \in Calls : CallFrame(m, c)
  PROVE  Frame(m, t)
<1>1. \A n \in Messages \ {m} : ~ Running(n)
  BY OthersAreIdle
<1>2. \A n \in Messages \ {m} : StillAs(request'[n], request[n])
  BY MessagesAreRequests
<1>3. \A n \in Messages \ {m} :
         /\ Running(n)' <=> Running(n)
         /\ request'[n].task = request[n].task /\ request'[n].ended = request[n].ended
         /\ request'[n].pc = request[n].pc
  BY <1>2, StillRuns
<1> QED BY <1>1, <1>3 DEF Frame

(* The execution m goes on in a Task whose batch and state let it.          *)
LEMMA StaysInTask ==
  ASSUME ServerInv, CallsInv, TurnParts, NEW m \in Messages, NEW t, Frame(m, t), Running(m)',
         task'[t].state \notin FinalStates, BatchOK(task'[t], call'),
         task'[t].batch # {} => request'[m].pc \in {"scheduling", "waiting"} /\ task'[t].batch = request'[m].wants,
         \A c \in task'[t].completed : c \in task[t].completed \/ call'[c].by = m,
         Collects(m)' \/ (~ Collects(m) /\ task'[t].completed \subseteq task[t].completed)
  PROVE  TaskOK(t)'
<1>1. request'[m].task = t
  BY DEF Frame
<1>2. OwnedOK(t)'
  BY <1>1 DEF OwnedOK, Works
<1>3. FinalOK(t)'
  BY DEF FinalOK
<1>4. CompletedOK(t)'
  BY CompletedStays
<1> QED BY <1>2, <1>3, <1>4 DEF TaskOK

(* What holds of the execution that runs, and is not ended.                 *)
LEMMA RunningIs ==
  ASSUME ServerInv, CallsInv, TurnParts, NEW m \in Messages, Running(m), NEW t, t = request[m].task
  PROVE  /\ m \in Requests /\ TaskOK(t) /\ BatchOK(task[t], call) /\ WorkOK(m) /\ WantsOK(m) /\ m # None
         /\ t \in Tasks /\ task[t].state \notin FinalStates /\ request[m].ended = None
         /\ request[m].wants \subseteq Calls /\ RequestOK(m, request[m], made)
         /\ task[t].completed \subseteq Calls
<1>0. RequestOK(m, request[m], made) /\ request[m].pc \in Active
  BY ByIs DEF Running
<1>1. t \in 1..made
  BY <1>0 DEF RequestOK
<1>2. t \in Tasks
  BY <1>1, Parts, Made
<1>3. TaskOK(t) /\ WorkOK(m) /\ WantsOK(m)
  BY <1>2 DEF TurnParts, CallsInv
<1>4. task[t].state \notin FinalStates
  BY <1>3 DEF TaskOK, FinalOK
<1> QED BY <1>0, <1>2, <1>3, <1>4, ByIs, OthersAreIdle, MessagesAreRequests DEF TaskOK

(* TurnInv when the stream ends.                                           *)
LEMMA StreamedTurn ==
  ASSUME ServerInv, ServerInv', CallsInv, TurnParts, NEW m \in Messages, NEW cs, Streamed(m, cs)
  PROVE  TurnParts'
<1>t. PICK t : t = request[m].task
  OBVIOUS
<1>0. Running(m) /\ Running(m)'
  BY DEF Streamed, Running, Active, Working
<1>1. /\ TaskOK(t) /\ BatchOK(task[t], call) /\ WorkOK(m) /\ t \in Tasks /\ request[m].ended = None
      /\ task[t].state \notin FinalStates /\ RequestOK(m, request[m], made)
  BY <1>t, <1>0, RunningIs
<1>2. /\ Only(m) /\ OnlyTask(t) /\ SameWork(task[t], task'[t]) /\ task'[t].state = task[t].state
      /\ SamePending(task[t], task'[t]) \/ NothingPending(task'[t])
      /\ request'[m].pc = "streamed" /\ request'[m].wants = cs /\ request'[m].task = t
      /\ request'[m].ended = request[m].ended /\ request[m].pc = "streaming" /\ UNCHANGED server
      /\ Asked(m, cs, "requested")
  BY <1>t DEF Streamed
<1>3. \A u \in Tasks : task[u].batch = {} /\ task[u].details = {}
  BY <1>0, <1>2, OthersAreIdle
<1>4. request[m].wants = {}
  BY <1>1, <1>2 DEF RequestOK
<1>5. \A c \in Calls : CallFrame(m, c)
  BY <1>2 DEF Asked, CallFrame
<1>6. Frame(m, t)
  BY <1>0, <1>1, <1>2, <1>5, OnlyFrame, OnlyStill, <1>t
<1>7. BatchOK(task'[t], call')
  BY <1>1, <1>2, <1>3 DEF BatchOK, SameWork, SamePending, NothingPending
<1>8. TaskOK(t)'
  <2>1. task'[t].batch = {} /\ task'[t].completed = task[t].completed /\ task'[t].state \notin FinalStates
    BY <1>1, <1>2, <1>3 DEF SameWork
  <2>2. ~ Collects(m)
    BY <1>2 DEF Collects
  <2> QED BY <1>0, <1>6, <1>7, <2>1, <2>2, StaysInTask
<1>9. WorkOK(m)'
  <2>1. ASSUME NEW c \in Calls, call'[c].by = m, call'[c].status # "dropped"
        PROVE  call'[c].to = m \/ c \in cs \/ c \in task'[t].completed
    <3>1. c \notin cs => call[c].by = m /\ call[c].status # "dropped" /\ call'[c].to = call[c].to
      BY <1>2, <2>1 DEF Asked
    <3> QED BY <1>t, <1>0, <1>1, <1>2, <1>4, <3>1 DEF WorkOK, SameWork
  <2> QED BY <1>2, <2>1 DEF WorkOK
<1>10. EndedOK(m)'
  BY <1>1, <1>2, NoneIsNoValue DEF EndedOK, Ends
<1>11. known' = known /\ replaced' = replaced
  BY <1>2 DEF server
<1>12. task[t].details = {}
  BY <1>1, <1>3
<1> QED BY <1>0, <1>6, <1>8, <1>9, <1>10, <1>11, <1>12, FrameTurn

(* TurnInv when a batch is queued.                                         *)
LEMMA QueuesTurn ==
  ASSUME ServerInv, ServerInv', CallsInv, TurnParts, NEW m \in Messages, Queues(m)
  PROVE  TurnParts'
<1>t. PICK t : t = request[m].task
  OBVIOUS
<1>0. Running(m) /\ Running(m)'
  BY DEF Queues, Carries, Running, Active, Working
<1>1. /\ TaskOK(t) /\ BatchOK(task[t], call) /\ WorkOK(m) /\ t \in Tasks /\ request[m].ended = None
  BY <1>t, <1>0, RunningIs
<1>2. /\ Only(m) /\ OnlyTask(t) /\ SameWork(task[t], task'[t]) /\ task'[t].state = "working"
      /\ SamePending(task[t], task'[t])
      /\ request'[m].pc = "queued" /\ request'[m].wants = request[m].wants /\ request'[m].task = t
      /\ request'[m].ended = request[m].ended /\ request[m].pc = "streamed" /\ UNCHANGED <<call, server>>
  BY <1>t DEF Queues, Carries
<1>3. \A u \in Tasks : task[u].batch = {} /\ task[u].details = {}
  BY <1>0, <1>2, OthersAreIdle
<1>5. \A c \in Calls : CallFrame(m, c)
  BY <1>2 DEF CallFrame
<1>6. Frame(m, t)
  BY <1>0, <1>1, <1>2, <1>5, OnlyFrame, OnlyStill, <1>t
<1>7. BatchOK(task'[t], call')
  BY <1>1, <1>2, <1>3 DEF BatchOK, SameWork, SamePending
<1>8. TaskOK(t)'
  <2>1. task'[t].batch = {} /\ task'[t].completed = task[t].completed /\ task'[t].state \notin FinalStates
    BY <1>1, <1>2, <1>3 DEF SameWork, FinalStates
  <2>2. ~ Collects(m)
    BY <1>2 DEF Collects
  <2> QED BY <1>0, <1>6, <1>7, <2>1, <2>2, StaysInTask
<1>9. WorkOK(m)'
  BY <1>t, <1>0, <1>1, <1>2 DEF WorkOK, SameWork
<1>10. EndedOK(m)'
  BY <1>1, <1>2, NoneIsNoValue DEF EndedOK, Ends
<1>11. known' = known /\ replaced' = replaced
  BY <1>2 DEF server
<1>12. task[t].details = {}
  BY <1>1, <1>3
<1> QED BY <1>0, <1>6, <1>8, <1>9, <1>10, <1>11, <1>12, FrameTurn

(* TurnInv when a wait begins.                                             *)
LEMMA WaitsTurn ==
  ASSUME ServerInv, ServerInv', CallsInv, TurnParts, NEW m \in Messages, Waits(m)
  PROVE  TurnParts'
<1>t. PICK t : t = request[m].task
  OBVIOUS
<1>0. Running(m) /\ Running(m)'
  BY DEF Waits, Carries, Running, Active, Working
<1>1. /\ TaskOK(t) /\ BatchOK(task[t], call) /\ WorkOK(m) /\ t \in Tasks /\ request[m].ended = None
      /\ task[t].state \notin FinalStates
  BY <1>t, <1>0, RunningIs
<1>2. /\ Only(m) /\ UNCHANGED <<task, call, server>>
      /\ request'[m].pc = "waiting" /\ request'[m].wants = request[m].wants /\ request'[m].task = t
      /\ request'[m].ended = request[m].ended
      /\ request'[m].wake = IF task[t].promise = "open" THEN "asleep" ELSE "resolved"
      /\ \/ request[m].pc = "streamed" /\ request[m].wants = {}
         \/ request[m].pc = "scheduling"
  BY <1>t DEF Waits, Carries
<1>3. request[m].pc = "streamed" => task[t].batch = {}
  BY <1>0, <1>1, OthersAreIdle
<1>5. \A c \in Calls : CallFrame(m, c)
  BY <1>2 DEF CallFrame
<1>6. Frame(m, t)
  <2>1. OnlyTask(t)
    BY <1>2 DEF OnlyTask
  <2> QED BY <1>0, <1>1, <1>2, <1>5, <2>1, OnlyFrame, OnlyStill, <1>t
<1>7. IF task[t].batch = {} THEN request[m].wants \subseteq task[t].completed
                            ELSE request[m].wants = task[t].batch
  BY <1>t, <1>0, <1>1, <1>2, <1>3 DEF WorkOK
<1>8. TaskOK(t)'
  <2>1. /\ task' = task /\ call' = call
        /\ task[t].batch # {} => request'[m].pc \in {"scheduling", "waiting"} /\ task[t].batch = request'[m].wants
    BY <1>2, <1>7
  <2>2. Collects(m)'
    BY <1>0, <1>2 DEF Collects
  <2> QED BY <1>0, <1>1, <1>6, <2>1, <2>2, StaysInTask
<1>9. WorkOK(m)'
  <2>1. task[t].promise = "open" <=> task[t].batch # {}
    BY <1>1 DEF BatchOK
  <2>2. \A c \in Calls : call[c].by = m /\ call[c].status # "dropped" =>
         call[c].to = m \/ c \in request[m].wants \/ c \in task[t].completed
    BY <1>t, <1>0, <1>1 DEF WorkOK
  <2> QED BY <1>2, <1>7, <2>1, <2>2 DEF WorkOK
<1>10. EndedOK(m)'
  BY <1>1, <1>2, NoneIsNoValue DEF EndedOK, Ends
<1>11. known' = known /\ replaced' = replaced
  BY <1>2 DEF server
<1>12. task' = task
  BY <1>2
<1> QED BY <1>0, <1>6, <1>8, <1>9, <1>10, <1>11, <1>12, FrameTurn

(* TurnInv when a batch is scheduled.                                      *)
LEMMA SchedulesTurn ==
  ASSUME ServerInv, ServerInv', CallsInv, TurnParts, NEW m \in Messages, NEW tk, NEW cs, NEW reqs,
         Schedules(m, tk, cs, reqs)
  PROVE  TurnParts'
<1>t. PICK t : t = request[m].task
  OBVIOUS
<1>0. Running(m)
  BY DEF Schedules, Running, Active, Working
<1>1. /\ TaskOK(t) /\ BatchOK(task[t], call) /\ WorkOK(m) /\ WantsOK(m) /\ t \in Tasks
      /\ request[m].ended = None /\ m \in Requests
      /\ task[t].state \notin FinalStates /\ request[m].wants \subseteq Calls
  BY <1>t, <1>0, RunningIs
<1>2. /\ task[t].batch = {} /\ request[m].pc \in {"streamed", "queued"}
      /\ tk \in TaskType /\ tk.batch = request[m].wants /\ tk.completed = task[t].completed
      /\ tk.details = task[t].details /\ tk.state \in {task[t].state, "working"}
      /\ Moves(tk, cs, task'[t], call') /\ OnlyTask(t)
      /\ \A c \in Calls : cs[c].by = call[c].by /\ cs[c].to = call[c].to
      /\ \A c \in Calls \ request[m].wants : cs[c].status = call[c].status
      /\ \A c \in request[m].wants : cs[c].status \in {"ended", "validating"}
      /\ reqs \in RequestMap /\ \A r \in Requests \ {m} : reqs[r] = request[r]
      /\ reqs[m].pc = "scheduling" /\ reqs[m].task = t /\ reqs[m].primary = request[m].primary
      /\ reqs[m].wants = request[m].wants /\ reqs[m].ended = request[m].ended
      /\ request' = Rewoken(reqs, t, tk, call') /\ UNCHANGED server
  BY <1>t DEF Schedules
<1>3. task[t].details = {}
  BY <1>1, <1>2 DEF BatchOK
<1>4. \A r \in Requests : StillAs(request'[r], reqs[r])
  BY <1>2, RewokenIs
<1>5. /\ request'[m].pc = "scheduling" /\ request'[m].wants = request[m].wants
      /\ request'[m].task = t /\ request'[m].ended = None /\ Running(m)'
  BY <1>0, <1>1, <1>2, <1>4 DEF StillAs, Running, Active, Working
<1>6. \A c \in Calls : call[c].status = "dropped" => cs[c].status = "dropped"
  <2> SUFFICES ASSUME NEW c \in Calls, call[c].status = "dropped" PROVE cs[c].status = "dropped"
    OBVIOUS
  <2>1. c \notin request[m].wants
    BY <1>1, <1>2 DEF WantsOK
  <2> QED BY <1>2, <2>1
<1>7. \A c \in Calls : CallFrame(m, c)
  BY <1>2, <1>6, MovesFrame
<1>8. Frame(m, t)
  <2>1. \A r \in Requests \ {m} : StillAs(request'[r], request[r])
    BY <1>2, <1>4
  <2> QED BY <1>t, <1>0, <1>1, <1>2, <1>5, <1>7, <2>1, OnlyFrame
<1>9. BatchOK(task'[t], call')
  <2>x. PICK X : X = {}
    OBVIOUS
  <2>1. \A c \in tk.details \ X : c \in tk.batch /\ cs[c].status = "awaiting"
    BY <1>2, <1>3
  <2>2. task'[t].details = task'[t].details \ X
    BY <2>x
  <2>3. tk \in TaskType /\ Moves(tk, cs, task'[t], call')
    BY <1>2
  <2> QED BY <2>1, <2>2, <2>3, MovesBatch
<1>10. /\ task'[t].batch # {} => task'[t].batch = request[m].wants /\ task'[t].completed = task[t].completed
       /\ task'[t].batch = {} => task'[t].completed = task[t].completed \cup request[m].wants
  BY <1>2 DEF Moves
<1>11. task'[t].state \notin FinalStates
  BY <1>1, <1>2 DEF Moves, FinalStates
<1>12. TaskOK(t)'
  <2>1. ASSUME NEW c \in task'[t].completed, c \notin task[t].completed
        PROVE  call'[c].by = m
    <3>1. c \in request[m].wants /\ c \in Calls
      BY <1>1, <1>10, <2>1
    <3>2. call[c].by = m
      BY <1>1, <3>1 DEF WantsOK
    <3> QED BY <1>2, <3>1, <3>2 DEF Moves
  <2>2. task'[t].batch # {} => request'[m].pc \in {"scheduling", "waiting"} /\ task'[t].batch = request'[m].wants
    BY <1>5, <1>10
  <2>3. Collects(m)'
    BY <1>5 DEF Collects
  <2> QED BY <1>5, <1>8, <1>9, <1>11, <2>1, <2>2, <2>3, StaysInTask
<1>13. WorkOK(m)'
  <2>1. ASSUME NEW c \in Calls, call'[c].by = m, call'[c].status # "dropped", c \notin request[m].wants
        PROVE  call'[c].to = m \/ c \in task'[t].completed
    <3>1. call[c].by = m /\ call[c].status # "dropped" /\ call'[c].to = call[c].to
      BY <1>2, <2>1 DEF Moves
    <3>2. call[c].to = m \/ c \in task[t].completed
      BY <1>t, <1>0, <1>1, <2>1, <3>1 DEF WorkOK
    <3> QED BY <1>10, <3>1, <3>2
  <2>2. IF task'[t].batch = {} THEN request[m].wants \subseteq task'[t].completed
                               ELSE request[m].wants = task'[t].batch
    BY <1>10
  <2> QED BY <1>5, <2>1, <2>2 DEF WorkOK
<1>14. EndedOK(m)'
  BY <1>5, NoneIsNoValue DEF EndedOK, Ends
<1>15. known' = known /\ replaced' = replaced
  BY <1>2 DEF server
<1> QED BY <1>3, <1>5, <1>8, <1>12, <1>13, <1>14, <1>15, FrameTurn

(* TurnInv when the results go back: the turn has those of all its calls.  *)
LEMMA DeliversTurn ==
  ASSUME ServerInv, ServerInv', CallsInv, TurnParts, NEW m \in Messages, Delivers(m)
  PROVE  TurnParts'
<1>t. PICK t : t = request[m].task
  OBVIOUS
<1>0. Running(m)
  BY DEF Delivers, Running, Active, Working
<1>1. /\ TaskOK(t) /\ BatchOK(task[t], call) /\ WorkOK(m) /\ t \in Tasks
      /\ request[m].ended = None /\ m \in Requests /\ m # None
  BY <1>t, <1>0, RunningIs
<1>2. /\ Only(m) /\ OnlyTask(t) /\ request[m].pc = "waiting" /\ request[m].wake = "resolved"
      /\ request'[m].wants = {}
      /\ task'[t].batch = task[t].batch /\ task'[t].details = task[t].details
      /\ task'[t].completed = {} /\ SamePending(task[t], task'[t])
      /\ \A c \in Calls :
           /\ call'[c].status = call[c].status /\ call'[c].by = call[c].by
           /\ call'[c].to = IF c \in task[t].completed THEN m ELSE call[c].to
      /\ TurnGoesOn(m) \/ TurnEnds(m)
  BY <1>t DEF Delivers
<1>3. task[t].batch = {} /\ task[t].details = {} /\ request[m].wants \subseteq task[t].completed
  <2>1. task[t].batch = {}
    BY <1>t, <1>0, <1>1, <1>2 DEF WorkOK
  <2> QED BY <1>t, <1>0, <1>1, <1>2, <2>1 DEF WorkOK, BatchOK
<1>4. /\ request'[m].task = t /\ known' = known /\ replaced' = replaced
      /\ task'[t].state \in {"working", "input-required"} /\ m \in Messages
      /\ \/ request'[m].pc = "streaming" /\ request'[m].ended = None /\ Running(m)'
         \/ request'[m].pc = "saving" /\ request'[m].ended = "normal" /\ ~ Running(m)'
            /\ task'[t].state = "input-required"
  BY <1>t, <1>0, <1>1, <1>2 DEF TurnGoesOn, TurnEnds, Carries, server, Running, Active, Working
<1>5. \A c \in Calls : CallFrame(m, c)
  BY <1>1, <1>2, CompletedIs DEF CallFrame
<1>6. Frame(m, t)
  BY <1>t, <1>0, <1>1, <1>2, <1>4, <1>5, OnlyFrame, OnlyStill
<1>7. TaskOK(t)'
  <2>1. BatchOK(task'[t], call')
    BY <1>1, <1>2, <1>3 DEF BatchOK, SamePending
  <2>2. OwnedOK(t)' /\ CompletedOK(t)'
    BY <1>2, <1>3 DEF OwnedOK, CompletedOK
  <2>3. FinalOK(t)'
    BY <1>4 DEF FinalOK, FinalStates
  <2> QED BY <2>1, <2>2, <2>3 DEF TaskOK
<1>8. \A c \in Calls : call'[c].by = m /\ call'[c].status # "dropped" => call'[c].to = m
  BY <1>t, <1>0, <1>1, <1>2, <1>3 DEF WorkOK
<1>9. WorkOK(m)' /\ EndedOK(m)'
  BY <1>4, <1>8 DEF WorkOK, EndedOK
<1>10. Running(m)' \/ task'[t].state # "working"
  BY <1>4
<1> QED BY <1>3, <1>4, <1>6, <1>7, <1>9, <1>10, FrameTurn

(* TurnInv when an execution throws: it has no batch.                      *)
LEMMA CaughtTurn ==
  ASSUME ServerInv, ServerInv', CallsInv, TurnParts, NEW m \in Messages, Caught(m)
  PROVE  TurnParts'
<1>t. PICK t : t = request[m].task
  OBVIOUS
<1>0. Running(m)
  BY DEF Caught
<1>1. /\ TaskOK(t) /\ BatchOK(task[t], call) /\ WorkOK(m) /\ t \in Tasks
  BY <1>t, <1>0, RunningIs
<1>2. /\ OnlyTask(t) /\ request[m].pc \in {"streaming", "streamed", "queued", "waiting"}
      /\ request[m].pc = "waiting" => request[m].wake \in {"rejected", "resolved"}
      /\ Still(Requests \ {m})
      /\ request'[m].pc = "saving" /\ request'[m].task = t
      /\ SameWork(task[t], task'[t]) /\ NothingPending(task'[t])
      /\ task'[t].state # "working"
      /\ request'[m].ended \in {"failed", "aborted"}
      /\ request[m].pc = "waiting" /\ request[m].wake = "resolved" => request'[m].ended = "aborted"
      /\ UNCHANGED <<known, call, replaced>>
  BY <1>t DEF Caught
<1>3. task[t].batch = {} /\ task[t].details = {}
  <2>1. CASE request[m].pc = "waiting"
    BY <1>t, <1>0, <1>1, <1>2, <2>1 DEF WorkOK, BatchOK
  <2>2. CASE request[m].pc # "waiting"
    BY <1>0, <1>1, <1>2, <2>2, OthersAreIdle
  <2> QED BY <2>1, <2>2
<1>4. ~ Running(m)'
  BY <1>2 DEF Running, Active, Working
<1>5. \A c \in Calls : CallFrame(m, c)
  BY <1>2 DEF CallFrame
<1>6. Frame(m, t)
  BY <1>t, <1>0, <1>1, <1>2, <1>5, OnlyFrame DEF Still
<1>7. TaskOK(t)'
  <2>1. BatchOK(task'[t], call')
    BY <1>2, <1>3 DEF BatchOK, SameWork, NothingPending
  <2>2. OwnedOK(t)'
    BY <1>2, <1>3 DEF OwnedOK, SameWork
  <2>3. CompletedOK(t)'
    <3>1. Collects(m) => request'[m].ended = "aborted"
      BY <1>t, <1>1, <1>2 DEF Collects, WorkOK
    <3> QED BY <1>2, <1>6, <3>1, CompletedStays DEF SameWork
  <2>4. FinalOK(t)'
    BY <1>4, <1>6 DEF FinalOK, Frame
  <2> QED BY <2>1, <2>2, <2>3, <2>4 DEF TaskOK
<1>8. WorkOK(m)' /\ EndedOK(m)'
  BY <1>2, <1>4 DEF WorkOK, EndedOK
<1> QED BY <1>2, <1>3, <1>6, <1>7, <1>8, FrameTurn

-----------------------------------------------------------------------------
(* Steps that leave the execution that runs alone                          *)

Undisturbed(n) ==
  /\ Running(n)' <=> Running(n)
  /\ request'[n].ended = request[n].ended
  /\ Running(n) => /\ request'[n].pc = request[n].pc /\ request'[n].task = request[n].task
                   /\ request'[n].wants = request[n].wants /\ request'[n].wake = request[n].wake
TaskStays(u) ==
  \/ /\ SameWork(task[u], task'[u]) /\ SamePending(task[u], task'[u])
     /\ task'[u].state \in FinalStates => task[u].state \in FinalStates
  \/ NoWork(task'[u]) /\ Unused(u)
CallStays(c) ==
  /\ call'[c].to = call[c].to
  /\ \/ call'[c].status = call[c].status /\ call'[c].by = call[c].by
     \/ call[c].status = "new" /\ call'[c].status = "dropped"
Steady ==
  /\ \A n \in Messages : Undisturbed(n)
  /\ \A u \in Tasks : TaskStays(u)
  /\ \A c \in Calls : CallStays(c)

(* A Task, in a step that leaves the execution that runs alone.            *)
LEMMA SteadyTask ==
  ASSUME ServerInv, CallsInv, TurnParts, Steady, NEW u \in Tasks
  PROVE  TaskOK(u)'
<1>1. TaskOK(u) /\ HeldOK(u) /\ task[u].batch \subseteq Calls
  BY ByIs DEF TurnParts, CallsInv
<1>2. \A n \in Messages : Undisturbed(n)
  BY DEF Steady
<1>3. CASE /\ SameWork(task[u], task'[u]) /\ SamePending(task[u], task'[u])
           /\ task'[u].state \in FinalStates => task[u].state \in FinalStates
  <2>1. \A c \in task[u].batch : call'[c].status = call[c].status
    BY <1>1 DEF HeldOK, Steady, CallStays
  <2>2. BatchOK(task'[u], call')
    BY <1>1, <1>3, <2>1 DEF TaskOK, BatchOK, SameWork, SamePending
  <2>3. OwnedOK(u)'
    BY <1>1, <1>2, <1>3 DEF TaskOK, OwnedOK, SameWork, Undisturbed, Works
  <2>4. FinalOK(u)'
    BY <1>1, <1>2, <1>3 DEF TaskOK, FinalOK, Undisturbed
  <2>5. CompletedOK(u)'
    <3> SUFFICES ASSUME NEW c \in task'[u].completed, NEW n \in Messages, n = call[c].by, n = call'[c].by
                 PROVE  Collects(n)' \/ request'[n].ended = "aborted"
      <4>1. ASSUME NEW c \in task'[u].completed
            PROVE  call'[c].by = call[c].by /\ call[c].by \in Messages
        <5>1. c \in task[u].completed
          BY <1>3 DEF SameWork
        <5>2. c \in Calls /\ call[c].by \in Messages /\ call[c].status # "new"
          BY <5>1, CompletedIs
        <5> QED BY <5>2 DEF Steady, CallStays
      <4> QED BY <4>1 DEF CompletedOK
    <3>1. c \in task[u].completed
      BY <1>3 DEF SameWork
    <3>2. Undisturbed(n)
      BY <1>2
    <3>3. Collects(n) \/ request[n].ended = "aborted"
      BY <1>1, <3>1 DEF TaskOK, CompletedOK
    <3> QED BY <3>2, <3>3 DEF Undisturbed, Collects
  <2> QED BY <2>2, <2>3, <2>4, <2>5 DEF TaskOK
<1>4. CASE NoWork(task'[u]) /\ Unused(u)
  BY <1>2, <1>4 DEF TaskOK, BatchOK, OwnedOK, FinalOK, CompletedOK, NoWork, Unused, Undisturbed
<1>5. TaskStays(u)
  BY DEF Steady
<1> QED BY <1>3, <1>4, <1>5 DEF TaskStays

(* A turn, in a step that leaves the execution that runs alone.            *)
LEMMA SteadyMessage ==
  ASSUME ServerInv, CallsInv, TurnParts, Steady, NEW n \in Messages
  PROVE  WorkOK(n)' /\ EndedOK(n)'
<1>1. Undisturbed(n) /\ n # None
  BY ByIs DEF Steady
<1>2. \A c \in Calls : call'[c].by = n /\ call'[c].status # "dropped" =>
        call[c].by = n /\ call[c].status # "dropped" /\ call'[c].to = call[c].to
  BY DEF Steady, CallStays
<1>3. EndedOK(n)'
  BY <1>1, <1>2 DEF TurnParts, EndedOK, Undisturbed
<1>4. WorkOK(n)'
  <2> SUFFICES ASSUME Running(n) PROVE WorkOK(n)'
    BY <1>1 DEF Undisturbed, WorkOK
  <2>t. PICK t : t = request[n].task
    OBVIOUS
  <2>1. t \in Tasks
    BY <2>t, RunningIs
  <2>2. TaskStays(t) /\ ~ Unused(t)
    BY <2>t, <2>1 DEF Steady, Unused
  <2>3. SameWork(task[t], task'[t])
    BY <2>2 DEF TaskStays
  <2>4. /\ request'[n].pc = request[n].pc /\ request'[n].task = t
        /\ request'[n].wants = request[n].wants /\ request'[n].wake = request[n].wake
    BY <2>t, <1>1 DEF Undisturbed
  <2>5. WorkOK(n)
    BY DEF TurnParts
  <2> QED BY <2>t, <1>2, <2>3, <2>4, <2>5 DEF WorkOK, SameWork
<1> QED BY <1>3, <1>4

(* An answer, in a step that leaves the execution that runs alone.         *)
LEMMA SteadyPrompt ==
  ASSUME ServerInv, TurnParts, Steady, NEW n \in Messages,
         request'[n].pc = "answering" =>
           request[n].pc = "answering" /\ request'[n].task = request[n].task
  PROVE  PromptOK(n)'
<1> SUFFICES ASSUME request'[n].pc = "answering" PROVE n \in task'[request[n].task].details
  BY DEF PromptOK
<1>t. PICK t : t = request[n].task
  OBVIOUS
<1>1. n \in task[t].details /\ RequestOK(n, request[n], made)
  BY <1>t, ByIs DEF TurnParts, PromptOK
<1>2. t \in 1..made
  BY <1>t, <1>1 DEF RequestOK, Active
<1>3. t \in Tasks
  BY <1>2, Parts, Made
<1>4. TaskOK(t) /\ TaskStays(t)
  BY <1>3 DEF TurnParts, Steady
<1>5. task[t].batch # {}
  BY <1>1, <1>4 DEF TaskOK, BatchOK
<1>6. ~ Unused(t)
  BY <1>4, <1>5 DEF TaskOK, OwnedOK, Works, Unused
<1> QED BY <1>t, <1>1, <1>4, <1>6 DEF TaskStays, SameWork

(* TurnInv when neither the Tasks nor the executor change.                 *)
LEMMA SteadyTurn ==
  ASSUME ServerInv, CallsInv, TurnParts, Steady, UNCHANGED <<task, known, executing, replaced, late>>,
         \A n \in Messages : request'[n].pc = "answering" =>
           request[n].pc = "answering" /\ request'[n].task = request[n].task
  PROVE  TurnParts'
<1>1. KnownOK' /\ Rests'
  BY DEF TurnParts, KnownOK, Rests, Steady, Undisturbed
<1> QED BY <1>1, SteadyTask, SteadyMessage, SteadyPrompt DEF TurnParts

(* A request that passes leaves the execution that runs alone.             *)
LEMMA PassesSteady ==
  ASSUME ServerInv, NEW r, Passes(r)
  PROVE  /\ Steady
         /\ \A n \in Messages : request'[n].pc = "answering" =>
              request[n].pc = "answering" /\ request'[n].task = request[n].task
<1>1. \A n \in Messages : n # r => request'[n] = request[n]
  BY MessagesAreRequests DEF Passes, Only
<1>2. r \in Messages => Undisturbed(r) /\ request'[r].pc # "answering"
  BY DEF Passes, Undisturbed, Running, Active
<1>3. \A n \in Messages : n # r => Undisturbed(n)
  BY <1>1 DEF Undisturbed, Running
<1>4. \A u \in Tasks : TaskStays(u)
  BY FreshIs DEF Passes, TaskStays, SameWork, SamePending, NoWork
<1>5. \A c \in Calls : CallStays(c)
  BY DEF Passes, CallStays
<1> QED BY <1>1, <1>2, <1>3, <1>4, <1>5 DEF Steady

(* TurnInv when the executor comes to know a Task made for a request.      *)
LEMMA NewTaskTurn ==
  ASSUME ServerInv, CallsInv, TurnParts, NEW r, Passes(r),
         replaced' \/ \A n \in Messages : ~ Running(n), task'[known'].state # "working"
  PROVE  TurnParts'
<1>1. Steady
  BY PassesSteady
<1>2. KnownOK' /\ Rests'
  BY <1>1 DEF KnownOK, Rests, Steady, Undisturbed
<1> QED BY <1>1, <1>2, SteadyTask, SteadyMessage, SteadyPrompt, PassesSteady DEF TurnParts

(* TurnInv when a stream on the side ends.                                 *)
LEMMA DroppedTurn ==
  ASSUME ServerInv, CallsInv, TurnParts, NEW m \in Messages, NEW cs, Dropped(m, cs)
  PROVE  TurnParts'
<1>1. \A n \in Messages \ {m} : request'[n] = request[n]
  BY MessagesAreRequests DEF Dropped, Only
<1>2. /\ Undisturbed(m) /\ request'[m].pc # "answering"
      /\ UNCHANGED <<task, known, executing, replaced, late>>
  BY DEF Dropped, Undisturbed, Running, server
<1>3. \A n \in Messages \ {m} : Undisturbed(n)
  BY <1>1 DEF Undisturbed, Running
<1>4. \A u \in Tasks : TaskStays(u)
  BY <1>2 DEF TaskStays, SameWork, SamePending
<1>5. \A c \in Calls : CallStays(c)
  BY DEF Dropped, Asked, CallStays
<1>6. Steady
  BY <1>2, <1>3, <1>4, <1>5 DEF Steady
<1> QED BY <1>1, <1>2, <1>6, SteadyTurn

(* TurnInv when a client goes away.                                        *)
LEMMA DisconnectTurn ==
  ASSUME ServerInv, CallsInv, TurnParts,
         \A r \in Requests : StillAs(request'[r], request[r]) /\ request'[r].wake = request[r].wake,
         UNCHANGED <<task, call, known, executing, replaced, late>>
  PROVE  TurnParts'
<1>1. \A n \in Messages : StillAs(request'[n], request[n]) /\ request'[n].wake = request[n].wake
  BY MessagesAreRequests
<1>2. \A n \in Messages : Undisturbed(n) /\ request'[n].pc = request[n].pc /\ request'[n].task = request[n].task
  BY <1>1, StillRuns DEF Undisturbed
<1>3. Steady
  BY <1>2 DEF Steady, TaskStays, SameWork, SamePending, CallStays
<1> QED BY <1>2, <1>3, SteadyTurn

(* TurnInv when the message of the execution that runs has been accepted.  *)
LEMMA ProceedsFirst ==
  ASSUME ServerInv, ServerInv', CallsInv, TurnParts, NEW m \in Messages, Proceeds(m), Running(m)
  PROVE  TurnParts'
<1>t. PICK t : t = request[m].task
  OBVIOUS
<1>1. /\ TaskOK(t) /\ BatchOK(task[t], call) /\ WorkOK(m) /\ t \in Tasks /\ request[m].ended = None
      /\ task[t].state \notin FinalStates
  BY <1>t, RunningIs
<1>2. /\ Only(m) /\ OnlyTask(t) /\ SameWork(task[t], task'[t]) /\ SamePending(task[t], task'[t])
      /\ task'[t].state \in {task[t].state, "working"}
      /\ request'[m].pc \in {"streaming", "streamed"} /\ request'[m].wants = request[m].wants
      /\ request'[m].task = t /\ request'[m].primary
      /\ request'[m].ended = request[m].ended /\ request[m].pc = "accepted"
      /\ UNCHANGED <<call, known, replaced>>
  BY <1>t DEF Proceeds, Carries, Running, core
<1>0. Running(m)'
  BY <1>2 DEF Running, Active, Working
<1>3. \A u \in Tasks : task[u].batch = {} /\ task[u].details = {}
  BY <1>2, OthersAreIdle
<1>5. \A c \in Calls : CallFrame(m, c)
  BY <1>2 DEF CallFrame
<1>6. Frame(m, t)
  BY <1>1, <1>2, <1>5, OnlyFrame, OnlyStill, <1>t
<1>7. BatchOK(task'[t], call')
  BY <1>1, <1>2, <1>3 DEF BatchOK, SameWork, SamePending
<1>8. TaskOK(t)'
  <2>1. task'[t].batch = {} /\ task'[t].completed = task[t].completed /\ task'[t].state \notin FinalStates
    BY <1>1, <1>2, <1>3 DEF SameWork, FinalStates
  <2>2. ~ Collects(m)
    BY <1>2 DEF Collects
  <2> QED BY <1>0, <1>6, <1>7, <2>1, <2>2, StaysInTask
<1>9. WorkOK(m)'
  BY <1>t, <1>1, <1>2 DEF WorkOK, SameWork
<1>10. EndedOK(m)'
  BY <1>1, <1>2, NoneIsNoValue DEF EndedOK, Ends
<1>11. known' = known /\ replaced' = replaced
  BY <1>2
<1>12. task[t].details = {}
  BY <1>1, <1>3
<1> QED BY <1>0, <1>6, <1>8, <1>9, <1>10, <1>11, <1>12, FrameTurn

(* TurnInv when a message on the side has been accepted, or one whose turn  *)
(* does not run: what it says of the task is late.                          *)
LEMMA ProceedsTurn ==
  ASSUME ServerInv, ServerInv', CallsInv, TurnParts, NEW m \in Messages, Proceeds(m)
  PROVE  TurnParts'
<1>1. CASE Running(m)
  BY <1>1, ProceedsFirst
<1>2. CASE ~ Running(m)
  <2>t. PICK t : t = request[m].task
    OBVIOUS
  <2>1. /\ t \in Tasks /\ OnlyTask(t) /\ SameWork(task[t], task'[t]) /\ SamePending(task[t], task'[t])
        /\ \/ task'[t].state = task[t].state
           \/ task'[t].state = "working" /\ (late' \/ executing)
        /\ late => late'
        /\ UNCHANGED <<call, known, executing, replaced>>
    BY <2>t DEF Proceeds, core
  <2>2. \A n \in Messages \ {m} : request'[n] = request[n]
    BY MessagesAreRequests DEF Proceeds, Only
  <2>3. Undisturbed(m) /\ request'[m].pc # "answering"
    BY <1>2 DEF Proceeds, Carries, Undisturbed, Running, Active, Working
  <2>4. \A n \in Messages \ {m} : Undisturbed(n)
    BY <2>2 DEF Undisturbed, Running
  <2>5. \A u \in Tasks : TaskStays(u)
    BY <2>1 DEF TaskStays, OnlyTask, SameWork, SamePending, FinalStates
  <2>6. \A c \in Calls : CallStays(c)
    BY <2>1 DEF CallStays
  <2>7. Steady
    BY <2>3, <2>4, <2>5, <2>6 DEF Steady
  <2>8. KnownOK'
    BY <2>1, <2>7 DEF TurnParts, KnownOK, Steady, Undisturbed
  <2>9. Rests'
    <3>1. known \in Tasks \cup {None}
      BY DEF ServerInv, TypeOK
    <3>2. known \in Tasks => known = t \/ task'[known].state = task[known].state
      BY <2>1 DEF OnlyTask
    <3> QED BY <2>1, <3>1, <3>2 DEF TurnParts, Rests
  <2> QED BY <2>2, <2>3, <2>7, <2>8, <2>9, SteadyTask, SteadyMessage, SteadyPrompt DEF TurnParts
<1> QED BY <1>1, <1>2

(* TurnInv after a crash.                                                  *)
LEMMA CrashedTurn ==
  ASSUME ServerInv, CallsInv, TurnParts, Crashed
  PROVE  TurnParts'
<1>1. \A n \in Messages : /\ request'[n].pc \in {"new", "done"}
                          /\ request'[n].ended = "normal" => request'[n] = request[n]
  BY MessagesAreRequests DEF Crashed
<1>2. \A n \in Messages : ~ Running(n)'
  BY <1>1 DEF Running, Active, Working
<1>3. \A u \in Tasks : TaskOK(u)'
  BY <1>2, FreshIs DEF Crashed, TaskOK, BatchOK, OwnedOK, FinalOK, CompletedOK
<1>4. \A n \in Messages : PromptOK(n)' /\ WorkOK(n)' /\ EndedOK(n)'
  BY <1>1, <1>2 DEF PromptOK, WorkOK, EndedOK, TurnParts, Crashed
<1>5. KnownOK' /\ Rests'
  BY <1>2 DEF KnownOK, Rests, Crashed
<1> QED BY <1>3, <1>4, <1>5 DEF TurnParts

(* Where m begins: the task the executor knows, or one made for m.          *)
Place(t, tk) ==
  /\ known' = t
  /\ \/ t = known /\ tk = task[t] /\ UNCHANGED replaced
     \/ NoWork(tk) /\ Unused(t) /\ tk.state # "working" /\ replaced' = (replaced \/ executing)

(* A message that is ignored, or goes on beside the execution that runs.    *)
LEMMA BeginsAside ==
  ASSUME ServerInv, ServerInv', CallsInv, TurnParts, NEW m \in Messages, NEW t, NEW tk,
         Begins(m, t, tk), Place(t, tk), executing \/ tk.state \in FinalStates
  PROVE  TurnParts'
<1>0. /\ m \in Requests /\ Only(m) /\ request[m].pc \in Entering
      /\ request'[m].ended = request[m].ended
      /\ t \in Tasks /\ OnlyTask(t) /\ SameCalls
      /\ SameWork(tk, task'[t]) /\ SamePending(tk, task'[t])
  BY DEF Begins
<1>1. ~ Running(m) /\ RequestOK(m, request[m], made)
  BY <1>0, ByIs DEF Entering, Running, Active, Working
<1>2. ~ Running(m)'
  BY DEF Begins, Running, Active, Working
<1>3. \A n \in Messages \ {m} : request'[n] = request[n]
  BY <1>0, MessagesAreRequests DEF Only
<1>4. \A n \in Messages : Undisturbed(n)
  BY <1>0, <1>1, <1>2, <1>3 DEF Undisturbed, Running
<1>5. TaskStays(t)
  <2>1. task'[t].state = tk.state
    BY DEF Begins
  <2> QED BY <1>0, <2>1 DEF Place, TaskStays, NoWork, SameWork, SamePending
<1>6. Steady
  <2>1. \A u \in Tasks : u # t => TaskStays(u)
    BY <1>0 DEF OnlyTask, TaskStays, SameWork, SamePending
  <2>2. \A c \in Calls : CallStays(c)
    BY <1>0 DEF SameCalls, CallStays
  <2> QED BY <1>4, <1>5, <2>1, <2>2 DEF Steady
<1>7. \A n \in Messages : PromptOK(n)'
  <2>1. PromptOK(m)'
    <3>1. request'[m].pc = "answering" => request'[m].task = t /\ m \in task'[t].details
      BY DEF Begins, SameWork
    <3> QED BY <3>1 DEF PromptOK
  <2>2. ASSUME NEW n \in Messages, n # m PROVE PromptOK(n)'
    BY <1>3, <1>6, <2>2, SteadyPrompt
  <2> QED BY <2>1, <2>2
<1>8. KnownOK'
  <2>1. \A n \in Messages : Running(n)' => Running(n) /\ executing /\ request'[n].task = request[n].task
    BY <1>4 DEF Undisturbed, ServerInv, OnePrimary
  <2>2. executing => replaced' \/ (known' = known /\ replaced' = replaced)
    BY DEF Place
  <2> QED BY <2>1, <2>2 DEF KnownOK, TurnParts
<1>9. Rests'
  BY DEF Rests, Place, Begins, FinalStates
<1> QED BY <1>6, <1>7, <1>8, <1>9, SteadyTask, SteadyMessage DEF TurnParts

(* The message becomes the execution that runs.                             *)
LEMMA BeginsFirst ==
  ASSUME ServerInv, ServerInv', CallsInv, TurnParts, NEW m \in Messages, NEW t, NEW tk,
         Begins(m, t, tk), Place(t, tk), ~ executing, tk.state \notin FinalStates
  PROVE  TurnParts'
<1>0. /\ m \in Requests /\ Only(m) /\ request[m].pc \in Entering
      /\ request'[m].ended = None /\ request'[m].wants = {}
      /\ t \in Tasks /\ OnlyTask(t) /\ SameCalls
      /\ SameWork(tk, task'[t]) /\ SamePending(tk, task'[t])
      /\ task'[t].state \notin FinalStates /\ executing'
      /\ request'[m].task = t /\ request'[m].primary
      /\ request'[m].pc \in {"accepted", "answering"}
      /\ request'[m].pc = "answering" => m \in task'[t].details
  BY DEF Begins, FinalStates, SameWork
<1>1. \A n \in Messages : ~ Running(n)
  BY DEF ServerInv, OnePrimary
<1>2. \A n \in Messages \ {m} : request'[n] = request[n] /\ ~ Running(n)'
  BY <1>0, <1>1, MessagesAreRequests DEF Only, Running
<1>3. \A u \in Tasks : task[u].batch = {} /\ task[u].details = {} /\ TaskOK(u)
  BY <1>1 DEF TurnParts, TaskOK, OwnedOK, BatchOK, Works
<1>4. \A c \in Calls : call[c].by # m
  BY <1>0, ByIs DEF CallsInv, CallOK
<1>5. \A u \in Tasks :
        /\ task'[u].batch = {} /\ task'[u].pending = {} /\ task'[u].promise = "resolved"
        /\ task'[u].details = {}
        /\ u # t => task'[u] = task[u]
        /\ task'[u].completed = {} \/ task'[u].completed = task[u].completed
        /\ u = t => task'[u].state \notin FinalStates /\
                      (task'[u].completed = {} \/ task[u].state \notin FinalStates)
  <2>1. \A u \in Tasks : task[u].pending = {} /\ task[u].promise = "resolved"
    BY <1>3 DEF TaskOK, BatchOK
  <2>2. \A u \in Tasks : u # t => task'[u] = task[u]
    BY <1>0 DEF OnlyTask
  <2>3. \/ tk = task[t]
        \/ tk.batch = {} /\ tk.completed = {} /\ tk.details = {} /\ tk.pending = {} /\ tk.promise = "resolved"
    BY DEF Place, NoWork
  <2>4. /\ task'[t].batch = {} /\ task'[t].pending = {} /\ task'[t].promise = "resolved"
        /\ task'[t].details = {}
        /\ task'[t].completed = {} \/ (task'[t].completed = task[t].completed /\ tk = task[t])
    BY <1>0, <1>3, <2>1, <2>3 DEF SameWork, SamePending
  <2> QED BY <1>0, <1>3, <2>1, <2>2, <2>4
<1>6. \A u \in Tasks : BatchOK(task'[u], call') /\ OwnedOK(u)'
  BY <1>5 DEF BatchOK, OwnedOK
<1>7. \A u \in Tasks : FinalOK(u)'
  BY <1>0, <1>2, <1>5 DEF FinalOK
<1>8. \A u \in Tasks : CompletedOK(u)'
  <2> SUFFICES ASSUME NEW u \in Tasks, NEW c \in task'[u].completed, NEW n \in Messages,
                      n = call[c].by, n = call'[c].by
               PROVE  request'[n].ended = "aborted"
    <3>1. ASSUME NEW u \in Tasks, NEW c \in task'[u].completed
          PROVE  call'[c].by = call[c].by /\ call[c].by \in Messages
      <4>1. c \in task[u].completed
        BY <1>5, <3>1
      <4>2. c \in Calls /\ call[c].by \in Messages
        BY <4>1, CompletedIs
      <4> QED BY <1>0, <4>2 DEF SameCalls
    <3> QED BY <3>1 DEF CompletedOK
  <2>1. c \in task[u].completed
    BY <1>5
  <2>2. c \in Calls
    BY <2>1, CompletedIs
  <2>3. n # m /\ request'[n] = request[n] /\ ~ Running(n)
    BY <1>1, <1>2, <1>4, <2>2
  <2>4. request[n].ended = "aborted"
    BY <1>3, <2>1, <2>3 DEF TaskOK, CompletedOK, Collects
  <2> QED BY <2>3, <2>4
<1>9. \A n \in Messages : PromptOK(n)'
  <2>1. PromptOK(m)'
    BY <1>0 DEF PromptOK
  <2>2. ASSUME NEW n \in Messages, n # m, request'[n].pc = "answering" PROVE FALSE
    <3>1. PromptOK(n) /\ request[n].pc = "answering" /\ RequestOK(n, request[n], made)
      BY <1>2, <2>2, ByIs DEF TurnParts
    <3>2. request[n].task \in 1..made
      BY <3>1 DEF RequestOK, Active
    <3>3. request[n].task \in Tasks
      BY <3>2, Parts, Made
    <3> QED BY <1>3, <3>1, <3>3 DEF PromptOK
  <2> QED BY <2>1, <2>2 DEF PromptOK
<1>10. \A n \in Messages : WorkOK(n)' /\ EndedOK(n)'
  <2>1. WorkOK(m)' /\ EndedOK(m)'
    BY <1>0, <1>4, NoneIsNoValue DEF WorkOK, EndedOK, SameCalls, Ends
  <2>2. ASSUME NEW n \in Messages, n # m PROVE WorkOK(n)' /\ EndedOK(n)'
    BY <1>0, <1>2, <2>2 DEF TurnParts, WorkOK, EndedOK, SameCalls
  <2> QED BY <2>1, <2>2
<1>11. KnownOK' /\ Rests'
  BY <1>0, <1>2 DEF KnownOK, Rests, Place
<1> QED BY <1>6, <1>7, <1>8, <1>9, <1>10, <1>11 DEF TurnParts, TaskOK

(* TurnInv when a message begins.                                          *)
LEMMA BeginsTurn ==
  ASSUME ServerInv, ServerInv', CallsInv, TurnParts, NEW m \in Messages, NEW t, NEW tk,
         Begins(m, t, tk), Place(t, tk)
  PROVE  TurnParts'
BY BeginsAside, BeginsFirst

-----------------------------------------------------------------------------
(* Every step                                                              *)

(* The server starts in TurnInv.                                           *)
LEMMA InitTurn ==
  ASSUME Init PROVE TurnInv
<1>1. /\ \A c \in Calls : call[c].by = None
      /\ \A r \in Requests : request[r].pc = "new" /\ request[r].ended = None
      /\ \A t \in Tasks : task[t] = FreshTask("submitted")
      /\ known = None
  BY DEF Init, FreshCall, FreshRequest
<1>2. \A m \in Messages : request[m].pc = "new" /\ request[m].ended = None /\ ~ Running(m)
  BY <1>1, MessagesAreRequests DEF Running, Active, Working
<1>3. \A t \in Tasks : TaskOK(t)
  BY <1>1, <1>2, FreshIs DEF TaskOK, BatchOK, OwnedOK, FinalOK, CompletedOK
<1>4. \A m \in Messages : PromptOK(m) /\ WorkOK(m) /\ EndedOK(m)
  BY <1>2, NoneIsNoValue DEF PromptOK, WorkOK, EndedOK, Ends
<1>5. KnownOK /\ Rests
  BY <1>1, <1>2 DEF KnownOK, Rests
<1> QED BY <1>3, <1>4, <1>5 DEF TurnInv, TurnParts

(* A step that makes a Task of its own, or finds the one that is known.     *)
LEMMA ReconstructTurn ==
  ASSUME ServerInv, ServerInv', CallsInv, TurnParts, NEW r \in Messages \cup Readers, Reconstruct(r)
  PROVE  TurnParts'
<1>1. /\ known' = NewTask /\ replaced' = (replaced \/ executing)
      /\ request[r].loaded # "working"
      /\ \/ Passes(r) /\ task'[NewTask] = FreshTask(request[r].loaded)
         \/ r \in Messages /\ Begins(r, NewTask, FreshTask(request[r].loaded))
  BY ReconstructIs
<1>2. CASE Passes(r) /\ task'[NewTask] = FreshTask(request[r].loaded)
  <2>1. task'[known'].state # "working"
    BY <1>1, <1>2, FreshIs
  <2>2. replaced' \/ \A n \in Messages : ~ Running(n)
    <3>1. executing \/ \A n \in Messages : ~ Running(n)
      BY DEF ServerInv, OnePrimary
    <3>2. executing => replaced'
      BY <1>1
    <3> QED BY <3>1, <3>2
  <2> QED BY <1>2, <2>1, <2>2, NewTaskTurn
<1>3. CASE r \in Messages /\ Begins(r, NewTask, FreshTask(request[r].loaded))
  <2>t. PICK t : t = NewTask
    OBVIOUS
  <2>1. NoWork(FreshTask(request[r].loaded)) /\ FreshTask(request[r].loaded).state # "working"
    BY <1>1, FreshIs DEF NoWork
  <2>2. Unused(t)
    BY <2>t, NewTaskIsUnused DEF NewTask
  <2>3. PICK tk : tk = FreshTask(request[r].loaded)
    OBVIOUS
  <2>4. Place(t, tk) /\ Begins(r, t, tk)
    BY <1>1, <1>3, <2>t, <2>1, <2>2, <2>3 DEF Place
  <2> QED BY <1>3, <2>4, BeginsTurn
<1> QED BY <1>1, <1>2, <1>3

(* TurnInv when a message begins in the Task that is known.                *)
LEMMA KnownTurn ==
  ASSUME ServerInv, ServerInv', CallsInv, TurnParts, NEW m \in Messages,
         Begins(m, known, task[known]), UNCHANGED <<known, replaced>>
  PROVE  TurnParts'
<1>1. PICK t, tk : t = known /\ tk = task[known]
  OBVIOUS
<1>2. Begins(m, t, tk) /\ Place(t, tk)
  BY <1>1 DEF Place
<1> QED BY <1>2, BeginsTurn

(* Every step keeps TurnInv.                                               *)
LEMMA NextTurn ==
  ASSUME ServerInv, ServerInv', CallsInv, TurnInv, [Next]_vars
  PROVE  TurnInv'
<1> SUFFICES ASSUME ~ canceled' PROVE TurnParts'
  BY DEF TurnInv
<1>a. CASE UNCHANGED vars
  <2>1. ~ canceled
    BY <1>a DEF vars
  <2>2. /\ \A r \in Requests : StillAs(request'[r], request[r]) /\ request'[r].wake = request[r].wake
        /\ UNCHANGED <<task, call, known, executing, replaced, late>>
    BY <1>a DEF vars, StillAs
  <2> QED BY <2>1, <2>2, DisconnectTurn DEF TurnInv
<1>b. CASE Next /\ canceled' # canceled
  <2>1. \E k \in Cancels : CancelTask(k)
    BY <1>b DEF Next, Validated, Finished, Answer, Arrive, Execution, Disconnect, ArriveCold,
       Reconstruct, Save, Restart, CreateTask, SaveNew, Proceed, StreamEnds, SideStreamEnds, StreamFails,
       ScheduleToolCalls, NothingToSchedule, LeaveQueue, AbortSeen, ProposalFails, Scheduled,
       Resume, WaitFails, Catch, EndTurn, Schedule, Wait, server
  <2>2. canceled'
    BY <1>b, <2>1, CancelTaskIs
  <2> QED BY <2>2
<1>c. CASE Next /\ canceled' = canceled
  <2>0. TurnParts
    BY <1>c DEF TurnInv
  <2>2. ASSUME NEW c \in Calls, Validated(c) \/ Finished(c) PROVE TurnParts'
    BY <2>0, <2>2, ChangesIs, ChangesTurn
  <2>3. ASSUME NEW c \in Calls, Answer(c) PROVE TurnParts'
    <3>1. request[c].pc = "answering"
      BY <2>3 DEF Answer
    <3> QED BY <2>0, <2>3, <3>1, AnswersIs, AnswersTurn
  <2>4. ASSUME NEW m \in Messages, Arrive(m) PROVE TurnParts'
    BY <2>0, <2>4, ArriveIs, KnownTurn
  <2>5. ASSUME NEW m \in Messages, Execution(m) PROVE TurnParts'
    <3>1. CASE CreateTask(m)
      <4>1. Passes(m) /\ known' = made + 1 /\ task'[made + 1] = FreshTask("submitted")
            /\ \A n \in Messages : ~ Running(n)
        BY <3>1, CreateTaskIs
      <4>2. task'[known'].state # "working"
        BY <4>1, FreshIs
      <4> QED BY <2>0, <4>1, <4>2, NewTaskTurn
    <3>2. CASE SaveNew(m)
      BY <2>0, <3>2, SaveNewIs, KnownTurn
    <3>3. CASE Proceeds(m) \/ Caught(m) \/ Queues(m) \/ Waits(m) \/ Delivers(m)
      BY <2>0, <3>3, ProceedsTurn, CaughtTurn, QueuesTurn, WaitsTurn, DeliversTurn
    <3>4. CASE \E cs : Streamed(m, cs)
      BY <2>0, <3>4, StreamedTurn
    <3>5. CASE \E cs : Dropped(m, cs)
      BY <2>0, <3>5, DroppedTurn
    <3>6. CASE \E tk, cs, reqs : Schedules(m, tk, cs, reqs)
      BY <2>0, <3>6, SchedulesTurn
    <3> QED BY <2>5, <3>1, <3>2, <3>3, <3>4, <3>5, <3>6, StepsOfExecution
  <2>6. ASSUME NEW m \in Messages, Disconnect(m) PROVE TurnParts'
    BY <2>0, <2>6, DisconnectIs, DisconnectTurn DEF server
  <2>7. ASSUME NEW r \in Messages \cup Readers, ArriveCold(r) PROVE TurnParts'
    BY <2>0, <2>7, ArriveColdIs, PassesSteady, SteadyTurn DEF server
  <2>8. ASSUME NEW r \in Messages \cup Readers, Reconstruct(r) PROVE TurnParts'
    BY <2>0, <2>8, ReconstructTurn
  <2>9. ASSUME NEW r \in Requests, Save(r) PROVE TurnParts'
    BY <2>0, <2>9, SaveIs, PassesSteady, SteadyTurn
  <2>10. ASSUME NEW k \in Cancels, CancelTask(k) PROVE TurnParts'
    <3>1. Passes(k) /\ UNCHANGED <<task, made, known, executing, call, canceled, replaced, late>>
      BY <2>10, CancelTaskIs
    <3> QED BY <2>0, <3>1, PassesSteady, SteadyTurn
  <2>11. CASE Restart
    BY <2>0, <2>11, RestartIs, CrashedTurn
  <2> QED BY <1>c, <2>2, <2>3, <2>4, <2>5, <2>6, <2>7, <2>8, <2>9, <2>10, <2>11 DEF Next
<1> QED BY <1>a, <1>b, <1>c

-----------------------------------------------------------------------------
(* What follows                                                            *)

(* Only the end of a wait gives results to the model.                       *)
SameResults == \A c \in Calls : call'[c].to = call[c].to

(* The results of calls change only when a wait is over.                   *)
LEMMA OnlyDeliveriesGiveResults ==
  ASSUME ServerInv, [Next]_vars
  PROVE  SameResults \/ \E m \in Messages : Delivers(m)
<1>1. CASE UNCHANGED vars
  BY <1>1 DEF vars, SameResults
<1>2. ASSUME NEW c \in Calls, Validated(c) \/ Finished(c) PROVE SameResults
  <2>1. PICK t, s : Changes(c, t, s)
    BY <1>2, ChangesIs
  <2> DEFINE cs == [call EXCEPT ![c].status = s]
  <2>2. call \in CallMap
    BY Parts
  <2>3. \A d \in Calls : cs[d].to = call[d].to
    BY <2>2 DEF CallMap, CallType
  <2> HIDE DEF cs
  <2>4. Moves(task[t], cs, task'[t], call')
    BY <2>1 DEF Changes, cs
  <2> QED BY <2>3, <2>4 DEF Moves, SameResults
<1>3. ASSUME NEW c \in Calls, Answer(c) PROVE SameResults
  BY <1>3, AnswersIs DEF Answers, Moves, SameResults
<1>4. ASSUME NEW m \in Messages, Arrive(m) PROVE SameResults
  BY <1>4, ArriveIs DEF Begins, SameCalls, SameResults
<1>5. ASSUME NEW m \in Messages, Execution(m), ~ Delivers(m) PROVE SameResults
  <2>1. CASE CreateTask(m)
    BY <2>1, CreateTaskIs DEF Passes, SameResults
  <2>2. CASE SaveNew(m)
    BY <2>2, SaveNewIs DEF Begins, SameCalls, SameResults
  <2>3. CASE Proceeds(m) \/ Caught(m) \/ Queues(m) \/ Waits(m)
    BY <2>3 DEF Proceeds, Caught, Queues, Waits, SameResults
  <2>4. CASE (\E cs : Streamed(m, cs)) \/ (\E cs : Dropped(m, cs))
    BY <2>4 DEF Streamed, Dropped, Asked, SameResults
  <2>5. CASE \E tk, cs, reqs : Schedules(m, tk, cs, reqs)
    BY <2>5 DEF Schedules, Moves, SameResults
  <2> QED BY <1>5, <2>1, <2>2, <2>3, <2>4, <2>5, StepsOfExecution
<1>6. ASSUME NEW m \in Messages, Disconnect(m) PROVE SameResults
  BY <1>6, DisconnectIs DEF SameResults
<1>7. ASSUME NEW r \in Messages \cup Readers, ArriveCold(r) PROVE SameResults
  BY <1>7, ArriveColdIs DEF Passes, SameResults
<1>8. ASSUME NEW r \in Messages \cup Readers, Reconstruct(r) PROVE SameResults
  BY <1>8, ReconstructIs DEF Passes, Begins, SameCalls, SameResults
<1>9. ASSUME NEW r \in Requests, Save(r) PROVE SameResults
  BY <1>9, SaveIs DEF SameResults
<1>10. ASSUME NEW k \in Cancels, CancelTask(k) PROVE SameResults
  BY <1>10, CancelTaskIs DEF SameCalls, SameResults
<1>11. CASE Restart
  BY <1>11, RestartIs DEF Crashed, SameResults
<1> QED BY <1>1, <1>2, <1>3, <1>4, <1>5, <1>6, <1>7, <1>8, <1>9, <1>10, <1>11 DEF Next

(* The three layers together are inductive.                                *)
LEMMA TaskInvIsInductive ==
  /\ Init => TaskInv
  /\ TaskInv /\ [Next]_vars => TaskInv'
BY InitServer, InitCalls, InitTurn, NextServer, NextCalls, NextTurn DEF TaskInv

(* They hold in every state.                                               *)
LEMMA TaskInvHolds == Spec => []TaskInv
BY TaskInvIsInductive, PTL DEF Spec

(* A turn that ends without an abort, a failure or a cancellation has      *)
(* given the model, or the history, the result of every call it scheduled, *)
(* whatever other messages, prompts, readers and crashes came between:     *)
(* waitForPendingTools and getAndClearCompletedTools miss none.            *)
THEOREM TurnsAreAnswered == Spec => []TurnAnswersItsCalls
<1>1. TaskInv => TurnAnswersItsCalls
  <2> SUFFICES ASSUME TaskInv, ~ canceled, NEW c \in Calls, call[c].status # "dropped",
                      call[c].by # None, request[call[c].by].ended = "normal"
               PROVE  call[c].to = call[c].by
    BY DEF TurnAnswersItsCalls
  <2>1. call[c].by \in Messages
    BY ByIs DEF TaskInv
  <2> QED BY <2>1 DEF TaskInv, TurnInv, TurnParts, EndedOK
<1> QED BY <1>1, TaskInvHolds, PTL

(* The store never says working, so a restarted server does not either;    *)
(* and a task in memory that says so is being executed, unless it was      *)
(* canceled, another request has put a Task in its place, or a message on  *)
(* the side has said so since the last execution ended (task.ts:850, 871). *)
THEOREM WorkingTasksRun == Spec => []WorkingIsRunning
<1>1. TaskInv => WorkingIsRunning
  BY DEF TaskInv, ServerInv, TurnInv, TurnParts, Rests, WorkingIsRunning
<1> QED BY <1>1, TaskInvHolds, PTL

(* The results a wait gives away were kept, and are those of its own turn  *)
(* or of one that was aborted.                                             *)
LEMMA DeliversOnce ==
  ASSUME TaskInv, NEW m \in Messages, Delivers(m), NEW c \in Calls
  PROVE  /\ call[c].to # None => call'[c].to = call[c].to
         /\ call[c].to # call'[c].to =>
              \/ call'[c].to = call[c].by
              \/ request[call[c].by].ended = "aborted" \/ canceled
<1>t. PICK t : t = request[m].task
  OBVIOUS
<1>0. ServerInv /\ CallsInv /\ TurnInv /\ Running(m)
  BY DEF TaskInv, Delivers, Running, Active, Working
<1>1. t \in Tasks /\ call'[c].to = IF c \in task[t].completed THEN m ELSE call[c].to
  BY <1>t DEF Delivers
<1>2. ASSUME c \in task[t].completed, ~ canceled
      PROVE  m = call[c].by \/ request[call[c].by].ended = "aborted"
  <2>1. TurnParts
    BY <1>0, <1>2 DEF TurnInv
  <2>2. TaskOK(t) /\ task[t].state \notin FinalStates
    BY <1>t, <1>0, <2>1, RunningIs
  <2>3. Running(call[c].by) \/ request[call[c].by].ended = "aborted"
    BY <1>2, <2>2 DEF TaskOK, CompletedOK, Collects
  <2>4. call[c].by \in Messages
    BY <1>0, <1>1, <1>2, CompletedIs
  <2> QED BY <1>0, <2>1, <2>3, <2>4, OthersAreIdle
<1>3. c \in task[t].completed => call[c].to = None
  BY <1>0, <1>1, CompletedIs
<1> QED BY <1>1, <1>2, <1>3

(* A result is given to the model once, to the turn that asked for it; one *)
(* that goes back later belongs to a turn that was aborted, or its task    *)
(* was canceled.                                                           *)
THEOREM ResultsAreGivenOnce == Spec => ResultsGoBackOnce
<1> DEFINE Once ==
      \A c \in Calls :
       /\ call[c].to # None => call'[c].to = call[c].to
       /\ call[c].to # call'[c].to =>
            \/ call'[c].to = call[c].by
            \/ request[call[c].by].ended = "aborted" \/ canceled
<1>1. TaskInv /\ [Next]_vars => Once
  <2> SUFFICES ASSUME TaskInv, [Next]_vars PROVE Once
    OBVIOUS
  <2>1. SameResults => Once
    BY DEF SameResults
  <2>2. (\E m \in Messages : Delivers(m)) => Once
    BY DeliversOnce
  <2> QED BY <2>1, <2>2, OnlyDeliveriesGiveResults DEF TaskInv
<1>2. TaskInv /\ [Next]_vars => [Once]_vars
  BY <1>1
<1> HIDE DEF Once
<1>3. Spec => [][Once]_vars
  BY <1>2, TaskInvHolds, PTL DEF Spec
<1> QED BY <1>3 DEF ResultsGoBackOnce, Once

=============================================================================
