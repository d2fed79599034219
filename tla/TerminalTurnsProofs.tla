------------------------ MODULE TerminalTurnsProofs ------------------------
(***************************************************************************)
(* Proofs about TerminalTurns, for any messages, commands, slots and       *)
(* bounds: the terminal never spins for nothing.                           *)
(*                                                                         *)
(* Whoever sets isResponding is a stream or a shell command, and each      *)
(* clears it when it ends.  What must be shown is that no other step takes *)
(* a turn out of "streaming" or "shell": a timer is started only for a     *)
(* turn that is in the queue (Queued), and a report ends only a turn that  *)
(* is at its tools (AtTools).                                              *)
(***************************************************************************)
EXTENDS TerminalTurns, TLAPS

TurnRecord ==
  [pc : Steps, sched : Messages \cup {None}, heard : BOOLEAN,
   aborted : BOOLEAN, calls : [Slots -> Statuses], client : BOOLEAN,
   rounds : Nat, cancelled : BOOLEAN]

Settled == {"none", "ended", "cancelled"}

(* What is known of a queue q and the turns t.                             *)
Typed(q, t) == t \in [Messages -> TurnRecord] /\ q \in Seq(Messages)
Queued(q, t) ==
  /\ IsInjective(q)
  /\ \A m \in Range(q) : t[m].pc = "queued"
AtTools(t) ==
  \A m \in Messages, c \in Slots :
    t[m].calls[c] \notin Settled => t[m].pc = "tools"
Good(q, t) == Typed(q, t) /\ Queued(q, t) /\ AtTools(t)

RestTyped ==
  /\ isResponding \in BOOLEAN
  /\ seen \in [streaming : StreamingStates, responding : BOOLEAN]
  /\ scheduler \in Messages \cup {None}

Working == {"streaming", "shell"}

IInv == Good(queue, turn) /\ RestTyped /\ NeverSpinsForNothing

-----------------------------------------------------------------------------
(* The queue                                                               *)

(* A submission is taken off the queue.                                    *)
LEMMA TailRange ==
  ASSUME NEW S, NEW q \in Seq(S), q # <<>>
  PROVE  /\ Tail(q) \in Seq(S) /\ Head(q) \in S
         /\ Range(Tail(q)) \subseteq Range(q) /\ Head(q) \in Range(q)
         /\ IsInjective(q) =>
              IsInjective(Tail(q)) /\ Head(q) \notin Range(Tail(q))
  BY DEF Range, IsInjective

(* A submission is put on the queue.                                       *)
LEMMA AppendRange ==
  ASSUME NEW S, NEW q \in Seq(S), NEW b \in S
  PROVE  /\ Append(q, b) \in Seq(S)
         /\ Range(Append(q, b)) \subseteq Range(q) \cup {b}
         /\ IsInjective(q) /\ b \notin Range(q) => IsInjective(Append(q, b))
  <1> DEFINE r == Append(q, b)
  <1>1. /\ DOMAIN q = 1..Len(q) /\ DOMAIN r = 1..(Len(q) + 1)
        /\ Len(q) \in Nat
        /\ \A j \in 1..Len(q) : r[j] = q[j]
        /\ r[Len(q) + 1] = b
    OBVIOUS
  <1>2. r \in Seq(S)
    OBVIOUS
  <1> HIDE DEF r
  <1>3. Range(r) \subseteq Range(q) \cup {b}
    BY <1>1 DEF Range
  <1>4. ASSUME IsInjective(q), b \notin Range(q) PROVE IsInjective(r)
    BY <1>1, <1>4 DEF IsInjective, Range
  <1> QED
    BY <1>2, <1>3, <1>4 DEF r

(* One turn takes another step; it is not in the queue, before or after.   *)
LEMMA StepGood ==
  ASSUME NEW q, NEW t, Good(q, t), NEW m \in Messages, NEW u \in TurnRecord,
         m \notin Range(q),
         \A c \in Slots : u.calls[c] \notin Settled => u.pc = "tools"
  PROVE  Good(q, [t EXCEPT ![m] = u])
  <1> DEFINE t2 == [t EXCEPT ![m] = u]
  <1>1. t2 \in [Messages -> TurnRecord] /\ DOMAIN t = Messages
    BY DEF Good, Typed
  <1>2. t2[m] = u /\ \A n \in Messages \ {m} : t2[n] = t[n]
    BY <1>1
  <1> HIDE DEF t2
  <1>3. \A n \in Range(q) : n \in Messages \ {m}
    BY DEF Good, Typed, Range
  <1>4. Typed(q, t2) /\ Queued(q, t2)
    BY <1>1, <1>2, <1>3 DEF Good, Typed, Queued
  <1>5. AtTools(t2)
    BY <1>2 DEF Good, AtTools
  <1> QED
    BY <1>4, <1>5 DEF Good, t2

(* A queued submission is taken; every turn that was not queued is as it   *)
(* was.                                                                    *)
LEMMA TakeNextGood ==
  ASSUME NEW q, NEW t, Good(q, t), scheduleNextQueuedSubmission(q, t)
  PROVE  /\ Good(queue', turn')
         /\ \A m \in Messages : t[m].pc # "queued" => turn'[m] = t[m]
  <1>1. CASE q = <<>>
    BY <1>1 DEF scheduleNextQueuedSubmission, TakeNext
  <1>2. CASE q # <<>>
    <2> DEFINE h == Head(q)
               u == [t[h] EXCEPT !.pc = "timer"]
    <2>1. /\ Tail(q) \in Seq(Messages) /\ h \in Messages /\ h \in Range(q)
          /\ Range(Tail(q)) \subseteq Range(q)
          /\ IsInjective(Tail(q)) /\ h \notin Range(Tail(q))
      BY <1>2, TailRange DEF Good, Typed, Queued
    <2>2. /\ queue' = Tail(q) /\ t \in [Messages -> TurnRecord]
          /\ t[h] \in TurnRecord /\ t[h].pc = "queued"
      BY <1>2, <2>1 DEF scheduleNextQueuedSubmission, TakeNext, Good, Typed,
                        Queued
    <2>3. turn' = [t EXCEPT ![h] = u]
      BY <1>2, <2>2 DEF scheduleNextQueuedSubmission, TakeNext
    <2>4. u \in TurnRecord /\ u.calls = t[h].calls
      BY <2>2 DEF TurnRecord, Steps
    <2> HIDE DEF u, h
    <2>5. Good(Tail(q), t)
      BY <2>1 DEF Good, Typed, Queued
    <2>6. \A c \in Slots : u.calls[c] \in Settled
      BY <2>1, <2>2, <2>4 DEF Good, AtTools
    <2>7. Good(Tail(q), [t EXCEPT ![h] = u])
      BY <2>1, <2>4, <2>5, <2>6, StepGood
    <2> QED
      BY <2>1, <2>2, <2>3, <2>7
  <1> QED
    BY <1>1, <1>2

(* A turn that is not queued is typed and not in the queue.                *)
LEMMA NotQueued ==
  ASSUME NEW q, NEW t, Good(q, t), NEW m \in Messages, t[m].pc # "queued"
  PROVE  m \notin Range(q) /\ t[m] \in TurnRecord
  BY DEF Good, Typed, Queued

(* A submission joins the queue.                                           *)
LEMMA AppendGood ==
  ASSUME NEW q, NEW t, Good(q, t), NEW m \in Messages, m \notin Range(q),
         t[m].pc = "queued"
  PROVE  Good(Append(q, m), t)
  <1>1. /\ Append(q, m) \in Seq(Messages) /\ IsInjective(Append(q, m))
        /\ Range(Append(q, m)) \subseteq Range(q) \cup {m}
    BY AppendRange DEF Good, Typed, Queued
  <1> QED
    BY <1>1 DEF Good, Typed, Queued

(* The queue is emptied.                                                   *)
LEMMA DroppedGood ==
  ASSUME NEW q, NEW t, Good(q, t)
  PROVE  Good(<<>>, Dropped(t))
  <1> DEFINE d == Dropped(t)
  <1>1. \A n \in Messages :
          /\ t[n] \in TurnRecord
          /\ d[n] = IF t[n].pc = "queued" THEN [t[n] EXCEPT !.pc = "dropped"]
                                          ELSE t[n]
    BY DEF Dropped, Good, Typed
  <1>2. \A n \in Messages :
          /\ d[n] \in TurnRecord /\ d[n].calls = t[n].calls
          /\ t[n].pc = "tools" => d[n].pc = "tools"
    BY <1>1 DEF TurnRecord, Steps
  <1>3. d \in [Messages -> TurnRecord]
    <2>1. d = [n \in Messages |-> d[n]]
      BY DEF Dropped
    <2> QED
      BY <1>2, <2>1
  <1>4. Typed(<<>>, d) /\ Queued(<<>>, d)
    BY <1>3 DEF Typed, Queued, IsInjective, Range
  <1>5. AtTools(d)
    BY <1>2 DEF Good, AtTools
  <1> QED
    BY <1>4, <1>5 DEF Good

(* The next batch of a scheduler begins: only calls of a turn at its tools *)
(* wait, and no turn takes another step.                                   *)
LEMMA BegunGood ==
  ASSUME NEW q, NEW t, Good(q, t), NEW n
  PROVE  /\ Good(q, Begun(t, n))
         /\ \A m \in Messages : Begun(t, n)[m].pc = t[m].pc
  <1>1. CASE n \notin Messages \/ n = None
    <2>1. Begun(t, n) = t
      BY <1>1 DEF Begun, Good, Typed
    <2> QED
      BY <2>1
  <1>2. CASE n \in Messages /\ n # None
    <2> DEFINE calls == [c \in Slots |-> IF t[n].calls[c] = "waiting"
                                         THEN "validating" ELSE t[n].calls[c]]
               u == [t[n] EXCEPT !.calls = calls]
               b == Begun(t, n)
    <2>1. t \in [Messages -> TurnRecord] /\ t[n] \in TurnRecord
      BY <1>2 DEF Good, Typed
    <2>2. b = [t EXCEPT ![n] = u]
      BY <1>2, <2>1 DEF Begun
    <2>3. calls \in [Slots -> Statuses]
      BY <2>1 DEF TurnRecord, Statuses
    <2>4. /\ u \in TurnRecord /\ u.pc = t[n].pc
          /\ \A c \in Slots : u.calls[c] = calls[c]
      BY <2>1, <2>3 DEF TurnRecord
    <2>5. \A c \in Slots : u.calls[c] \notin Settled => u.pc = "tools"
      BY <1>2, <2>4 DEF Good, AtTools, Settled
    <2> HIDE DEF u, calls, b
    <2>6. b \in [Messages -> TurnRecord] /\ b[n] = u
          /\ \A m \in Messages \ {n} : b[m] = t[m]
      BY <1>2, <2>1, <2>2, <2>4
    <2>7. \A m \in Messages : b[m].pc = t[m].pc
      BY <2>4, <2>6
    <2>8. Typed(q, b) /\ Queued(q, b)
      BY <2>6, <2>7 DEF Good, Typed, Queued, Range
    <2>9. AtTools(b)
      BY <2>5, <2>6 DEF Good, AtTools
    <2> QED
      BY <2>7, <2>8, <2>9 DEF Good, b
  <1> QED
    BY <1>1, <1>2

-----------------------------------------------------------------------------
(* Steps that keep isResponding, or clear it                               *)

(* No turn stops streaming, and no command leaves the shell.               *)
Undisturbed ==
  \A m \in Messages : turn[m].pc \in Working => turn'[m].pc \in Working

(* While turns that respond go on, isResponding is right as it is.         *)
LEMMA KeepsSpinning ==
  ASSUME NeverSpinsForNothing, Undisturbed, isResponding' = isResponding
  PROVE  NeverSpinsForNothing'
  BY DEF NeverSpinsForNothing, Undisturbed, Working

(* A render may take a submission off the queue.                           *)
LEMMA RenderStep ==
  ASSUME IInv, Render
  PROVE  IInv'
  <1>1. isResponding' = isResponding /\ scheduler' = None
        /\ seen' = [streaming |-> StreamingState, responding |-> isResponding]
    BY DEF Render
  <1>2. StreamingState \in StreamingStates
    BY DEF StreamingState, StreamingStates
  <1>3. RestTyped'
    BY <1>1, <1>2 DEF IInv, RestTyped
  <1>4. Good(queue', turn') /\ Undisturbed
    <2>1. CASE scheduleNextQueuedSubmission(queue, turn)
      BY <2>1, TakeNextGood DEF IInv, Undisturbed, Working
    <2>2. CASE UNCHANGED <<queue, turn>>
      BY <2>2 DEF IInv, Undisturbed
    <2> QED
      BY <2>1, <2>2 DEF Render, WhenIdle
  <1> QED
    BY <1>1, <1>3, <1>4, KeepsSpinning DEF IInv

(* A submission joins the queue, or is prepared.                           *)
LEMMA SubmitStep ==
  ASSUME IInv, NEW m \in Messages, Type(m) \/ TimerFires(m)
  PROVE  IInv'
  <1>1. /\ turn[m].pc \in {"new", "timer"} /\ SubmitQuery(m)
        /\ UNCHANGED <<isResponding, seen>>
    BY DEF Type, TimerFires
  <1>2. m \notin Range(queue) /\ turn[m] \in TurnRecord
        /\ turn \in [Messages -> TurnRecord]
    BY <1>1, NotQueued DEF IInv, Good, Typed
  <1>3. \A c \in Slots : turn[m].calls[c] \in Settled
    BY <1>1 DEF IInv, Good, AtTools
  <1>4. scheduler' \in Messages \cup {None}
    BY <1>1 DEF SubmitQuery, IInv, RestTyped
  <1>5. Good(queue', turn') /\ Undisturbed
    <2>1. CASE seen.streaming # "Idle"
      <3> DEFINE u == [turn[m] EXCEPT !.pc = "queued"]
      <3>1. turn' = [turn EXCEPT ![m] = u] /\ queue' = Append(queue, m)
        BY <1>1, <1>2, <2>1 DEF SubmitQuery
      <3>2. u \in TurnRecord /\ u.calls = turn[m].calls /\ u.pc = "queued"
        BY <1>2 DEF TurnRecord, Steps
      <3> HIDE DEF u
      <3>3. turn'[m].pc = "queued" /\ \A n \in Messages \ {m} : turn'[n] = turn[n]
        BY <1>2, <3>1, <3>2
      <3>4. Good(queue, turn')
        BY <1>2, <1>3, <3>1, <3>2, StepGood DEF IInv
      <3> QED
        BY <1>1, <1>2, <3>1, <3>3, <3>4, AppendGood DEF Undisturbed, Working
    <2>2. CASE seen.streaming = "Idle"
      <3> DEFINE u == [turn[m] EXCEPT !.pc = "preparing", !.sched = scheduler',
                                      !.heard = seen.responding]
      <3>1. turn' = [turn EXCEPT ![m] = u] /\ queue' = queue
        BY <1>1, <1>2, <2>2 DEF SubmitQuery
      <3>2. seen.responding \in BOOLEAN
        BY DEF IInv, RestTyped
      <3>3. u \in TurnRecord /\ u.calls = turn[m].calls
        BY <1>2, <1>4, <3>2 DEF TurnRecord, Steps
      <3> HIDE DEF u
      <3>4. \A n \in Messages \ {m} : turn'[n] = turn[n]
        BY <1>2, <3>1, <3>3
      <3>5. Good(queue, turn')
        BY <1>2, <1>3, <3>1, <3>3, StepGood DEF IInv
      <3> QED
        BY <1>1, <3>1, <3>4, <3>5 DEF Undisturbed, Working
    <2> QED
      BY <2>1, <2>2
  <1>6. RestTyped'
    BY <1>1, <1>4 DEF IInv, RestTyped
  <1> QED
    BY <1>1, <1>5, <1>6, KeepsSpinning DEF IInv

-----------------------------------------------------------------------------
(* Calls                                                                   *)

(* The turn m with its wanted calls scheduled.                             *)
LEMMA WithCallsGood ==
  ASSUME NEW q, NEW t, Good(q, t), NEW m \in Messages, t[m].pc # "queued",
         NEW wanted
  PROVE  /\ Good(q, WithCalls(t, m, wanted))
         /\ \A n \in Messages \ {m} : WithCalls(t, m, wanted)[n] = t[n]
         /\ WithCalls(t, m, wanted)[m].pc = "tools"
  <1> DEFINE status == IF \E n \in Range(line) : t[n].sched = t[m].sched
                       THEN "waiting" ELSE "validating"
             calls == [c \in Slots |-> IF c \in wanted THEN status ELSE "none"]
             u == [t[m] EXCEPT !.pc = "tools", !.calls = calls]
             w == WithCalls(t, m, wanted)
  <1>1. m \notin Range(q) /\ t[m] \in TurnRecord /\ t \in [Messages -> TurnRecord]
    BY NotQueued DEF Good, Typed
  <1>2. calls \in [Slots -> Statuses]
    BY DEF Statuses
  <1>3. w = [t EXCEPT ![m] = u]
    BY <1>1 DEF WithCalls
  <1> HIDE DEF calls
  <1>4. u \in TurnRecord /\ u.pc = "tools"
    BY <1>1, <1>2 DEF TurnRecord, Steps
  <1> HIDE DEF u, w
  <1>5. Good(q, w)
    BY <1>1, <1>3, <1>4, StepGood
  <1> QED
    BY <1>1, <1>3, <1>4, <1>5 DEF w

(* The turn of a report that goes on, and of one that does not.            *)
LEMMA Recounted ==
  ASSUME NEW r \in TurnRecord, NEW n \in Nat, NEW a \in BOOLEAN
  PROVE  LET u == [r EXCEPT !.rounds = n, !.aborted = a]
         IN  u \in TurnRecord /\ u.calls = r.calls /\ u.pc = r.pc
  BY DEF TurnRecord
(* The turn streams the results of its tools.                              *)
LEMMA ContinuedTurn ==
  ASSUME NEW r \in TurnRecord, NEW cs \in [Slots -> Statuses]
  PROVE  LET u == [r EXCEPT !.calls = cs, !.pc = "streaming",
                            !.rounds = @ + 1, !.aborted = FALSE]
         IN  u \in TurnRecord /\ u.calls = cs /\ u.pc = "streaming"
  <1> DEFINE v == [r EXCEPT !.calls = cs, !.pc = "streaming"]
  <1>1. v \in TurnRecord /\ v.calls = cs /\ v.pc = "streaming"
    BY DEF TurnRecord, Steps
  <1> DEFINE u == [r EXCEPT !.calls = cs, !.pc = "streaming",
                            !.rounds = @ + 1, !.aborted = FALSE]
             w == [v EXCEPT !.rounds = r.rounds + 1, !.aborted = FALSE]
  <1>2. u = w
    BY DEF TurnRecord
  <1>3. r.rounds + 1 \in Nat /\ FALSE \in BOOLEAN
    BY DEF TurnRecord
  <1> HIDE DEF v
  <1>4. w \in TurnRecord /\ w.calls = v.calls /\ w.pc = v.pc
    BY <1>1, <1>3, Recounted
  <1>5. w \in TurnRecord /\ w.calls = cs /\ w.pc = "streaming"
    BY <1>1, <1>4
  <1> HIDE DEF u, w
  <1>6. u \in TurnRecord /\ u.calls = cs /\ u.pc = "streaming"
    BY <1>2, <1>5
  <1> QED
    BY <1>6 DEF u
(* The turn ends with its tools.                                           *)
LEMMA EndedTurn ==
  ASSUME NEW r \in TurnRecord, NEW cs \in [Slots -> Statuses]
  PROVE  LET u == [r EXCEPT !.calls = cs, !.pc = "done",
                            !.rounds = @, !.aborted = @]
         IN  u \in TurnRecord /\ u.calls = cs /\ u.pc = "done"
  <1> DEFINE v == [r EXCEPT !.calls = cs, !.pc = "done"]
  <1>1. v \in TurnRecord /\ v.calls = cs /\ v.pc = "done"
    BY DEF TurnRecord, Steps
  <1> DEFINE u == [r EXCEPT !.calls = cs, !.pc = "done",
                            !.rounds = @, !.aborted = @]
             w == [v EXCEPT !.rounds = r.rounds, !.aborted = r.aborted]
  <1>2. u = w
    BY DEF TurnRecord
  <1>3. r.rounds \in Nat /\ r.aborted \in BOOLEAN
    BY DEF TurnRecord
  <1> HIDE DEF v
  <1>4. w \in TurnRecord /\ w.calls = v.calls /\ w.pc = v.pc
    BY <1>1, <1>3, Recounted
  <1>5. w \in TurnRecord /\ w.calls = cs /\ w.pc = "done"
    BY <1>1, <1>4
  <1> HIDE DEF u, w
  <1>6. u \in TurnRecord /\ u.calls = cs /\ u.pc = "done"
    BY <1>2, <1>5
  <1> QED
    BY <1>6 DEF u

(* A change of a call is notified; the report it may cause ends the turn   *)
(* or continues it with a stream.                                          *)
LEMMA NotifiedStep ==
  ASSUME IInv, NEW m \in Messages, turn[m].pc = "tools",
         NEW changed \in [Slots -> Statuses], Notified(m, changed), Unscheduled
  PROVE  IInv'
  <1> DEFINE calls == Started(changed)
  <1>1. calls \in [Slots -> Statuses]
    BY DEF Started, Statuses
  <1> HIDE DEF calls
  <1>2. /\ Good(queue, turn) /\ turn \in [Messages -> TurnRecord]
        /\ turn[m] \in TurnRecord /\ m \notin Range(queue)
    BY NotQueued DEF IInv, Good, Typed
  <1>3. /\ queue' = queue /\ seen' = seen /\ scheduler' = scheduler
    BY DEF Unscheduled
  <1>4. CASE \A c \in Present(calls) : calls[c] \in {"ended", "cancelled"}
    <2> DEFINE go == Continues(m, calls)
               u == [turn[m] EXCEPT !.calls = Answered(m, calls),
                       !.pc = IF go THEN "streaming" ELSE "done",
                       !.rounds = IF go THEN @ + 1 ELSE @,
                       !.aborted = IF go THEN FALSE ELSE @]
               rest == [turn EXCEPT ![m] = u]
    <2>1. handleCompletedTools(m, calls)
      BY <1>4 DEF Notified, calls
    <2>2. PICK next \in NextInLine(turn, m) : turn' = Begun(rest, next)
      BY <1>2, <2>1, Zenon DEF handleCompletedTools
    <2>3. IF go THEN isResponding' = TRUE ELSE isResponding' = isResponding
      BY <2>1 DEF handleCompletedTools
    <2>4. go \in BOOLEAN
      BY DEF Continues
    <2> HIDE DEF go
    <2>5. \A c \in Slots : calls[c] \in Settled
      BY <1>1, <1>4 DEF Present, Settled
    <2>6. Answered(m, calls) \in [Slots -> Statuses]
      BY <1>1 DEF Answered, NoCalls, Statuses
    <2>7. \A c \in Slots : Answered(m, calls)[c] \in Settled
      BY <2>5 DEF Answered, NoCalls, Settled
    <2>8. /\ u \in TurnRecord /\ u.calls = Answered(m, calls)
          /\ u.pc = IF go THEN "streaming" ELSE "done"
      <3>1. CASE go
        <4>1. u = [turn[m] EXCEPT !.calls = Answered(m, calls),
                     !.pc = "streaming", !.rounds = @ + 1, !.aborted = FALSE]
          BY <3>1
        <4> HIDE DEF u
        <4> QED
          BY <1>2, <2>6, <3>1, <4>1, ContinuedTurn
      <3>2. CASE ~go
        <4>1. u = [turn[m] EXCEPT !.calls = Answered(m, calls),
                     !.pc = "done", !.rounds = @, !.aborted = @]
          BY <3>2
        <4> HIDE DEF u
        <4> QED
          BY <1>2, <2>6, <3>2, <4>1, EndedTurn
      <3> QED
        BY <3>1, <3>2
    <2> HIDE DEF u, calls
    <2>9. Good(queue, rest) /\ rest[m] = u
          /\ \A n \in Messages \ {m} : rest[n] = turn[n]
      BY <1>2, <2>7, <2>8, StepGood
    <2> HIDE DEF rest
    <2>10. /\ Good(queue, turn')
           /\ \A n \in Messages : turn'[n].pc = rest[n].pc
      BY <2>2, <2>9, BegunGood
    <2>11. Undisturbed
      BY <2>9, <2>10 DEF Undisturbed, Working
    <2>12. NeverSpinsForNothing'
      <3>1. CASE go
        BY <2>8, <2>9, <2>10, <3>1 DEF NeverSpinsForNothing
      <3>2. CASE ~go
        BY <2>3, <2>11, <3>2, KeepsSpinning DEF IInv
      <3> QED
        BY <3>1, <3>2
    <2>13. RestTyped'
      BY <1>3, <2>3, <2>4 DEF IInv, RestTyped
    <2> QED
      BY <1>3, <2>10, <2>12, <2>13 DEF IInv
  <1>5. CASE ~ \A c \in Present(calls) : calls[c] \in {"ended", "cancelled"}
    <2> DEFINE u == [turn[m] EXCEPT !.calls = calls]
    <2>1. turn' = [turn EXCEPT ![m] = u] /\ isResponding' = isResponding
      BY <1>2, <1>5 DEF Notified, calls
    <2>2. u \in TurnRecord /\ u.pc = "tools"
      BY <1>1, <1>2 DEF TurnRecord
    <2> HIDE DEF u
    <2>3. Good(queue, turn')
      BY <1>2, <2>1, <2>2, StepGood
    <2>4. \A n \in Messages \ {m} : turn'[n] = turn[n]
      BY <1>2, <2>1, <2>2
    <2>5. Undisturbed
      BY <2>4 DEF Undisturbed, Working
    <2>6. RestTyped'
      BY <1>3, <2>1 DEF IInv, RestTyped
    <2> QED
      BY <1>3, <2>1, <2>3, <2>5, <2>6, KeepsSpinning DEF IInv
  <1> QED
    BY <1>4, <1>5

(* A call is validated, answered, or finished.                             *)
LEMMA CallSteps ==
  ASSUME IInv, NEW m \in Messages, NEW c \in Slots,
         Validate(m, c) \/ Answer(m, c) \/ Finish(m, c)
  PROVE  IInv'
  <1>1. turn[m].calls[c] \in {"validating", "awaiting", "executing"}
    BY DEF Validate, Answer, Finish
  <1>2. turn[m].pc = "tools"
    BY <1>1 DEF IInv, Good, AtTools, Settled
  <1>3. turn[m].calls \in [Slots -> Statuses]
    BY DEF IInv, Good, Typed, TurnRecord
  <1>4. PICK status \in Statuses :
          Notified(m, [turn[m].calls EXCEPT ![c] = status])
    <2>1. {"awaiting", "scheduled", "ended", "cancelled"} \subseteq Statuses
      BY DEF Statuses
    <2> QED
      BY <2>1, Zenon DEF Validate, Answer, Finish
  <1>5. [turn[m].calls EXCEPT ![c] = status] \in [Slots -> Statuses]
    BY <1>3
  <1>6. Unscheduled
    BY DEF Validate, Answer, Finish
  <1> QED
    BY <1>2, <1>4, <1>5, <1>6, NotifiedStep

-----------------------------------------------------------------------------
(* What becomes of a message                                               *)

(* A turn that is not queued takes another step, its calls as they were.   *)
LEMMA MoveGood ==
  ASSUME NEW q, NEW t, Good(q, t), NEW m \in Messages,
         t[m].pc \notin {"queued", "tools"}, NEW pc \in Steps
  PROVE  LET t2 == [t EXCEPT ![m].pc = pc]
         IN  /\ Good(q, t2) /\ t2[m].pc = pc
             /\ \A n \in Messages \ {m} : t2[n] = t[n]
  <1> DEFINE u == [t[m] EXCEPT !.pc = pc]
             t2 == [t EXCEPT ![m].pc = pc]
  <1>1. m \notin Range(q) /\ t[m] \in TurnRecord /\ t \in [Messages -> TurnRecord]
    BY NotQueued DEF Good, Typed
  <1>2. t2 = [t EXCEPT ![m] = u]
    OBVIOUS
  <1>3. u \in TurnRecord /\ u.calls = t[m].calls /\ u.pc = pc
    BY <1>1 DEF TurnRecord
  <1>4. \A c \in Slots : u.calls[c] \in Settled
    BY <1>3 DEF Good, AtTools
  <1> HIDE DEF u, t2
  <1>5. Good(q, t2)
    BY <1>1, <1>2, <1>3, <1>4, StepGood
  <1> QED
    BY <1>1, <1>2, <1>3, <1>5 DEF t2

(* A message is handled at once, or runs in the shell.                     *)
LEMMA HandledStep ==
  ASSUME IInv, NEW m \in Messages, Handled(m) \/ RunShell(m)
  PROVE  IInv'
  <1>1. PICK pc \in {"done", "shell"} :
          /\ scheduleNextQueuedSubmission(queue, [turn EXCEPT ![m].pc = pc])
          /\ \/ isResponding' = isResponding
             \/ isResponding' = TRUE /\ pc = "shell"
    BY Zenon DEF Handled, RunShell
  <1>2. turn[m].pc = "preparing" /\ UNCHANGED <<seen, scheduler>>
    BY DEF Handled, RunShell
  <1> DEFINE t2 == [turn EXCEPT ![m].pc = pc]
  <1>3. pc \in Steps /\ Good(queue, turn)
    BY DEF Steps, IInv
  <1>4. /\ Good(queue, t2) /\ t2[m].pc = pc
        /\ \A n \in Messages \ {m} : t2[n] = turn[n]
    BY <1>2, <1>3, MoveGood
  <1> HIDE DEF t2
  <1>5. /\ Good(queue', turn')
        /\ \A n \in Messages : t2[n].pc # "queued" => turn'[n] = t2[n]
    BY <1>1, <1>4, TakeNextGood DEF t2
  <1>6. Undisturbed
    BY <1>2, <1>4, <1>5 DEF Undisturbed, Working
  <1>7. NeverSpinsForNothing'
    <2>1. CASE isResponding' = isResponding
      BY <1>6, <2>1, KeepsSpinning DEF IInv
    <2>2. CASE pc = "shell"
      BY <1>4, <1>5, <2>2 DEF NeverSpinsForNothing
    <2> QED
      BY <1>1, <2>1, <2>2
  <1>8. RestTyped'
    BY <1>1, <1>2 DEF IInv, RestTyped
  <1> QED
    BY <1>5, <1>7, <1>8 DEF IInv

(* The stream sets isResponding.                                           *)
LEMMA StreamStep ==
  ASSUME IInv, NEW m \in Messages, Stream(m)
  PROVE  IInv'
  <1> DEFINE u == [turn[m] EXCEPT !.pc = "streaming", !.rounds = 1]
  <1>1. /\ turn[m].pc = "preparing" /\ isResponding' = TRUE
        /\ UNCHANGED <<queue, seen, scheduler>>
    BY DEF Stream
  <1>2. /\ m \notin Range(queue) /\ turn[m] \in TurnRecord
        /\ turn \in [Messages -> TurnRecord]
    BY <1>1, NotQueued DEF IInv, Good, Typed
  <1>3. turn' = [turn EXCEPT ![m] = u]
    BY DEF Stream
  <1>4. u \in TurnRecord /\ u.calls = turn[m].calls /\ u.pc = "streaming"
    BY <1>2 DEF TurnRecord, Steps
  <1>5. \A c \in Slots : u.calls[c] \in Settled
    BY <1>1, <1>4 DEF IInv, Good, AtTools
  <1> HIDE DEF u
  <1>6. Good(queue, turn')
    BY <1>2, <1>3, <1>4, <1>5, StepGood DEF IInv
  <1>7. turn'[m].pc = "streaming"
    BY <1>2, <1>3, <1>4
  <1> QED
    BY <1>1, <1>6, <1>7 DEF IInv, RestTyped, NeverSpinsForNothing

(* A command calls a tool.                                                 *)
LEMMA ScheduleToolStep ==
  ASSUME IInv, NEW m \in Messages, NEW c \in Slots, ScheduleTool(m, c)
  PROVE  IInv'
  <1> DEFINE u == [turn[m] EXCEPT !.client = TRUE]
             t1 == [turn EXCEPT ![m] = u]
             t2 == WithCalls(t1, m, {c})
  <1>1. /\ turn[m].pc = "preparing"
        /\ UNCHANGED <<isResponding, seen, scheduler>>
    BY DEF ScheduleTool
  <1>2. /\ m \notin Range(queue) /\ turn[m] \in TurnRecord
        /\ turn \in [Messages -> TurnRecord]
    BY <1>1, NotQueued DEF IInv, Good, Typed
  <1>3. /\ u \in TurnRecord /\ u.calls = turn[m].calls
        /\ u.pc = turn[m].pc
    BY <1>2 DEF TurnRecord
  <1>4. t1 = [turn EXCEPT ![m].client = TRUE]
    OBVIOUS
  <1>5. \A d \in Slots : u.calls[d] \in Settled
    BY <1>1, <1>3 DEF IInv, Good, AtTools
  <1> HIDE DEF u
  <1>6. /\ Good(queue, t1) /\ t1[m].pc = "preparing"
        /\ \A n \in Messages \ {m} : t1[n] = turn[n]
    BY <1>1, <1>2, <1>3, <1>5, StepGood DEF IInv
  <1> HIDE DEF t1
  <1>7. /\ Good(queue, t2) /\ t2[m].pc = "tools"
        /\ \A n \in Messages \ {m} : t2[n] = turn[n]
    BY <1>6, WithCallsGood
  <1>8. scheduleNextQueuedSubmission(queue, t2)
    BY <1>4 DEF ScheduleTool
  <1> HIDE DEF t2
  <1>9. /\ Good(queue', turn')
        /\ \A n \in Messages : t2[n].pc # "queued" => turn'[n] = t2[n]
    BY <1>7, <1>8, TakeNextGood
  <1>10. Undisturbed
    BY <1>1, <1>7, <1>9 DEF Undisturbed, Working
  <1>11. RestTyped'
    BY <1>1 DEF IInv, RestTyped
  <1> QED
    BY <1>1, <1>9, <1>10, <1>11, KeepsSpinning DEF IInv

-----------------------------------------------------------------------------
(* Ends: isResponding is cleared                                           *)

(* Nothing need respond once isResponding is cleared.                      *)
LEMMA Cleared ==
  ASSUME IInv, Good(queue', turn'), isResponding' = FALSE,
         UNCHANGED <<seen, scheduler>>
  PROVE  IInv'
  BY DEF IInv, RestTyped, NeverSpinsForNothing

(* The finally of submitQuery clears isResponding.                         *)
LEMMA FinallyGood ==
  ASSUME NEW q, NEW t, Good(q, t), Finally(q, t)
  PROVE  Good(queue', turn') /\ isResponding' = FALSE
  BY TakeNextGood DEF Finally

(* A shell command ends.                                                   *)
LEMMA ShellEndsStep ==
  ASSUME IInv, NEW m \in Messages, ShellEnds(m)
  PROVE  IInv'
  <1>1. /\ turn[m].pc = "shell" /\ turn' = [turn EXCEPT ![m].pc = "done"]
        /\ isResponding' = FALSE /\ UNCHANGED <<queue, seen, scheduler>>
    BY DEF ShellEnds
  <1>2. Good(queue, turn')
    BY <1>1, MoveGood DEF IInv, Steps
  <1> QED
    BY <1>1, <1>2, Cleared

(* A stream throws.                                                        *)
LEMMA StreamThrowsStep ==
  ASSUME IInv, NEW m \in Messages, StreamThrows(m)
  PROVE  IInv'
  <1> DEFINE t2 == [turn EXCEPT ![m].pc = "done"]
  <1>1. turn[m].pc = "streaming" /\ UNCHANGED <<seen, scheduler>>
        /\ Finally(queue, t2)
    BY DEF StreamThrows
  <1>2. Good(queue, t2)
    BY <1>1, MoveGood DEF IInv, Steps
  <1> HIDE DEF t2
  <1> QED
    BY <1>1, <1>2, FinallyGood, Cleared

(* A stream ends, with calls or without.                                   *)
LEMMA StreamEndsStep ==
  ASSUME IInv, NEW m \in Messages, NEW wanted \in SUBSET Slots,
         NEW saysCancelled \in BOOLEAN, StreamEnds(m, wanted, saysCancelled)
  PROVE  IInv'
  <1> DEFINE after == IF wanted = {} THEN [turn EXCEPT ![m].pc = "done"]
                                     ELSE WithCalls(turn, m, wanted)
             clears == saysCancelled /\ ~turnCancelled
  <1>1. /\ turn[m].pc = "streaming" /\ UNCHANGED <<seen, scheduler>>
        /\ Finally(IF clears THEN <<>> ELSE queue,
                   IF clears THEN Dropped(after) ELSE after)
    BY DEF StreamEnds
  <1>2. Good(queue, after)
    <2>1. CASE wanted = {}
      BY <1>1, <2>1, MoveGood DEF IInv, Steps
    <2>2. CASE wanted # {}
      BY <1>1, <2>2, WithCallsGood DEF IInv
    <2> QED
      BY <2>1, <2>2
  <1> HIDE DEF after
  <1>3. CASE clears
    <2>1. Finally(<<>>, Dropped(after)) /\ Good(<<>>, Dropped(after))
      BY <1>1, <1>2, <1>3, DroppedGood
    <2> QED
      BY <1>1, <2>1, FinallyGood, Cleared
  <1>4. CASE ~clears
    <2>1. Finally(queue, after)
      BY <1>1, <1>4
    <2> QED
      BY <1>1, <1>2, <2>1, FinallyGood, Cleared
  <1> QED
    BY <1>3, <1>4

(* A cancellation empties the queue and touches one turn more.             *)
LEMMA CancelStep ==
  ASSUME IInv, cancelOngoingRequest
  PROVE  IInv'
  <1> DEFINE d == Dropped(turn)
             a == aborter
             waits == a # None /\ \E c \in Slots : turn[a].calls[c] = "waiting"
             x == turn[a].cancelled \/ turn[a].pc \in {"streaming", "tools"}
             pc == IF waits THEN "done" ELSE turn[a].pc
             cs == IF waits THEN NoCalls ELSE turn[a].calls
             u == [turn[a] EXCEPT !.aborted = TRUE, !.cancelled = x,
                                  !.pc = pc, !.calls = cs]
  <1>1. /\ isResponding' = FALSE /\ queue' = <<>>
        /\ UNCHANGED <<seen, scheduler>>
        /\ turn' = [n \in Messages |-> IF n # a THEN d[n] ELSE
              [turn[n] EXCEPT
                      !.aborted = TRUE,
                      !.cancelled = @ \/ turn[n].pc \in {"streaming", "tools"},
                      !.pc = IF waits THEN "done" ELSE @,
                      !.calls = IF waits THEN NoCalls ELSE @]]
    BY DEF cancelOngoingRequest
  <1>2. Good(<<>>, d) /\ d \in [Messages -> TurnRecord]
    BY DroppedGood DEF IInv, Good, Typed
  <1>3. CASE a \notin Messages
    <2>1. turn' = [n \in Messages |-> d[n]]
      BY <1>1, <1>3
    <2> HIDE DEF d
    <2>2. turn' = d
      BY <1>2, <2>1
    <2> QED
      BY <1>1, <1>2, <2>2, Cleared
  <1>4. CASE a \in Messages
    <2>1. turn[a] \in TurnRecord
      BY <1>4 DEF IInv, Good, Typed
    <2>2. /\ x \in BOOLEAN /\ pc \in Steps /\ cs \in [Slots -> Statuses]
      <3>1. x \in BOOLEAN
        OBVIOUS
      <3>2. pc \in Steps /\ cs \in [Slots -> Statuses]
        BY <2>1 DEF TurnRecord, Steps, Statuses, NoCalls
      <3> QED
        BY <3>1, <3>2
    <2>3. turn' = [n \in Messages |-> IF n # a THEN d[n] ELSE u]
      BY <1>1, <1>4
    <2>4. \A c \in Slots : cs[c] \notin Settled => pc = "tools"
      BY <1>4, <2>1 DEF IInv, Good, AtTools, NoCalls, Settled
    <2> HIDE DEF x, pc, cs, d
    <2>5. u \in TurnRecord /\ u.pc = pc /\ u.calls = cs
      <3> DEFINE v == [turn[a] EXCEPT !.aborted = TRUE, !.cancelled = x]
                 w == [v EXCEPT !.pc = pc, !.calls = cs]
      <3>1. u = w
        BY <2>1 DEF TurnRecord
      <3>2. v \in TurnRecord
        BY <2>1, <2>2 DEF TurnRecord
      <3> HIDE DEF v
      <3>3. w \in TurnRecord /\ w.pc = pc /\ w.calls = cs
        BY <2>2, <3>2 DEF TurnRecord
      <3> HIDE DEF u, w
      <3> QED
        BY <3>1, <3>3
    <2> HIDE DEF u
    <2>6. turn' = [d EXCEPT ![a] = u]
      BY <1>2, <2>3
    <2>7. a \notin Range(<<>>)
      BY DEF Range
    <2>8. Good(<<>>, [d EXCEPT ![a] = u])
      BY <1>2, <1>4, <2>4, <2>5, <2>7, StepGood
    <2> QED
      BY <1>1, <2>6, <2>8, Cleared
  <1> QED
    BY <1>3, <1>4

-----------------------------------------------------------------------------
(* The theorem                                                             *)

(* The terminal starts idle.                                               *)
LEMMA InitOK == Init => IInv
  <1> SUFFICES ASSUME Init PROVE IInv
    OBVIOUS
  <1>1. NoCalls \in [Slots -> Statuses]
    BY DEF NoCalls, Statuses
  <1>2. /\ FreshTurn \in TurnRecord /\ FreshTurn.pc = "new"
        /\ FreshTurn.calls = NoCalls
    BY <1>1 DEF FreshTurn, TurnRecord, Steps
  <1>3. Typed(queue, turn)
    BY <1>2 DEF Init, Typed
  <1>4. Queued(queue, turn)
    BY DEF Init, Queued, IsInjective, Range
  <1>5. AtTools(turn)
    BY <1>2 DEF Init, AtTools, NoCalls, Settled
  <1>6. RestTyped /\ NeverSpinsForNothing
    BY DEF Init, RestTyped, NeverSpinsForNothing, StreamingStates
  <1> QED
    BY <1>3, <1>4, <1>5, <1>6 DEF IInv, Good

(* Every step keeps the invariant.                                         *)
LEMMA NextOK == IInv /\ [Next]_vars => IInv'
  <1> SUFFICES ASSUME IInv, [Next]_vars PROVE IInv'
    OBVIOUS
  <1>1. CASE UNCHANGED vars
    BY <1>1 DEF vars, IInv, Good, Typed, Queued, AtTools, RestTyped,
                NeverSpinsForNothing
  <1>2. CASE Internal
    <2>1. CASE Render
      BY <2>1, RenderStep
    <2>2. ASSUME NEW m \in Messages, TimerFires(m) PROVE IInv'
      BY <2>2, SubmitStep
    <2>3. ASSUME NEW m \in Messages, Stream(m) PROVE IInv'
      BY <2>3, StreamStep
    <2>4. ASSUME NEW m \in Messages, Handled(m) \/ RunShell(m) PROVE IInv'
      BY <2>4, HandledStep
    <2>5. ASSUME NEW m \in Messages, ShellEnds(m) PROVE IInv'
      BY <2>5, ShellEndsStep
    <2>6. ASSUME NEW m \in Messages, StreamThrows(m) PROVE IInv'
      BY <2>6, StreamThrowsStep
    <2>7. ASSUME NEW m \in Messages, NEW c \in Slots, ScheduleTool(m, c)
          PROVE  IInv'
      BY <2>7, ScheduleToolStep
    <2>8. ASSUME NEW m \in Messages, NEW c \in Slots,
                 Validate(m, c) \/ Answer(m, c) \/ Finish(m, c)
          PROVE  IInv'
      BY <2>8, CallSteps
    <2>9. ASSUME NEW m \in Messages, NEW wanted \in SUBSET Slots,
                 NEW saysCancelled \in BOOLEAN,
                 StreamEnds(m, wanted, saysCancelled)
          PROVE  IInv'
      BY <2>9, StreamEndsStep
    <2> QED
      BY <1>2, <2>1, <2>2, <2>3, <2>4, <2>5, <2>6, <2>7, <2>8, <2>9
         DEF Internal
  <1>3. CASE cancelOngoingRequest
    BY <1>3, CancelStep
  <1>4. ASSUME NEW m \in Messages, Type(m) PROVE IInv'
    BY <1>4, SubmitStep
  <1>5. CASE Done
    BY <1>1, <1>5 DEF Done
  <1> QED
    BY <1>1, <1>2, <1>3, <1>4, <1>5 DEF Next

(* The inductive invariant: the queue holds exactly turns that are queued, *)
(* open calls belong to turns at their tools, and the property itself.     *)
THEOREM Invariant == Spec => []IInv
  <1> QED
    BY InitOK, NextOK, PTL DEF Spec

(* The terminal never says it responds while no stream and no shell        *)
(* command runs (isResponding of useGeminiStream.ts), whatever is typed,   *)
(* cancelled, requested or queued, and however often.                      *)
THEOREM NeverSpins == Spec => []NeverSpinsForNothing
  <1>1. IInv => NeverSpinsForNothing
    BY DEF IInv
  <1> QED
    BY Invariant, <1>1, PTL

-----------------------------------------------------------------------------
(* The state is well formed                                                *)
(*                                                                         *)
(* Besides the queue, what is listed and what is in a scheduler must agree *)
(* with the steps of the turns: l is the line, li the turn listed.         *)

AllQueued(q, t) == \A m \in Messages : t[m].pc = "queued" => m \in Range(q)
InLine(l, t) ==
  /\ l \in Seq(Messages) /\ IsInjective(l)
  /\ \A m \in Messages : t[m].pc = "tools" <=> m \in Range(l)

(* A turn at tools the model asked for has a round left to answer them.    *)
CountedTurn(r) ==
  /\ r.rounds <= MaxRounds
  /\ r.pc = "tools" /\ ~r.client => r.rounds < MaxRounds

(* The calls of a turn wait together.                                      *)
WaitTogether(calls) ==
  \A c, d \in Slots : calls[c] = "waiting" => calls[d] \in {"none", "waiting"}
Counted(t) ==
  \A m \in Messages : CountedTurn(t[m]) /\ WaitTogether(t[m].calls)

NoneWaits(calls) == \A c \in Slots : calls[c] # "waiting"
ListedIn(l, t, li) ==
  /\ li \in Range(l) \cup {None}
  /\ li # None => NoneWaits(t[li].calls)

Along(q, t, l, li) ==
  AllQueued(q, t) /\ InLine(l, t) /\ Counted(t) /\ ListedIn(l, t, li)

(* The turn that can be cancelled has been submitted.                      *)
Early == {"new", "queued", "timer"}
CanCancel(t, a) == a \in Messages \cup {None} /\ (a # None => t[a].pc \notin Early)

TInv == /\ Along(queue, turn, line, listed) /\ CanCancel(turn, aborter)
        /\ turnCancelled \in BOOLEAN

(* No turn that has been submitted is submitted again.                     *)
Onward == \A m \in Messages : turn[m].pc \notin Early => turn'[m].pc \notin Early

(* The turn that can be cancelled stays submitted.                         *)
LEMMA StillCancels ==
  ASSUME CanCancel(turn, aborter), Onward, aborter' = aborter
  PROVE  CanCancel(turn', aborter')
  BY DEF CanCancel, Onward

(* One entry is taken out of a sequence without repetition.                *)
LEMMA RemovedOne ==
  ASSUME NEW S, NEW q \in Seq(S), IsInjective(q), NEW i \in 1..Len(q)
  PROVE  /\ RemoveAt(q, i) \in Seq(S) /\ IsInjective(RemoveAt(q, i))
         /\ Range(RemoveAt(q, i)) = Range(q) \ {q[i]}
  <1> DEFINE front == SubSeq(q, 1, i - 1)
             back == SubSeq(q, i + 1, Len(q))
             r == RemoveAt(q, i)
  <1>1. /\ front \in Seq(S) /\ back \in Seq(S)
        /\ Len(front) = i - 1 /\ Len(back) = Len(q) - i
        /\ \A j \in 1..(i - 1) : front[j] = q[j]
        /\ \A j \in 1..(Len(q) - i) : back[j] = q[i + j]
    OBVIOUS
  <1>2. r = front \o back
    BY DEF RemoveAt
  <1> HIDE DEF front, back, r
  <1>3. r \in Seq(S) /\ Len(r) = Len(q) - 1 /\ DOMAIN q = 1..Len(q)
    BY <1>1, <1>2
  <1>4. ASSUME NEW j \in 1..Len(r), j < i PROVE r[j] = q[j]
    BY <1>1, <1>2, <1>3, <1>4
  <1>5. ASSUME NEW j \in 1..Len(r), ~(j < i) PROVE r[j] = q[j + 1]
    <2>1. r[j] = back[j - (i - 1)]
      BY <1>1, <1>2, <1>3, <1>5
    <2>2. j - (i - 1) \in 1..(Len(q) - i) /\ i + (j - (i - 1)) = j + 1
      BY <1>3, <1>5
    <2> QED
      BY <1>1, <2>1, <2>2
  <1>6. DOMAIN r = 1..Len(r)
    BY <1>3
  <1>7. IsInjective(r)
    BY <1>3, <1>4, <1>5, <1>6 DEF IsInjective
  <1>8. ASSUME NEW j \in 1..Len(r) PROVE r[j] \in Range(q) \ {q[i]}
    <2>1. CASE j < i
      <3>1. j \in DOMAIN q /\ j # i /\ r[j] = q[j]
        BY <1>3, <1>4, <2>1
      <3> QED
        BY <1>3, <3>1 DEF IsInjective, Range
    <2>2. CASE ~(j < i)
      <3>1. j + 1 \in DOMAIN q /\ j + 1 # i /\ r[j] = q[j + 1]
        BY <1>3, <1>5, <2>2
      <3> QED
        BY <1>3, <3>1 DEF IsInjective, Range
    <2> QED
      BY <2>1, <2>2
  <1>9. ASSUME NEW n \in Range(q) \ {q[i]} PROVE n \in Range(r)
    <2>1. PICK k \in 1..Len(q) : q[k] = n
      BY <1>3 DEF Range
    <2>2. CASE k < i
      <3>1. k \in 1..Len(r)
        BY <1>3, <2>2
      <3> QED
        BY <1>4, <1>6, <2>1, <2>2, <3>1 DEF Range
    <2>3. CASE k > i
      <3>1. k - 1 \in 1..Len(r) /\ ~(k - 1 < i) /\ (k - 1) + 1 = k
        BY <1>3, <2>1, <2>3
      <3>2. r[k - 1] = n
        BY <1>5, <2>1, <3>1
      <3> QED
        BY <1>6, <3>1, <3>2 DEF Range
    <2>4. k # i
      BY <1>9, <2>1
    <2> QED
      BY <2>1, <2>2, <2>3, <2>4
  <1>10. Range(r) = Range(q) \ {q[i]}
    BY <1>6, <1>8, <1>9 DEF Range
  <1> QED
    BY <1>3, <1>7, <1>10 DEF r

(* A turn is taken out of the line.                                        *)
LEMMA WithoutOne ==
  ASSUME NEW m \in Messages, line \in Seq(Messages), IsInjective(line),
         m \in Range(line)
  PROVE  /\ Without(m) \in Seq(Messages) /\ IsInjective(Without(m))
         /\ Range(Without(m)) = Range(line) \ {m}
  <1> DEFINE i == CHOOSE i \in DOMAIN line : line[i] = m
  <1>1. i \in DOMAIN line /\ line[i] = m
    BY DEF Range
  <1>2. Without(m) = RemoveAt(line, i)
    BY DEF Without
  <1> HIDE DEF i
  <1>3. i \in 1..Len(line)
    BY <1>1
  <1> QED
    BY <1>1, <1>2, <1>3, RemovedOne

(* One turn takes another step, in or out of the scheduler as before.      *)
LEMMA StepAlong ==
  ASSUME NEW q, NEW t, NEW l, NEW li, Typed(q, t), Along(q, t, l, li),
         NEW m \in Messages, NEW u \in TurnRecord,
         u.pc = "queued" => m \in Range(q), u.pc = "tools" <=> t[m].pc = "tools",
         CountedTurn(u), WaitTogether(u.calls), m = li => NoneWaits(u.calls)
  PROVE  Along(q, [t EXCEPT ![m] = u], l, li)
  <1> DEFINE t2 == [t EXCEPT ![m] = u]
  <1>1. t2[m] = u /\ \A n \in Messages \ {m} : t2[n] = t[n]
    BY DEF Typed
  <1> HIDE DEF t2
  <1>2. AllQueued(q, t2)
    BY <1>1 DEF Along, AllQueued
  <1>3. InLine(l, t2)
    BY <1>1 DEF Along, InLine
  <1>4. Counted(t2)
    BY <1>1 DEF Along, Counted
  <1>5. ListedIn(l, t2, li)
    <2>1. li \in Messages \cup {None}
      BY DEF Along, InLine, ListedIn, Range
    <2> QED
      BY <1>1, <2>1 DEF Along, ListedIn
  <1> QED
    BY <1>2, <1>3, <1>4, <1>5 DEF Along, t2

(* A turn moves on outside of the scheduler.                               *)
LEMMA MoveAlong ==
  ASSUME NEW q, NEW t, NEW l, NEW li, Typed(q, t), Along(q, t, l, li),
         NEW m \in Messages, t[m].pc # "tools",
         NEW pc \in Steps \ {"queued", "tools"}
  PROVE  Along(q, [t EXCEPT ![m].pc = pc], l, li)
  <1> DEFINE u == [t[m] EXCEPT !.pc = pc]
  <1>1. t[m] \in TurnRecord
    BY DEF Typed
  <1>2. /\ u \in TurnRecord /\ u.pc = pc /\ u.calls = t[m].calls
        /\ u.rounds = t[m].rounds
    BY <1>1 DEF TurnRecord
  <1> HIDE DEF u
  <1>3. CountedTurn(u) /\ WaitTogether(u.calls)
    BY <1>2 DEF Along, Counted, CountedTurn
  <1>4. m = li => NoneWaits(u.calls)
    BY <1>2, ConstantsOK DEF Along, ListedIn
  <1>5. Along(q, [t EXCEPT ![m] = u], l, li)
    BY <1>2, <1>3, <1>4, StepAlong
  <1> QED
    BY <1>5 DEF u

(* The head of the queue is taken.                                         *)
LEMMA TakeNextAlong ==
  ASSUME NEW q, NEW t, NEW l, NEW li, Good(q, t), Along(q, t, l, li),
         scheduleNextQueuedSubmission(q, t)
  PROVE  Along(queue', turn', l, li)
  <1>1. CASE q = <<>>
    BY <1>1 DEF scheduleNextQueuedSubmission, TakeNext
  <1>2. CASE q # <<>>
    <2> DEFINE h == Head(q)
    <2>1. /\ h \in Messages /\ h \in Range(q) /\ q \in Seq(Messages)
          /\ t[h].pc = "queued" /\ Typed(q, t)
      BY <1>2, TailRange DEF Good, Typed, Queued
    <2>2. queue' = Tail(q) /\ turn' = [t EXCEPT ![h].pc = "timer"]
      BY <1>2 DEF scheduleNextQueuedSubmission, TakeNext
    <2> HIDE DEF h
    <2>3. Along(q, turn', l, li)
      BY <2>1, <2>2, MoveAlong DEF Steps
    <2>4. turn'[h].pc = "timer"
      BY <2>1, <2>2 DEF Typed, TurnRecord
    <2>5. Range(q) \subseteq Range(Tail(q)) \cup {h}
      <3>1. \A i \in DOMAIN q : i # 1 => i - 1 \in DOMAIN Tail(q) /\ Tail(q)[i - 1] = q[i]
        BY <1>2, <2>1
      <3>2. q[1] = h
        BY <1>2, <2>1 DEF h
      <3> QED
        BY <3>1, <3>2 DEF Range
    <2>6. AllQueued(queue', turn')
      BY <2>2, <2>3, <2>4, <2>5 DEF Along, AllQueued
    <2> QED
      BY <2>3, <2>6 DEF Along
  <1> QED
    BY <1>1, <1>2

(* The queue is emptied.                                                   *)
LEMMA DroppedAlong ==
  ASSUME NEW q, NEW t, NEW l, NEW li, Typed(q, t), Along(q, t, l, li)
  PROVE  Along(<<>>, Dropped(t), l, li)
  <1> DEFINE d == Dropped(t)
  <1>1. \A n \in Messages : t[n] \in TurnRecord
        /\ d[n] = IF t[n].pc = "queued" THEN [t[n] EXCEPT !.pc = "dropped"]
                                        ELSE t[n]
    BY DEF Dropped, Typed
  <1>2. \A n \in Messages :
          /\ d[n].calls = t[n].calls /\ d[n].rounds = t[n].rounds
          /\ d[n].client = t[n].client /\ d[n].pc # "queued"
          /\ d[n].pc = "tools" <=> t[n].pc = "tools"
    BY <1>1 DEF TurnRecord
  <1> HIDE DEF d
  <1>3. AllQueued(<<>>, d) /\ InLine(l, d)
    BY <1>2 DEF Along, AllQueued, InLine
  <1>4. Counted(d)
    BY <1>2 DEF Along, Counted, CountedTurn
  <1>5. ListedIn(l, d, li)
    <2>1. li \in Messages \cup {None}
      BY DEF Along, InLine, ListedIn, Range
    <2> QED
      BY <1>2, <2>1 DEF Along, ListedIn
  <1> QED
    BY <1>3, <1>4, <1>5 DEF Along, d

(* The calls of m join the line, and are listed if nothing is before them. *)
LEMMA WithCallsAlong ==
  ASSUME NEW q, NEW t, Typed(q, t), Along(q, t, line, listed),
         NEW m \in Messages, t[m].pc \notin {"queued", "tools"},
         t[m].client \/ t[m].rounds < MaxRounds,
         NEW wanted, NEW l, NEW li, l = Append(line, m),
         li = IF \E n \in Range(line) : t[n].sched = t[m].sched
              THEN listed ELSE m
  PROVE  Along(q, WithCalls(t, m, wanted), l, li)
  <1> DEFINE busy == \E n \in Range(line) : t[n].sched = t[m].sched
             status == IF busy THEN "waiting" ELSE "validating"
             calls == [c \in Slots |-> IF c \in wanted THEN status ELSE "none"]
             u == [t[m] EXCEPT !.pc = "tools", !.calls = calls]
             w == WithCalls(t, m, wanted)
  <1>1. t[m] \in TurnRecord /\ t \in [Messages -> TurnRecord]
    BY DEF Typed
  <1>2. /\ calls \in [Slots -> Statuses] /\ WaitTogether(calls)
        /\ ~busy => NoneWaits(calls)
    BY DEF Statuses, WaitTogether, NoneWaits
  <1>3. w = [t EXCEPT ![m] = u]
    BY <1>1 DEF WithCalls
  <1> HIDE DEF calls
  <1>4. /\ u.pc = "tools" /\ u.calls = calls /\ u.rounds = t[m].rounds
        /\ u.client = t[m].client
    BY <1>1, <1>2 DEF TurnRecord
  <1>5. w[m] = u /\ \A n \in Messages \ {m} : w[n] = t[n]
    BY <1>1, <1>3
  <1> HIDE DEF u, w, busy
  <1>6. /\ line \in Seq(Messages) /\ IsInjective(line) /\ m \notin Range(line)
        /\ \A n \in Messages : t[n].pc = "tools" <=> n \in Range(line)
    BY DEF Along, InLine
  <1>7. /\ l \in Seq(Messages) /\ IsInjective(l)
        /\ Range(l) \subseteq Range(line) \cup {m}
    BY <1>6, AppendRange
  <1>8. Range(line) \cup {m} \subseteq Range(l)
    <2>1. \A i \in DOMAIN line : i \in DOMAIN l /\ l[i] = line[i]
      BY <1>6
    <2>2. Len(line) + 1 \in DOMAIN l /\ l[Len(line) + 1] = m
      BY <1>6
    <2> QED
      BY <2>1, <2>2 DEF Range
  <1>9. InLine(l, w)
    BY <1>4, <1>5, <1>6, <1>7, <1>8 DEF InLine
  <1>10. AllQueued(q, w)
    BY <1>4, <1>5 DEF Along, AllQueued
  <1>11. Counted(w)
    <2>1. CountedTurn(u) /\ WaitTogether(u.calls)
      BY <1>2, <1>4 DEF Along, Counted, CountedTurn
    <2> QED
      BY <1>5, <2>1 DEF Along, Counted
  <1>12. ListedIn(l, w, li)
    <2>1. CASE busy
      <3>1. listed \in Range(line) \cup {None} /\ m # listed
        BY <1>6, ConstantsOK DEF Along, ListedIn
      <3>2. listed # None => listed \in Messages \ {m}
        BY <1>6, <3>1 DEF Range
      <3>3. li = listed
        BY <2>1 DEF busy
      <3> QED
        BY <1>5, <1>8, <3>1, <3>2, <3>3 DEF Along, ListedIn
    <2>2. CASE ~busy
      <3>1. li = m
        BY <2>2 DEF busy
      <3> QED
        BY <1>2, <1>4, <1>5, <1>8, <2>2, <3>1 DEF ListedIn
    <2> QED
      BY <2>1, <2>2
  <1> QED
    BY <1>9, <1>10, <1>11, <1>12 DEF Along, w

(* The next batch begins, and is listed.                                   *)
LEMMA BegunAlong ==
  ASSUME NEW q, NEW t, NEW l, Typed(q, t), Along(q, t, l, None),
         NEW n \in Range(l) \cup {None}
  PROVE  Along(q, Begun(t, n), l, n)
  <1>1. CASE n = None
    BY <1>1 DEF Begun
  <1>2. CASE n # None
    <2> DEFINE calls == [c \in Slots |-> IF t[n].calls[c] = "waiting"
                                         THEN "validating" ELSE t[n].calls[c]]
               u == [t[n] EXCEPT !.calls = calls]
               b == Begun(t, n)
    <2>1. n \in Messages
      BY <1>2 DEF Along, InLine, Range
    <2>2. t[n] \in TurnRecord /\ t \in [Messages -> TurnRecord]
      BY <2>1 DEF Typed
    <2>3. b = [t EXCEPT ![n] = u]
      BY <1>2, <2>1, <2>2 DEF Begun
    <2>4. /\ u.pc = t[n].pc /\ u.calls = calls /\ u.rounds = t[n].rounds
          /\ u.client = t[n].client
      BY <2>2 DEF TurnRecord
    <2>5. NoneWaits(calls) /\ WaitTogether(calls)
      BY DEF NoneWaits, WaitTogether
    <2> HIDE DEF calls, u, b
    <2>6. b[n] = u /\ \A m \in Messages \ {n} : b[m] = t[m]
      BY <2>1, <2>2, <2>3
    <2>7. AllQueued(q, b) /\ InLine(l, b)
      BY <2>4, <2>6 DEF Along, AllQueued, InLine
    <2>8. Counted(b)
      BY <2>4, <2>5, <2>6 DEF Along, Counted, CountedTurn
    <2>9. ListedIn(l, b, n)
      BY <2>4, <2>5, <2>6 DEF ListedIn
    <2> QED
      BY <2>7, <2>8, <2>9 DEF Along, b
  <1> QED
    BY <1>1, <1>2

-----------------------------------------------------------------------------
(* Every step keeps the state well formed.                                 *)

(* A render may take a submission off the queue.                           *)
LEMMA RenderTyped ==
  ASSUME IInv, TInv, Render
  PROVE  TInv'
  <1>1. UNCHANGED <<listed, line, aborter, turnCancelled>>
    BY DEF Render
  <1>2. Along(queue', turn', line, listed) /\ Onward
    <2>1. CASE scheduleNextQueuedSubmission(queue, turn)
      BY <2>1, TakeNextAlong, TakeNextGood DEF IInv, TInv, Onward, Early
    <2>2. CASE UNCHANGED <<queue, turn>>
      BY <2>2 DEF TInv, Onward
    <2> QED
      BY <2>1, <2>2 DEF Render, WhenIdle
  <1> QED
    BY <1>1, <1>2, StillCancels DEF TInv

(* A submission joins the queue, or is the one that can be cancelled.      *)
LEMMA SubmitTyped ==
  ASSUME IInv, TInv, NEW m \in Messages, Type(m) \/ TimerFires(m)
  PROVE  TInv'
  <1>1. /\ turn[m].pc \in {"new", "timer"} /\ SubmitQuery(m)
        /\ UNCHANGED <<listed, line>>
    BY DEF Type, TimerFires
  <1>2. /\ m \notin Range(queue) /\ turn[m] \in TurnRecord
        /\ Typed(queue, turn) /\ queue \in Seq(Messages)
        /\ turn \in [Messages -> TurnRecord]
        /\ Along(queue, turn, line, listed)
    BY <1>1, NotQueued DEF IInv, Good, Typed, TInv
  <1>3. /\ CountedTurn(turn[m]) /\ WaitTogether(turn[m].calls)
        /\ m = listed => NoneWaits(turn[m].calls)
    BY <1>2, ConstantsOK DEF Along, Counted, ListedIn
  <1>4. CASE seen.streaming # "Idle"
    <2> DEFINE u == [turn[m] EXCEPT !.pc = "queued"]
    <2>1. /\ turn' = [turn EXCEPT ![m] = u] /\ queue' = Append(queue, m)
          /\ UNCHANGED <<turnCancelled, aborter>>
      BY <1>1, <1>2, <1>4 DEF SubmitQuery
    <2>2. /\ u \in TurnRecord /\ u.calls = turn[m].calls /\ u.pc = "queued"
          /\ u.rounds = turn[m].rounds
      BY <1>2 DEF TurnRecord, Steps
    <2>3. Range(queue) \cup {m} \subseteq Range(queue')
      <3>1. \A i \in DOMAIN queue : i \in DOMAIN queue' /\ queue'[i] = queue[i]
        BY <1>2, <2>1
      <3>2. Len(queue) + 1 \in DOMAIN queue' /\ queue'[Len(queue) + 1] = m
        BY <1>2, <2>1
      <3> QED
        BY <3>1, <3>2 DEF Range
    <2> HIDE DEF u
    <2>4. turn'[m] = u /\ \A n \in Messages \ {m} : turn'[n] = turn[n]
      BY <1>2, <2>1
    <2>5. AllQueued(queue', turn')
      BY <1>2, <2>3, <2>4 DEF Along, AllQueued
    <2>6. /\ InLine(line, turn') /\ Counted(turn')
      BY <1>1, <1>2, <1>3, <2>2, <2>4
         DEF Along, InLine, Counted, CountedTurn
    <2>7. ListedIn(line, turn', listed)
      <3>1. listed \in Messages \cup {None}
        BY <1>2 DEF Along, InLine, ListedIn, Range
      <3> QED
        BY <1>2, <1>3, <2>2, <2>4, <3>1 DEF Along, ListedIn
    <2>8. CanCancel(turn', aborter')
      BY <1>1, <2>1, <2>4 DEF TInv, CanCancel, Early
    <2> QED
      BY <1>1, <2>1, <2>5, <2>6, <2>7, <2>8 DEF TInv, Along
  <1>5. CASE seen.streaming = "Idle"
    <2> DEFINE u == [turn[m] EXCEPT !.pc = "preparing", !.sched = scheduler',
                                    !.heard = seen.responding]
    <2>1. /\ turn' = [turn EXCEPT ![m] = u] /\ queue' = queue
          /\ aborter' = m /\ turnCancelled' = FALSE
      BY <1>1, <1>2, <1>5 DEF SubmitQuery
    <2>2. seen.responding \in BOOLEAN /\ scheduler' \in Messages \cup {None}
      BY <1>1, <1>5 DEF IInv, RestTyped, SubmitQuery
    <2>3. /\ u \in TurnRecord /\ u.calls = turn[m].calls
          /\ u.pc = "preparing" /\ u.rounds = turn[m].rounds
      BY <1>2, <2>2 DEF TurnRecord, Steps
    <2> HIDE DEF u
    <2>4. turn'[m] = u
      BY <1>2, <2>1
    <2>5. CountedTurn(u) /\ WaitTogether(u.calls)
      BY <1>3, <2>3 DEF CountedTurn
    <2>6. Along(queue, turn', line, listed)
      BY <1>1, <1>2, <1>3, <2>1, <2>3, <2>5, StepAlong
    <2>7. CanCancel(turn', aborter')
      BY <2>1, <2>3, <2>4 DEF CanCancel, Early
    <2> QED
      BY <1>1, <2>1, <2>6, <2>7 DEF TInv
  <1> QED
    BY <1>4, <1>5

(* The batch of m changes: it is listed, and if it is reported it leaves   *)
(* the line for the one behind it.                                         *)
LEMMA NotifiedTyped ==
  ASSUME IInv, TInv, NEW m \in Messages, turn[m].pc = "tools",
         NEW changed \in [Slots -> Statuses], NoneWaits(changed),
         Notified(m, changed), Unscheduled
  PROVE  TInv'
  <1> DEFINE calls == Started(changed)
  <1>1. calls \in [Slots -> Statuses] /\ NoneWaits(calls) /\ WaitTogether(calls)
    BY DEF Started, Statuses, NoneWaits, WaitTogether
  <1> HIDE DEF calls
  <1>2. /\ Good(queue, turn) /\ turn \in [Messages -> TurnRecord]
        /\ turn[m] \in TurnRecord /\ m \notin Range(queue)
        /\ Typed(queue, turn) /\ Along(queue, turn, line, listed)
        /\ CountedTurn(turn[m]) /\ m \in Range(line)
    BY NotQueued DEF IInv, Good, Typed, TInv, Along, Counted, InLine
  <1>3. queue' = queue
    BY DEF Unscheduled
  <1>4. CASE \A c \in Present(calls) : calls[c] \in {"ended", "cancelled"}
    <2> DEFINE go == Continues(m, calls)
               u == [turn[m] EXCEPT !.calls = Answered(m, calls),
                       !.pc = IF go THEN "streaming" ELSE "done",
                       !.rounds = IF go THEN @ + 1 ELSE @,
                       !.aborted = IF go THEN FALSE ELSE @]
               rest == [turn EXCEPT ![m] = u]
               l == Without(m)
    <2>1. handleCompletedTools(m, calls)
      BY <1>4 DEF Notified, calls
    <2>2. PICK next \in NextInLine(turn, m) :
            turn' = Begun(rest, next) /\ listed' = next
      BY <1>2, <2>1, Zenon DEF handleCompletedTools
    <2>3. /\ line' = l
          /\ IF go THEN aborter' = m /\ turnCancelled' = FALSE
                   ELSE UNCHANGED <<aborter, turnCancelled>>
      BY <2>1 DEF handleCompletedTools
    <2>4. go => ~turn[m].client
      BY DEF Continues
    <2> HIDE DEF go
    <2>5. /\ Answered(m, calls) \in [Slots -> Statuses]
          /\ NoneWaits(Answered(m, calls)) /\ WaitTogether(Answered(m, calls))
      BY <1>1 DEF Answered, NoCalls, Statuses, NoneWaits, WaitTogether
    <2>6. /\ u \in TurnRecord /\ u.calls = Answered(m, calls)
          /\ u.pc = IF go THEN "streaming" ELSE "done"
      <3>1. CASE go
        <4>1. u = [turn[m] EXCEPT !.calls = Answered(m, calls),
                     !.pc = "streaming", !.rounds = @ + 1, !.aborted = FALSE]
          BY <3>1
        <4> HIDE DEF u
        <4> QED
          BY <1>2, <2>5, <3>1, <4>1, ContinuedTurn
      <3>2. CASE ~go
        <4>1. u = [turn[m] EXCEPT !.calls = Answered(m, calls),
                     !.pc = "done", !.rounds = @, !.aborted = @]
          BY <3>2
        <4> HIDE DEF u
        <4> QED
          BY <1>2, <2>5, <3>2, <4>1, EndedTurn
      <3> QED
        BY <3>1, <3>2
    <2>7. u.rounds = IF go THEN turn[m].rounds + 1 ELSE turn[m].rounds
      BY <1>2 DEF TurnRecord
    <2> HIDE DEF u
    <2>8. CountedTurn(u)
      <3>1. turn[m].rounds \in Nat /\ MaxRounds \in Nat
        BY <1>2, ConstantsOK DEF TurnRecord
      <3> QED
        BY <1>2, <2>4, <2>6, <2>7, <3>1 DEF CountedTurn
    <2>9. rest[m] = u /\ \A n \in Messages \ {m} : rest[n] = turn[n]
      BY <1>2
    <2>10. Typed(queue, rest)
      BY <1>2, <2>6 DEF Typed
    <2> HIDE DEF rest
    <2>11. l \in Seq(Messages) /\ IsInjective(l) /\ Range(l) = Range(line) \ {m}
      BY <1>2, WithoutOne DEF Along, InLine
    <2> HIDE DEF l
    <2>12. Along(queue, rest, l, None)
      <3>1. AllQueued(queue, rest)
        BY <1>2, <2>6, <2>9 DEF Along, AllQueued
      <3>2. InLine(l, rest)
        BY <1>2, <2>6, <2>9, <2>11 DEF Along, InLine
      <3>3. Counted(rest)
        BY <1>2, <2>5, <2>6, <2>8, <2>9 DEF Along, Counted
      <3> QED
        BY <3>1, <3>2, <3>3 DEF Along, ListedIn
    <2>13. next \in Range(l) \cup {None}
      BY <2>11 DEF NextInLine, Behind
    <2>14. Along(queue, turn', l, next)
      BY <2>2, <2>10, <2>12, <2>13, BegunAlong
    <2>15. \A n \in Messages : turn'[n].pc = rest[n].pc
      <3>1. Good(queue, rest)
        <4>1. \A c \in Slots : u.calls[c] \in Settled
          <5>1. \A c \in Slots : calls[c] \in Settled
            BY <1>1, <1>4 DEF Present, Settled
          <5> QED
            BY <2>6, <5>1 DEF Answered, NoCalls, Settled
        <4> QED
          BY <1>2, <2>6, <4>1, StepGood DEF rest
      <3> QED
        BY <2>2, <3>1, BegunGood
    <2>16. CanCancel(turn', aborter')
      <3>1. CASE go
        BY <2>3, <2>6, <2>9, <2>15, <3>1 DEF CanCancel, Early
      <3>2. CASE ~go
        <4>1. Onward
          BY <2>6, <2>9, <2>15 DEF Onward, Early
        <4> QED
          BY <2>3, <3>2, <4>1, StillCancels DEF TInv
      <3> QED
        BY <3>1, <3>2
    <2>17. turnCancelled' \in BOOLEAN
      BY <2>3 DEF TInv
    <2> QED
      BY <1>3, <2>2, <2>3, <2>14, <2>16, <2>17 DEF TInv
  <1>5. CASE ~ \A c \in Present(calls) : calls[c] \in {"ended", "cancelled"}
    <2> DEFINE u == [turn[m] EXCEPT !.calls = calls]
    <2>1. /\ turn' = [turn EXCEPT ![m] = u] /\ listed' = m
          /\ UNCHANGED <<line, aborter, turnCancelled>>
      BY <1>2, <1>5 DEF Notified, calls
    <2>2. /\ u \in TurnRecord /\ u.pc = "tools" /\ u.calls = calls
          /\ u.rounds = turn[m].rounds /\ u.client = turn[m].client
      BY <1>1, <1>2 DEF TurnRecord
    <2> HIDE DEF u
    <2>3. CountedTurn(u) /\ WaitTogether(u.calls) /\ NoneWaits(u.calls)
      BY <1>1, <1>2, <2>2 DEF CountedTurn
    <2>4. Along(queue, turn', line, listed)
      BY <1>2, <2>1, <2>2, <2>3, StepAlong
    <2>5. turn'[m] = u /\ \A n \in Messages \ {m} : turn'[n] = turn[n]
      BY <1>2, <2>1
    <2>6. ListedIn(line, turn', m)
      BY <1>2, <2>3, <2>5 DEF ListedIn
    <2>7. Onward
      BY <2>2, <2>5 DEF Onward, Early
    <2>8. CanCancel(turn', aborter')
      BY <2>1, <2>7, StillCancels DEF TInv
    <2> QED
      BY <1>3, <2>1, <2>4, <2>6, <2>8 DEF TInv, Along
  <1> QED
    BY <1>4, <1>5

(* A call that changes is not one of a batch that waits.                   *)
LEMMA CallTyped ==
  ASSUME IInv, TInv, NEW m \in Messages, NEW c \in Slots,
         Validate(m, c) \/ Answer(m, c) \/ Finish(m, c)
  PROVE  TInv'
  <1>1. turn[m].calls[c] \in {"validating", "awaiting", "executing"}
    BY DEF Validate, Answer, Finish
  <1>2. turn[m].pc = "tools"
    BY <1>1 DEF IInv, Good, AtTools, Settled
  <1>3. turn[m].calls \in [Slots -> Statuses] /\ WaitTogether(turn[m].calls)
    BY DEF IInv, Good, Typed, TurnRecord, TInv, Along, Counted
  <1>4. PICK status \in Statuses \ {"waiting"} :
          Notified(m, [turn[m].calls EXCEPT ![c] = status])
    <2>1. {"awaiting", "scheduled", "ended", "cancelled"} \subseteq Statuses \ {"waiting"}
      BY DEF Statuses
    <2> QED
      BY <2>1, Zenon DEF Validate, Answer, Finish
  <1> DEFINE changed == [turn[m].calls EXCEPT ![c] = status]
  <1>5. changed \in [Slots -> Statuses] /\ NoneWaits(changed)
    BY <1>1, <1>3 DEF NoneWaits, WaitTogether
  <1>6. Unscheduled
    BY DEF Validate, Answer, Finish
  <1> HIDE DEF changed
  <1>7. Notified(m, changed)
    BY <1>4 DEF changed
  <1> QED
    BY <1>2, <1>5, <1>6, <1>7, NotifiedTyped

(* A step outside of the scheduler that leaves the queue alone.            *)
LEMMA MoveTyped ==
  ASSUME IInv, TInv, NEW m \in Messages, turn[m].pc \notin Early \cup {"tools"},
         NEW pc \in Steps \ (Early \cup {"tools"})
  PROVE  LET t2 == [turn EXCEPT ![m].pc = pc]
         IN  /\ Good(queue, t2) /\ Along(queue, t2, line, listed)
             /\ \A n \in Messages : turn[n].pc \notin Early => t2[n].pc \notin Early
  <1> DEFINE t2 == [turn EXCEPT ![m].pc = pc]
  <1>1. Good(queue, t2) /\ t2[m].pc = pc /\ \A n \in Messages \ {m} : t2[n] = turn[n]
    BY MoveGood DEF IInv, Early
  <1>2. Along(queue, t2, line, listed)
    BY MoveAlong DEF IInv, Good, TInv, Early
  <1> HIDE DEF t2
  <1>3. \A n \in Messages : turn[n].pc \notin Early => t2[n].pc \notin Early
    BY <1>1
  <1> QED
    BY <1>1, <1>2, <1>3 DEF t2

(* A message is handled, or runs in the shell; a submission is taken.      *)
LEMMA HandledTyped ==
  ASSUME IInv, TInv, NEW m \in Messages, Handled(m) \/ RunShell(m)
  PROVE  TInv'
  <1>1. PICK pc \in {"done", "shell"} :
          scheduleNextQueuedSubmission(queue, [turn EXCEPT ![m].pc = pc])
    BY Zenon DEF Handled, RunShell
  <1>2. /\ turn[m].pc = "preparing"
        /\ UNCHANGED <<listed, turnCancelled, aborter, line>>
    BY DEF Handled, RunShell
  <1> DEFINE t2 == [turn EXCEPT ![m].pc = pc]
  <1>3. pc \in Steps \ (Early \cup {"tools"}) /\ turn[m].pc \notin Early \cup {"tools"}
    BY <1>2 DEF Steps, Early
  <1>4. /\ Good(queue, t2) /\ Along(queue, t2, line, listed)
        /\ \A n \in Messages : turn[n].pc \notin Early => t2[n].pc \notin Early
    BY <1>3, MoveTyped
  <1> HIDE DEF t2
  <1>5. scheduleNextQueuedSubmission(queue, t2)
    BY <1>1 DEF t2
  <1>6. Along(queue', turn', line, listed)
    BY <1>4, <1>5, TakeNextAlong
  <1>7. Onward
    BY <1>4, <1>5, TakeNextGood DEF Onward, Early
  <1> QED
    BY <1>2, <1>6, <1>7, StillCancels DEF TInv

(* The first stream of a turn is its first round.                          *)
LEMMA StreamTyped ==
  ASSUME IInv, TInv, NEW m \in Messages, Stream(m)
  PROVE  TInv'
  <1> DEFINE u == [turn[m] EXCEPT !.pc = "streaming", !.rounds = 1]
  <1>1. /\ turn[m].pc = "preparing" /\ turn' = [turn EXCEPT ![m] = u]
        /\ UNCHANGED <<queue, listed, turnCancelled, aborter, line>>
    BY DEF Stream
  <1>2. /\ turn[m] \in TurnRecord /\ turn \in [Messages -> TurnRecord]
        /\ Typed(queue, turn) /\ Along(queue, turn, line, listed)
    BY DEF IInv, Good, Typed, TInv
  <1>3. /\ u \in TurnRecord /\ u.calls = turn[m].calls /\ u.pc = "streaming"
        /\ u.rounds = 1
    BY <1>2 DEF TurnRecord, Steps
  <1> HIDE DEF u
  <1>4. CountedTurn(u) /\ WaitTogether(u.calls)
    BY <1>2, <1>3, ConstantsOK DEF Along, Counted, CountedTurn
  <1>5. m = listed => NoneWaits(u.calls)
    BY <1>2, <1>3, ConstantsOK DEF Along, ListedIn
  <1>6. Along(queue, turn', line, listed)
    BY <1>1, <1>2, <1>3, <1>4, <1>5, StepAlong
  <1>7. turn'[m] = u /\ \A n \in Messages \ {m} : turn'[n] = turn[n]
    BY <1>1, <1>2
  <1>8. Onward
    BY <1>3, <1>7 DEF Onward, Early
  <1> QED
    BY <1>1, <1>6, <1>8, StillCancels DEF TInv

(* A command's tool call joins the line, then a submission is taken.       *)
LEMMA ScheduleToolTyped ==
  ASSUME IInv, TInv, NEW m \in Messages, NEW c \in Slots, ScheduleTool(m, c)
  PROVE  TInv'
  <1> DEFINE u == [turn[m] EXCEPT !.client = TRUE]
             t1 == [turn EXCEPT ![m] = u]
             t2 == WithCalls(t1, m, {c})
  <1>1. /\ turn[m].pc = "preparing" /\ Scheduled(m)
        /\ UNCHANGED <<turnCancelled, aborter>>
        /\ scheduleNextQueuedSubmission(queue, t2)
    BY DEF ScheduleTool
  <1>2. /\ m \notin Range(queue) /\ turn[m] \in TurnRecord
        /\ Typed(queue, turn) /\ turn \in [Messages -> TurnRecord]
        /\ Along(queue, turn, line, listed) /\ Good(queue, turn)
    BY <1>1, NotQueued DEF IInv, Good, Typed, TInv
  <1>3. /\ u \in TurnRecord /\ u.calls = turn[m].calls /\ u.client = TRUE
        /\ u.pc = turn[m].pc /\ u.rounds = turn[m].rounds
        /\ u.sched = turn[m].sched
    BY <1>2 DEF TurnRecord
  <1> HIDE DEF u
  <1>4. CountedTurn(u) /\ WaitTogether(u.calls)
    BY <1>1, <1>2, <1>3 DEF Along, Counted, CountedTurn
  <1>5. m = listed => NoneWaits(u.calls)
    BY <1>2, <1>3, ConstantsOK DEF Along, ListedIn
  <1>6. t1[m] = u /\ \A n \in Messages \ {m} : t1[n] = turn[n]
    BY <1>2
  <1>7. Along(queue, t1, line, listed)
    BY <1>1, <1>2, <1>3, <1>4, <1>5, StepAlong
  <1>8. \A d \in Slots : u.calls[d] \in Settled
    BY <1>1, <1>2, <1>3 DEF Good, AtTools
  <1>9. Good(queue, t1)
    BY <1>2, <1>3, <1>8, StepGood
  <1> HIDE DEF t1
  <1>10. /\ line' = Append(line, m)
         /\ listed' = IF \E n \in Range(line) : t1[n].sched = t1[m].sched
                      THEN listed ELSE m
    <2>1. \A n \in Messages : t1[n].sched = turn[n].sched
      BY <1>3, <1>6
    <2>2. Range(line) \subseteq Messages
      BY <1>2 DEF Along, InLine, Range
    <2> QED
      BY <1>1, <2>1, <2>2 DEF Scheduled
  <1>11. Along(queue, t2, line', listed')
    <2>1. Typed(queue, t1) /\ t1[m].pc \notin {"queued", "tools"} /\ t1[m].client
      BY <1>1, <1>3, <1>6, <1>9 DEF Good
    <2> QED
      BY <1>7, <1>10, <2>1, WithCallsAlong
  <1>12. /\ Good(queue, t2) /\ t2[m].pc = "tools"
         /\ \A n \in Messages \ {m} : t2[n] = t1[n]
    BY <1>1, <1>3, <1>6, <1>9, WithCallsGood
  <1> HIDE DEF t2
  <1>13. Along(queue', turn', line', listed')
    BY <1>1, <1>11, <1>12, TakeNextAlong
  <1>14. Onward
    BY <1>1, <1>6, <1>12, TakeNextGood DEF Onward, Early
  <1> QED
    BY <1>1, <1>13, <1>14, StillCancels DEF TInv

(* A shell command ends.                                                   *)
LEMMA ShellEndsTyped ==
  ASSUME IInv, TInv, NEW m \in Messages, ShellEnds(m)
  PROVE  TInv'
  <1>1. /\ turn[m].pc = "shell" /\ turn' = [turn EXCEPT ![m].pc = "done"]
        /\ UNCHANGED <<queue, listed, turnCancelled, aborter, line>>
    BY DEF ShellEnds
  <1>2. "done" \in Steps \ (Early \cup {"tools"}) /\ turn[m].pc \notin Early \cup {"tools"}
    BY <1>1 DEF Steps, Early
  <1>3. Along(queue, turn', line, listed) /\ Onward
    BY <1>1, <1>2, MoveTyped DEF Onward
  <1> QED
    BY <1>1, <1>3, StillCancels DEF TInv

(* The finally of submitQuery takes a submission, or leaves the queue.     *)
LEMMA FinallyAlong ==
  ASSUME NEW q, NEW t, NEW l, NEW li, Good(q, t), Along(q, t, l, li), Finally(q, t)
  PROVE  /\ Along(queue', turn', l, li)
         /\ \A m \in Messages : t[m].pc # "queued" => turn'[m] = t[m]
  BY TakeNextGood, TakeNextAlong DEF Finally

(* A stream throws.                                                        *)
LEMMA StreamThrowsTyped ==
  ASSUME IInv, TInv, NEW m \in Messages, StreamThrows(m)
  PROVE  TInv'
  <1> DEFINE t2 == [turn EXCEPT ![m].pc = "done"]
  <1>1. /\ turn[m].pc = "streaming" /\ Finally(queue, t2)
        /\ UNCHANGED <<listed, turnCancelled, aborter, line>>
    BY DEF StreamThrows
  <1>2. "done" \in Steps \ (Early \cup {"tools"}) /\ turn[m].pc \notin Early \cup {"tools"}
    BY <1>1 DEF Steps, Early
  <1>3. /\ Good(queue, t2) /\ Along(queue, t2, line, listed)
        /\ \A n \in Messages : turn[n].pc \notin Early => t2[n].pc \notin Early
    BY <1>2, MoveTyped
  <1> HIDE DEF t2
  <1>4. Along(queue', turn', line, listed) /\ Onward
    BY <1>1, <1>3, FinallyAlong DEF Onward, Early
  <1> QED
    BY <1>1, <1>4, StillCancels DEF TInv

(* A stream ends, its calls join the line, the queue may be dropped.       *)
LEMMA StreamEndsTyped ==
  ASSUME IInv, TInv, NEW m \in Messages, NEW wanted \in SUBSET Slots,
         NEW saysCancelled \in BOOLEAN, StreamEnds(m, wanted, saysCancelled)
  PROVE  TInv'
  <1> DEFINE after == IF wanted = {} THEN [turn EXCEPT ![m].pc = "done"]
                                     ELSE WithCalls(turn, m, wanted)
             clears == saysCancelled /\ ~turnCancelled
             q == IF clears THEN <<>> ELSE queue
             t == IF clears THEN Dropped(after) ELSE after
  <1>1. /\ turn[m].pc = "streaming" /\ UNCHANGED <<turnCancelled, aborter>>
        /\ wanted # {} => turn[m].rounds < MaxRounds
        /\ Finally(q, t)
        /\ IF wanted = {} THEN UNCHANGED <<line, listed>> ELSE Scheduled(m)
    BY DEF StreamEnds
  <1>2. /\ Good(queue, turn) /\ Typed(queue, turn)
        /\ Along(queue, turn, line, listed)
    BY DEF IInv, Good, TInv
  <1>3. /\ Good(queue, after) /\ Along(queue, after, line', listed')
        /\ \A n \in Messages : turn[n].pc \notin Early => after[n].pc \notin Early
    <2>1. CASE wanted = {}
      <3>1. "done" \in Steps \ (Early \cup {"tools"})
            /\ turn[m].pc \notin Early \cup {"tools"}
        BY <1>1 DEF Steps, Early
      <3> QED
        BY <1>1, <2>1, <3>1, MoveTyped
    <2>2. CASE wanted # {}
      <3>1. after = WithCalls(turn, m, wanted)
        BY <2>2
      <3> HIDE DEF after
      <3>2. /\ line' = Append(line, m)
            /\ listed' = IF \E n \in Range(line) : turn[n].sched = turn[m].sched
                         THEN listed ELSE m
        BY <1>1, <2>2 DEF Scheduled
      <3>3. Along(queue, after, line', listed')
        BY <1>1, <1>2, <2>2, <3>1, <3>2, WithCallsAlong
      <3>4. /\ Good(queue, after) /\ after[m].pc = "tools"
            /\ \A n \in Messages \ {m} : after[n] = turn[n]
        BY <1>1, <1>2, <3>1, WithCallsGood
      <3> QED
        BY <3>3, <3>4 DEF Early
    <2> QED
      BY <2>1, <2>2
  <1> HIDE DEF after
  <1>4. /\ Good(q, t) /\ Along(q, t, line', listed')
        /\ \A n \in Messages : turn[n].pc \notin Early => t[n].pc \notin Early
    <2>1. CASE clears
      <3>1. Good(<<>>, Dropped(after)) /\ Along(<<>>, Dropped(after), line', listed')
        BY <1>3, DroppedGood, DroppedAlong DEF Good
      <3>2. \A n \in Messages : after[n].pc \notin Early => Dropped(after)[n] = after[n]
        BY DEF Dropped, Early
      <3> QED
        BY <1>3, <2>1, <3>1, <3>2
    <2>2. CASE ~clears
      BY <1>3, <2>2
    <2> QED
      BY <2>1, <2>2
  <1> HIDE DEF q, t, clears
  <1>5. Along(queue', turn', line', listed') /\ Onward
    BY <1>1, <1>4, FinallyAlong DEF Onward, Early
  <1> QED
    BY <1>1, <1>5, StillCancels DEF TInv

(* The turn that is cancelled leaves the line if its calls wait in it; the *)
(* rest of the queue is dropped.                                           *)
LEMMA CancelTyped ==
  ASSUME IInv, TInv, cancelOngoingRequest
  PROVE  TInv'
  <1> DEFINE d == Dropped(turn)
             a == aborter
             waits == a # None /\ \E c \in Slots : turn[a].calls[c] = "waiting"
             x == turn[a].cancelled \/ turn[a].pc \in {"streaming", "tools"}
             pc == IF waits THEN "done" ELSE turn[a].pc
             cs == IF waits THEN NoCalls ELSE turn[a].calls
             u == [turn[a] EXCEPT !.aborted = TRUE, !.cancelled = x,
                                  !.pc = pc, !.calls = cs]
             l == IF waits THEN Without(a) ELSE line
  <1>1. /\ queue' = <<>> /\ turnCancelled' = TRUE /\ line' = l
        /\ UNCHANGED <<listed, aborter>>
        /\ turn' = [n \in Messages |-> IF n # a THEN d[n] ELSE
              [turn[n] EXCEPT
                      !.aborted = TRUE,
                      !.cancelled = @ \/ turn[n].pc \in {"streaming", "tools"},
                      !.pc = IF waits THEN "done" ELSE @,
                      !.calls = IF waits THEN NoCalls ELSE @]]
    BY DEF cancelOngoingRequest
  <1>2. /\ Typed(queue, turn) /\ turn \in [Messages -> TurnRecord]
        /\ Along(queue, turn, line, listed) /\ CanCancel(turn, a)
    BY DEF IInv, Good, Typed, TInv
  <1>3. Along(<<>>, d, line, listed) /\ d \in [Messages -> TurnRecord]
        /\ Typed(<<>>, d)
    BY <1>2, DroppedAlong, DroppedGood DEF IInv, Good, Typed
  <1>4. \A n \in Messages : turn[n].pc # "queued" => d[n] = turn[n]
    BY DEF Dropped
  <1>5. CASE a = None
    <2>1. /\ turn' = [n \in Messages |-> d[n]] /\ line' = line
      <3>1. a \notin Messages
        BY <1>5, ConstantsOK
      <3> QED
        BY <1>1, <1>5, <3>1
    <2> HIDE DEF d
    <2>2. turn' = d
      BY <1>3, <2>1
    <2>3. Onward
      BY <1>4, <2>2 DEF Onward, Early
    <2> QED
      BY <1>1, <1>3, <2>1, <2>2, <2>3, StillCancels DEF TInv
  <1>6. CASE a # None
    <2>1. a \in Messages /\ turn[a] \in TurnRecord /\ turn[a].pc \notin Early
      BY <1>2, <1>6 DEF CanCancel
    <2>2. d[a] = turn[a]
      BY <1>4, <2>1 DEF Early
    <2>3. turn' = [n \in Messages |-> IF n # a THEN d[n] ELSE u]
      BY <1>1, <2>1
    <2>4. /\ x \in BOOLEAN /\ pc \in Steps /\ cs \in [Slots -> Statuses]
      <3>1. x \in BOOLEAN
        OBVIOUS
      <3>2. pc \in Steps /\ cs \in [Slots -> Statuses]
        BY <2>1 DEF TurnRecord, Steps, Statuses, NoCalls
      <3> QED
        BY <3>1, <3>2
    <2>5. CASE waits
      <3>1. turn[a].pc = "tools" /\ a \in Range(line) /\ a # listed
        <4>1. turn[a].pc = "tools"
          BY <2>1, <2>5 DEF IInv, Good, AtTools, Settled
        <4> QED
          BY <1>2, <2>1, <2>5, <4>1, <1>6 DEF Along, InLine, ListedIn, NoneWaits
      <3>2. l = Without(a) /\ pc = "done" /\ cs = NoCalls
        BY <2>5
      <3>3. l \in Seq(Messages) /\ IsInjective(l) /\ Range(l) = Range(line) \ {a}
        BY <1>2, <2>1, <3>1, <3>2, WithoutOne DEF Along, InLine
      <3> HIDE DEF x, d, waits, l, pc, cs
      <3>4. /\ u.pc = "done" /\ u.calls = NoCalls /\ u.rounds = turn[a].rounds
        BY <2>1, <3>2 DEF TurnRecord
      <3> HIDE DEF u
      <3>5. turn'[a] = u /\ \A n \in Messages \ {a} : turn'[n] = d[n]
        BY <2>1, <2>3
      <3>6. AllQueued(<<>>, turn') /\ InLine(l, turn')
        BY <1>3, <2>2, <3>1, <3>3, <3>4, <3>5 DEF Along, AllQueued, InLine
      <3>7. Counted(turn')
        <4>1. CountedTurn(u)
          BY <1>2, <2>1, <3>4 DEF Along, Counted, CountedTurn
        <4>2. WaitTogether(u.calls)
          BY <3>4 DEF NoCalls, WaitTogether
        <4> QED
          BY <1>3, <3>5, <4>1, <4>2 DEF Along, Counted
      <3>8. ListedIn(l, turn', listed)
        <4>1. listed \in Range(line) \cup {None} /\ line \in Seq(Messages)
          BY <1>2 DEF Along, InLine, ListedIn
        <4>2. listed # None => listed \in Messages \ {a}
          BY <3>1, <4>1 DEF Range
        <4>3. listed \in Range(l) \cup {None}
          BY <3>1, <3>3, <4>1
        <4> QED
          BY <1>3, <3>5, <4>2, <4>3 DEF Along, ListedIn
      <3>9. Onward
        BY <1>4, <3>4, <3>5 DEF Onward, Early
      <3> QED
        BY <1>1, <3>6, <3>7, <3>8, <3>9, StillCancels DEF TInv, Along
    <2>6. CASE ~waits
      <3>1. l = line /\ pc = turn[a].pc /\ cs = turn[a].calls
        BY <2>6
      <3> HIDE DEF x, d, waits, l, pc, cs
      <3>2. /\ u.pc = turn[a].pc /\ u.calls = turn[a].calls
            /\ u.rounds = turn[a].rounds /\ u.client = turn[a].client
        BY <2>1, <3>1 DEF TurnRecord
      <3>3. turn[a].pc \in Steps /\ turn[a].calls \in [Slots -> Statuses]
        BY <2>1 DEF TurnRecord
      <3>4. u \in TurnRecord
        <4> DEFINE v == [turn[a] EXCEPT !.aborted = TRUE, !.cancelled = x]
                   w == [v EXCEPT !.pc = pc, !.calls = cs]
        <4>1. u = w
          BY <2>1 DEF TurnRecord
        <4>2. v \in TurnRecord
          BY <2>1, <2>4 DEF TurnRecord
        <4> HIDE DEF v
        <4>3. w \in TurnRecord
          BY <2>4, <4>2 DEF TurnRecord
        <4> HIDE DEF u, w
        <4> QED
          BY <4>1, <4>3
      <3> HIDE DEF u
      <3>5. turn' = [d EXCEPT ![a] = u]
        BY <1>3, <2>3
      <3>6. /\ CountedTurn(u) /\ WaitTogether(u.calls)
            /\ a = listed => NoneWaits(u.calls)
        BY <1>2, <1>6, <2>1, <3>2 DEF Along, Counted, CountedTurn, ListedIn
      <3>7. u.pc # "queued" /\ (u.pc = "tools" <=> d[a].pc = "tools")
        BY <2>1, <2>2, <3>2 DEF Early
      <3>8. Along(<<>>, turn', line, listed)
        BY <1>3, <2>1, <3>4, <3>5, <3>6, <3>7, StepAlong
      <3>9. turn'[a] = u /\ \A n \in Messages \ {a} : turn'[n] = d[n]
        BY <1>3, <2>1, <3>5
      <3>10. Onward
        BY <1>4, <3>2, <3>9 DEF Onward, Early
      <3> QED
        BY <1>1, <3>1, <3>8, <3>10, StillCancels DEF TInv
    <2> QED
      BY <2>5, <2>6
  <1> QED
    BY <1>5, <1>6

(* The state is well formed at the start.                                  *)
LEMMA InitTyped == Init => TInv
  <1> SUFFICES ASSUME Init PROVE TInv
    OBVIOUS
  <1>1. \A m \in Messages : /\ turn[m].pc = "new" /\ turn[m].rounds = 0
                            /\ turn[m].calls = NoCalls
    BY DEF Init, FreshTurn
  <1>2. MaxRounds \in Nat /\ 0 <= MaxRounds
    BY ConstantsOK
  <1>3. AllQueued(queue, turn) /\ InLine(line, turn)
    BY <1>1 DEF Init, AllQueued, InLine, IsInjective, Range
  <1>4. Counted(turn)
    BY <1>1, <1>2 DEF Counted, CountedTurn, WaitTogether, NoCalls
  <1>5. ListedIn(line, turn, listed)
    BY DEF Init, ListedIn
  <1> QED
    BY <1>3, <1>4, <1>5 DEF Init, TInv, Along, CanCancel

(* Every step keeps it well formed.                                        *)
LEMMA NextTyped == IInv /\ TInv /\ [Next]_vars => TInv'
  <1> SUFFICES ASSUME IInv, TInv, [Next]_vars PROVE TInv'
    OBVIOUS
  <1>1. CASE UNCHANGED vars
    BY <1>1 DEF vars, TInv
  <1>2. CASE Internal
    <2>1. CASE Render
      BY <2>1, RenderTyped
    <2>2. ASSUME NEW m \in Messages, TimerFires(m) PROVE TInv'
      BY <2>2, SubmitTyped
    <2>3. ASSUME NEW m \in Messages, Stream(m) PROVE TInv'
      BY <2>3, StreamTyped
    <2>4. ASSUME NEW m \in Messages, Handled(m) \/ RunShell(m) PROVE TInv'
      BY <2>4, HandledTyped
    <2>5. ASSUME NEW m \in Messages, ShellEnds(m) PROVE TInv'
      BY <2>5, ShellEndsTyped
    <2>6. ASSUME NEW m \in Messages, StreamThrows(m) PROVE TInv'
      BY <2>6, StreamThrowsTyped
    <2>7. ASSUME NEW m \in Messages, NEW c \in Slots, ScheduleTool(m, c)
          PROVE  TInv'
      BY <2>7, ScheduleToolTyped
    <2>8. ASSUME NEW m \in Messages, NEW c \in Slots,
                 Validate(m, c) \/ Answer(m, c) \/ Finish(m, c)
          PROVE  TInv'
      BY <2>8, CallTyped
    <2>9. ASSUME NEW m \in Messages, NEW wanted \in SUBSET Slots,
                 NEW saysCancelled \in BOOLEAN,
                 StreamEnds(m, wanted, saysCancelled)
          PROVE  TInv'
      BY <2>9, StreamEndsTyped
    <2> QED
      BY <1>2, <2>1, <2>2, <2>3, <2>4, <2>5, <2>6, <2>7, <2>8, <2>9
         DEF Internal
  <1>3. CASE cancelOngoingRequest
    BY <1>3, CancelTyped
  <1>4. ASSUME NEW m \in Messages, Type(m) PROVE TInv'
    BY <1>4, SubmitTyped
  <1>5. CASE Done
    BY <1>1, <1>5 DEF Done
  <1> QED
    BY <1>1, <1>2, <1>3, <1>4, <1>5 DEF Next

(* The queue holds exactly the submissions that wait, without repetition,  *)
(* the schedulers' lines exactly the turns at their tools; what the        *)
(* terminal lists is one of these; no turn answers more rounds of tools    *)
(* than it may (useGeminiStream.ts, useReactToolScheduler.ts).             *)
THEOREM TypeCorrect == Spec => []TypeOK
  <1>1. IInv /\ TInv => TypeOK
    <2> SUFFICES ASSUME IInv, TInv PROVE TypeOK
      OBVIOUS
    <2>1. /\ turn \in [Messages -> TurnRecord] /\ IsInjective(queue) /\ RestTyped
          /\ queue \in Seq(Messages)
          /\ \A m \in Range(queue) : turn[m].pc = "queued"
          /\ AllQueued(queue, turn) /\ InLine(line, turn) /\ Counted(turn)
          /\ ListedIn(line, turn, listed) /\ CanCancel(turn, aborter)
          /\ turnCancelled \in BOOLEAN
      BY DEF IInv, Good, Typed, Queued, TInv, Along
    <2>2. ASSUME NEW m \in Messages
          PROVE  /\ turn[m].pc \in Steps
                 /\ turn[m].sched \in Messages \cup {None}
                 /\ turn[m].calls \in [Slots -> Statuses]
                 /\ turn[m].rounds \in 0..MaxRounds
                 /\ turn[m].pc = "queued" <=> m \in Range(queue)
                 /\ turn[m].pc = "tools" <=> m \in Range(line)
      <3>1. turn[m] \in TurnRecord
        BY <2>1
      <3>2. /\ turn[m].pc \in Steps
            /\ turn[m].sched \in Messages \cup {None}
            /\ turn[m].calls \in [Slots -> Statuses] /\ turn[m].rounds \in Nat
        BY <3>1 DEF TurnRecord
      <3>3. turn[m].rounds \in 0..MaxRounds
        BY <2>1, <3>2, ConstantsOK DEF Counted, CountedTurn
      <3> QED
        BY <2>1, <3>2, <3>3 DEF AllQueued, InLine
    <2> QED
      BY <2>1, <2>2 DEF TypeOK, RestTyped, InLine, ListedIn, CanCancel
  <1>2. Init => IInv /\ TInv
    BY InitOK, InitTyped
  <1>3. (IInv /\ TInv) /\ [Next]_vars => (IInv /\ TInv)'
    BY NextOK, NextTyped
  <1> QED
    BY <1>1, <1>2, <1>3, PTL DEF Spec
=============================================================================
