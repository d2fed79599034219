-------------------------- MODULE GeminiChatProofs --------------------------
(***************************************************************************)
(* Proofs about GeminiChat, for any set of messages, any limits and any    *)
(* client.  First the compression lock: its queue and the promise later    *)
(* sends join are always released.  On that rest the types and the token   *)
(* count, the pairs of tool calls and results, that nothing is recorded    *)
(* twice and, for a client that sends one message at a time, that the chat *)
(* implements Conversation.                                                *)
(***************************************************************************)
EXTENDS GeminiChat, SequenceFacts

(* The invariant: LockReleased, and the types of the senders it speaks of.  *)
LockInv == SendOK /\ LockReleased

(* What a step of m does to send, as far as the invariant looks.            *)
Moves(m, pc) ==
  /\ DOMAIN send' = Messages
  /\ DOMAIN send'[m] = DOMAIN NewSend
  /\ send'[m].pc = pc
  /\ send'[m].on \in Messages \cup {None}
  /\ send'[m].summary \in {"none", "running", "ok", "failed"}
  /\ \A x \in Messages \ {m} : send'[x] = send[x]

PCs == {"new", "noted"} \cup Waiting \cup Ended
Summarising == {"compressing", "recompressing"}

(* Goto changes the state of one sender and no other field of it.           *)
LEMMA GotoMoves ==
  ASSUME SendOK, NEW m \in Messages, NEW pc, Goto(m, pc)
  PROVE  Moves(m, pc)
BY DEF SendOK, Goto, NewSend, Moves

(* A step of a sender that is not waiting for a summary, and does not begin *)
(* to, keeps the invariant if it leaves the lock alone or opens it, fills   *)
(* the queue under the lock only, and takes over no compression.            *)
LEMMA OrdinaryMove ==
  ASSUME LockInv, NEW m \in Messages, NEW pc \in PCs, Moves(m, pc),
         send[m].pc \notin Summarising, isCompressing' => isCompressing,
         pendingOperations' # <<>> => isCompressing',
         sendPromise' \in Messages \cup {None},
         compressionPromise' \in {compressionPromise, None}
  PROVE  LockInv'
<1>1. SendOK'
  BY DEF LockInv, SendOK, Moves, PCs
<1>2. LockReleased'
  BY DEF LockInv, LockReleased, SendOK, Moves, Summarising
<1> QED BY <1>1, <1>2 DEF LockInv

(* performCompression takes the lock for a sender that then waits for it.   *)
LEMMA BeginMove ==
  ASSUME LockInv, NEW m \in Messages, NEW pc \in Summarising, Moves(m, pc),
         isCompressing', UNCHANGED <<pendingOperations, sendPromise>>,
         \/ pc = "compressing" /\ compressionPromise' = m
         \/ send[m].pc \notin Summarising /\ UNCHANGED compressionPromise
  PROVE  LockInv'
<1>1. SendOK'
  BY DEF LockInv, SendOK, Moves, Summarising, Waiting
<1>2. LockReleased'
  BY DEF LockInv, LockReleased, SendOK, Moves, Summarising
<1> QED BY <1>1, <1>2 DEF LockInv

(* endCompression opens the lock and empties the queue, whoever else still  *)
(* waits for a summary.                                                     *)
LEMMA EndMove ==
  ASSUME LockInv, NEW m \in Messages, NEW pc \in PCs, Moves(m, pc),
         ~ isCompressing', pendingOperations' = <<>>,
         sendPromise' \in Messages \cup {None},
         \/ compressionPromise' = None
         \/ send[m].pc # "compressing" /\ UNCHANGED compressionPromise
  PROVE  LockInv'
<1>1. SendOK'
  BY DEF LockInv, SendOK, Moves, PCs
<1>2. LockReleased'
  BY DEF LockInv, LockReleased, SendOK, Moves
<1> QED BY <1>1, <1>2 DEF LockInv

(* add() and clear() leave the lock as it is and queue under it only.       *)
LEMMA PerformQueues ==
  ASSUME LockInv, NEW ops, Perform(ops)
  PROVE  isCompressing' = isCompressing /\ (pendingOperations' # <<>> => isCompressing')
BY DEF LockInv, LockReleased, Perform

(* Every step keeps the invariant.                                          *)
LEMMA LockStep == LockInv /\ [Next]_vars => LockInv'
<1> SUFFICES ASSUME LockInv, [Next]_vars PROVE LockInv'
  OBVIOUS
<1> USE DEF PCs, Waiting, Ended, Summarising
<1>0. SendOK /\ (pendingOperations # <<>> => isCompressing)
  BY DEF LockInv, LockReleased
<1>1. CASE UNCHANGED vars
  BY <1>1 DEF LockInv, SendOK, LockReleased, vars
<1>2. ASSUME NEW m \in Messages, AddNote(m) PROVE LockInv'
  BY <1>2, <1>0, GotoMoves, PerformQueues, OrdinaryMove DEF AddNote, SendOK
<1>3. ASSUME NEW m \in Messages, SendMessageStream(m) PROVE LockInv'
  <2>1. Moves(m, "waiting")
    BY <1>3, <1>0 DEF SendMessageStream, SendOK, NewSend, Moves
  <2> QED BY <2>1, <1>0, <1>3, OrdinaryMove
      DEF SendMessageStream, serviceVars, SendOK
<1>4. ASSUME NEW m \in Messages, CheckCompression(m) PROVE LockInv'
  <2>1. Moves(m, "deciding") \/ Moves(m, "joining")
    BY <1>4, <1>0 DEF CheckCompression, SendOK, NewSend, Moves
  <2> QED BY <2>1, <1>0, <1>4, OrdinaryMove
      DEF CheckCompression, serviceVars, SendOK
<1>5. ASSUME NEW m \in Messages, CompressionJoined(m) PROVE LockInv'
  <2>1. Moves(m, "deciding") \/ Moves(m, "failed")
    BY <1>5, <1>0, GotoMoves DEF CompressionJoined
  <2> QED BY <2>1, <1>0, <1>5, OrdinaryMove
      DEF CompressionJoined, MayJoin, serviceVars, SendOK
<1>6. ASSUME NEW m \in Messages, Decide(m) PROVE LockInv'
  <2>1. CASE Goto(m, "sending") /\ UNCHANGED <<serviceVars, compressionPromise>>
             /\ sendPromise' = m
    BY <2>1, <1>0, <1>6, GotoMoves, OrdinaryMove DEF Decide, serviceVars
  <2>2. CASE Goto(m, "sending") /\ EndCompression(<<>>) /\ compressionPromise' = None
             /\ sendPromise' = m
    BY <2>2, <1>0, GotoMoves, EndMove DEF EndCompression
  <2>3. CASE BeginCompression(m, "compressing") /\ compressionPromise' = m
             /\ UNCHANGED sendPromise
    <3>1. Moves(m, "compressing")
      BY <2>3, <1>0 DEF BeginCompression, SendOK, NewSend, Moves
    <3> QED BY <3>1, <2>3, BeginMove DEF BeginCompression
  <2> QED BY <1>6, <2>1, <2>2, <2>3 DEF Decide
<1>7. ASSUME NEW m \in Messages, NEW ok \in BOOLEAN, CompressionSettles(m, ok)
      PROVE  LockInv'
  <2>1. Moves(m, "sending") \/ Moves(m, "failed")
    BY <1>7, <1>0 DEF CompressionSettles, SendOK, NewSend, Moves
  <2> QED BY <2>1, <1>0, <1>7, EndMove DEF CompressionSettles, EndCompression, SendOK
<1>8. ASSUME NEW m \in Messages, EnforceContextWindow(m) PROVE LockInv'
  <2>1. CASE Request(m) /\ UNCHANGED serviceVars
    <3>1. Moves(m, "streaming")
      BY <2>1, <1>0 DEF Request, SendOK, NewSend, Moves
    <3> QED BY <3>1, <2>1, <1>0, <1>8, OrdinaryMove
        DEF EnforceContextWindow, serviceVars, SendOK
  <2>2. CASE EndCompression(<<>>) /\ Goto(m, "rechecking")
    BY <2>2, <1>0, <1>8, GotoMoves, EndMove
       DEF EndCompression, EnforceContextWindow, SendOK
  <2>3. CASE BeginCompression(m, "recompressing")
    <3>1. Moves(m, "recompressing")
      BY <2>3, <1>0 DEF BeginCompression, SendOK, NewSend, Moves
    <3> QED BY <3>1, <2>3, <1>8, BeginMove DEF BeginCompression, EnforceContextWindow
  <2> QED BY <1>8, <2>1, <2>2, <2>3 DEF EnforceContextWindow
<1>9. ASSUME NEW m \in Messages, NEW ok \in BOOLEAN, WindowCompressionSettles(m, ok)
      PROVE  LockInv'
  <2>1. Moves(m, "rechecking") \/ Moves(m, "failed")
    BY <1>9, <1>0 DEF WindowCompressionSettles, SendOK, NewSend, Moves
  <2> QED BY <2>1, <1>0, <1>9, EndMove
      DEF WindowCompressionSettles, EndCompression, SendOK
<1>10. ASSUME NEW m \in Messages, Recheck(m) PROVE LockInv'
  <2>1. Moves(m, "streaming") \/ Moves(m, "failed")
    BY <1>10, <1>0, GotoMoves DEF Recheck, Request, SendOK, NewSend, Moves
  <2> QED BY <2>1, <1>0, <1>10, OrdinaryMove DEF Recheck, serviceVars, SendOK
<1>11. ASSUME NEW m \in Messages, NEW reply, NEW usage, StreamEnds(m, reply, usage)
       PROVE  LockInv'
  <2>1. Moves(m, "done") \/ Moves(m, "called")
    BY <1>11, <1>0, GotoMoves DEF StreamEnds
  <2>2. isCompressing' = isCompressing /\ (pendingOperations' # <<>> => isCompressing')
    BY <1>11, PerformQueues DEF StreamEnds
  <2> QED BY <2>1, <2>2, <1>0, <1>11, OrdinaryMove DEF StreamEnds, SendOK
<1>12. ASSUME NEW m \in Messages, StreamInvalid(m) PROVE LockInv'
  <2>1. Moves(m, "retrying") \/ Moves(m, "failed")
    BY <1>12, <1>0, GotoMoves DEF StreamInvalid
  <2> QED BY <2>1, <1>0, <1>12, OrdinaryMove DEF StreamInvalid, serviceVars, SendOK
<1>13. ASSUME NEW m \in Messages, StreamFails(m) PROVE LockInv'
  BY <1>13, <1>0, GotoMoves, OrdinaryMove DEF StreamFails, serviceVars, SendOK
<1>14. ASSUME NEW m \in Messages, RetryDue(m) PROVE LockInv'
  BY <1>14, <1>0, GotoMoves, OrdinaryMove DEF RetryDue, serviceVars, SendOK
<1>15. ASSUME ClearHistory PROVE LockInv'
  <2>1. ~ isCompressing /\ compressionPromise = None
    BY <1>15, <1>0 DEF ClearHistory, LockInv, LockReleased, SendOK
  <2>2. ~ isCompressing' /\ pendingOperations' = <<>> /\ compressionPromise' = None
    BY <1>15, <2>1, PerformQueues DEF ClearHistory
  <2>3. SendOK'
    BY <1>15, <1>0, <2>2 DEF ClearHistory, SendOK, NewSend
  <2> QED BY <2>2, <2>3 DEF LockInv, LockReleased
<1> QED
  BY <1>1, <1>2, <1>3, <1>4, <1>5, <1>6, <1>7, <1>8, <1>9, <1>10, <1>11,
     <1>12, <1>13, <1>14, <1>15 DEF Next, ClientEvent, Progress, ServerEvent

(* The compression lock, the operations queued under it and the promise     *)
(* that later sends join outlive no compression, however compressions of    *)
(* concurrent sends overlap, fail or find nothing to do.                    *)
THEOREM LockIsReleased == Spec => []LockReleased
<1>1. Init => LockInv
  BY DEF Init, LockInv, SendOK, LockReleased, NewSend
<1>2. LockInv => LockReleased
  BY DEF LockInv
<1> QED BY <1>1, <1>2, LockStep, PTL DEF Spec

(* Entries of a history, and the calls that make one.                       *)
Said == SaidBefore \cup (Messages \X Kinds)
Entries == [speaker : Speakers, says : Seq(Said), tokens : Nat \ {0}]

-----------------------------------------------------------------------------
(* Token counts                                                            *)

(* f counts the tokens of the first n entries of s.                         *)
Sums(f, s, n) ==
  f = [i \in 0..n |-> IF i = 0 THEN 0 ELSE f[i - 1] + s[i].tokens]

(* Such a count, at each entry;                                            *)
LEMMA SumsAt ==
  ASSUME NEW f, NEW s, NEW n, Sums(f, s, n)
  PROVE  \A i \in 0..n : f[i] = IF i = 0 THEN 0 ELSE f[i - 1] + s[i].tokens
<1> DEFINE e(j) == IF j = 0 THEN 0 ELSE f[j - 1] + s[j].tokens
<1>1. f = [j \in 0..n |-> e(j)]
  BY DEF Sums
<1> HIDE DEF e
<1>2. \A i \in 0..n : f[i] = e(i)
  BY <1>1
<1> QED BY <1>2 DEF e

(* there is one for any sequence.                                          *)
LEMMA SumsExists ==
  ASSUME NEW s, NEW n \in Nat
  PROVE  \E f : Sums(f, s, n)
<1> DEFINE T == {k \in 0..n : \E f : Sums(f, s, k)}
<1>1. 0 \in T
  <2> DEFINE f == [i \in 0..0 |-> 0]
  <2>1. Sums(f, s, 0)
    BY DEF Sums
  <2> QED BY <2>1
<1>2. ASSUME NEW k \in 0..(n - 1), k \in T
      PROVE  k + 1 \in T
  <2>1. PICK f : Sums(f, s, k)
    BY <1>2
  <2> DEFINE g == [i \in 0..(k + 1) |->
                     IF i <= k THEN f[i] ELSE f[i - 1] + s[i].tokens]
  <2>2. \A i \in 0..(k + 1) : g[i] = IF i = 0 THEN 0 ELSE g[i - 1] + s[i].tokens
    <3> TAKE i \in 0..(k + 1)
    <3>1. CASE i <= k
      <4>1. g[i] = f[i] /\ (i # 0 => g[i - 1] = f[i - 1])
        BY <3>1
      <4>2. f[i] = IF i = 0 THEN 0 ELSE f[i - 1] + s[i].tokens
        <5>1. i \in 0..k
          BY <3>1
        <5> QED BY <2>1, <5>1, SumsAt
      <4> QED BY <4>1, <4>2
    <3>2. CASE i = k + 1
      <4>1. g[i] = f[i - 1] + s[i].tokens /\ i # 0 /\ g[i - 1] = f[i - 1]
        BY <3>2
      <4> QED BY <4>1
    <3> QED BY <3>1, <3>2
  <2>3. Sums(g, s, k + 1)
    BY <2>2 DEF Sums
  <2> QED BY <2>3
<1> HIDE DEF T
<1>3. n \in T
  BY <1>1, <1>2, UpTo
<1> QED BY <1>3 DEF T

(* A run of entries is at least as many tokens as it has entries, but for   *)
(* the first k of them.                                                     *)
LEMMA SumAtLeast ==
  ASSUME NEW s, NEW n \in Nat, Len(s) = n, NEW k \in 0..n,
         \A i \in 1..n : s[i].tokens \in Nat,
         \A i \in 1..n : i > k => s[i].tokens # 0
  PROVE  SumTokens(s) \in Nat /\ SumTokens(s) >= n - k
<1> DEFINE F == CHOOSE f : Sums(f, s, n)
<1>1. Sums(F, s, n)
  BY SumsExists
<1>2. SumTokens(s) = F[n]
  BY DEF SumTokens, Sums
<1> HIDE DEF F
<1> DEFINE T == {i \in 0..n : F[i] \in Nat /\ F[i] >= i - k}
<1>3. 0 \in T
  BY <1>1, SumsAt
<1>4. ASSUME NEW i \in 0..(n - 1), i \in T
      PROVE  i + 1 \in T
  <2>1. F[i + 1] = F[i] + s[i + 1].tokens
    <3>1. i + 1 \in 0..n /\ i + 1 # 0 /\ (i + 1) - 1 = i
      OBVIOUS
    <3> QED BY <1>1, <3>1, SumsAt
  <2>2. s[i + 1].tokens \in Nat /\ (i + 1 > k => s[i + 1].tokens # 0)
    OBVIOUS
  <2> QED BY <1>4, <2>1, <2>2
<1> HIDE DEF T
<1>5. \A i \in 0..n : i \in T
  BY <1>3, <1>4, UpTo
<1> QED BY <1>2, <1>5 DEF T

-----------------------------------------------------------------------------
(* The history after a run of calls                                        *)

(* Without a clear() the run is appended,                                   *)
LEMMA AfterAdding ==
  ASSUME NEW h, NEW ops \in Seq(Entries)
  PROVE  After(h, ops) = h \o ops
<1>1. \A i \in 1..Len(ops) : ~ IsClear(ops[i])
  <2>1. \A e \in Entries : ~ IsClear(e)
    BY DEF IsClear, Entries, Speakers
  <2> QED BY <2>1
<1> QED BY <1>1 DEF After

(* and with one, only what was added behind it is left.                     *)
LEMMA AfterClearing ==
  ASSUME NEW h, NEW p \in Seq(Entries), NEW r \in Seq(Entries)
  PROVE  After(h, p \o <<Clear>> \o r) = r
<1> DEFINE ops == p \o <<Clear>> \o r
           n == Len(p) + 1
<1>1. /\ Len(ops) = n + Len(r) /\ n \in 1..Len(ops)
      /\ \A i \in 1..Len(ops) : IsClear(ops[i]) <=> i = n
      /\ \A i \in 1..Len(r) : ops[n + i] = r[i]
  <2>1. IsClear(Clear) /\ \A e \in Entries : ~ IsClear(e)
    BY DEF IsClear, Entries, Speakers, Clear
  <2>2. Len(p) \in Nat /\ Len(r) \in Nat
    BY LenProperties
  <2>3. Len(ops) = n + Len(r)
    OBVIOUS
  <2>4. \A i \in 1..Len(ops) :
          ops[i] = IF i <= Len(p) THEN p[i] ELSE IF i = n THEN Clear ELSE r[i - n]
    OBVIOUS
  <2>5. /\ \A i \in 1..Len(p) : ~ IsClear(p[i])
        /\ \A i \in 1..Len(r) : ~ IsClear(r[i])
    BY <2>1
  <2> HIDE DEF ops
  <2>6. \A i \in 1..Len(ops) : IsClear(ops[i]) <=> i = n
    <3> TAKE i \in 1..Len(ops)
    <3>1. CASE i \in 1..Len(p)
      BY <3>1, <2>2, <2>4, <2>5
    <3>2. CASE i = n
      BY <3>2, <2>1, <2>2, <2>4
    <3>3. CASE i - n \in 1..Len(r)
      BY <3>3, <2>2, <2>4, <2>5
    <3> QED BY <2>2, <2>3, <3>1, <3>2, <3>3
  <2>7. \A i \in 1..Len(r) : ops[n + i] = r[i]
    BY <2>2, <2>3, <2>4
  <2> QED BY <2>2, <2>3, <2>6, <2>7
<1>2. ops \in Seq(Entries \cup {Clear})
  OBVIOUS
<1> HIDE DEF ops, n
<1>3. Max({i \in 1..Len(ops) : IsClear(ops[i])}) = n
  <2>1. {i \in 1..Len(ops) : IsClear(ops[i])} = {n}
    BY <1>1
  <2> QED BY <1>1, <2>1 DEF Max
<1>4. SelectLastInSeq(ops, IsClear) = n
  BY <1>1, <1>3 DEF SelectLastInSeq
<1>5. SubSeq(ops, n + 1, Len(ops)) = r
  BY <1>1, <1>2, LenProperties
<1>6. After(h, ops) = r
  BY <1>1, <1>4, <1>5 DEF After
<1> QED BY <1>6 DEF ops

-----------------------------------------------------------------------------
(* Where a compression splits the history                                  *)

(* The boundary is in the history, and not between a call and its results.  *)
LEMMA BoundaryIsClean ==
  ASSUME NEW h \in Seq(Entries), NEW index \in 0..Len(h)
  PROVE  /\ Boundary(h, index) \in 0..Len(h)
         /\ Paired(h) /\ Boundary(h, index) > 0 => h[Boundary(h, index)].speaker # "call"
<1>0. Len(h) \in Nat
  BY LenProperties
<1> DEFINE Over(i) == i = Len(h) \/ h[i + 1].speaker # "tool"
           P(i) == (\A j \in index..(i - 1) : h[j + 1].speaker = "tool") /\ Over(i)
           first == CHOOSE i \in index..Len(h) : P(i)
           T == {i \in index..Len(h) : Over(i)}
<1>1. \E i \in index..Len(h) : P(i)
  <2>1. T \subseteq Nat /\ Len(h) \in T
    BY <1>0
  <2>2. PICK n \in T : \A k \in T : n <= k
    <3> HIDE DEF T
    <3> QED BY <2>1, LeastOf
  <2>3. ASSUME NEW j \in index..(n - 1)
        PROVE  h[j + 1].speaker = "tool"
    <3>1. j \in index..Len(h) /\ ~ (n <= j)
      BY <1>0
    <3>2. j \notin T
      BY <2>2, <3>1
    <3> QED BY <3>1, <3>2
  <2> QED BY <2>3
<1>2. first \in index..Len(h) /\ P(first)
  <2> HIDE DEF P
  <2> QED BY <1>1
<1>3. Boundary(h, index) =
        IF first > 0 /\ h[first].speaker = "call" THEN first - 1 ELSE first
  BY DEF Boundary
<1>4. first \in 0..Len(h)
  BY <1>0, <1>2
<1> HIDE DEF first
<1>5. Boundary(h, index) \in 0..Len(h)
  BY <1>0, <1>3, <1>4
<1>6. ASSUME Paired(h), first > 0, h[first].speaker = "call", first - 1 > 0
      PROVE  h[first - 1].speaker # "call"
  <2>1. first - 1 \in 1..Len(h) /\ (first - 1) + 1 = first
    BY <1>0, <1>4, <1>6
  <2>2. \A i \in 1..Len(h) : h[i].speaker = "call" => h[i + 1].speaker = "tool"
    BY <1>6 DEF Paired
  <2>3. h[first - 1].speaker = "call" => h[first].speaker = "tool"
    BY <2>1, <2>2
  <2> QED BY <2>3, <1>6
<1> QED BY <1>3, <1>4, <1>5, <1>6

(* So is where the history is split, whether anything is left to summarise *)
(* or not.                                                                 *)
LEMMA SplitIsClean ==
  ASSUME NEW h \in Seq(Entries)
  PROVE  /\ Split(h) \in 0..Len(h)
         /\ Paired(h) /\ Split(h) > 0 => h[Split(h)].speaker # "call"
<1> DEFINE index == (Len(h) * (Preserve - 1)) \div Preserve
           b == Boundary(h, index)
<1>0. Len(h) \in Nat
  BY LenProperties
<1>1. index \in 0..Len(h)
  BY <1>0 DEF Preserve
<1> HIDE DEF index
<1>2. b \in 0..Len(h) /\ (Paired(h) /\ b > 0 => h[b].speaker # "call")
  BY <1>1, BoundaryIsClean
<1>3. Split(h) = IF b < MinCompress THEN 0 ELSE b
  BY DEF Split, index
<1> QED BY <1>0, <1>2, <1>3

-----------------------------------------------------------------------------
(* Types                                                                   *)

(* What the history is made of, counted in full.                            *)
HistoryOK ==
  /\ history \in Seq(Entries) /\ pendingOperations \in Seq(Entries)
  /\ isCompressing \in BOOLEAN
  /\ total \in Nat /\ total >= Len(history)

(* A retry is the only second attempt.                                      *)
Attempts(pc) ==
  IF pc \in {"new", "noted", "waiting", "joining", "deciding", "compressing"} THEN {0}
  ELSE IF pc \in {"sending", "recompressing", "rechecking", "retrying"} THEN {0, 1}
  ELSE {0, 1, 2}
SenderOK(r) ==
  /\ r.attempt \in Attempts(r.pc) /\ r.request \in Nat
  /\ r.pc \in Summarising => r.summarised \in Seq(Said) /\ r.kept \in Seq(Entries)
SendersOK == \A m \in Messages : SenderOK(send[m])

(* What a message adds to the history is a sequence of entries.            *)
LEMMA ContentIsEntries ==
  ASSUME NEW m \in Messages
  PROVE  /\ Content(m) \in Seq(Entries) /\ <<Note(m)>> \in Seq(Entries)
         /\ PendingTokens(m) \in Nat
         /\ \A n \in Nat \ {0} : Reply(m, n) \in Entries
<1>1. \A kind \in Kinds : << <<m, kind>> >> \in Seq(Said)
  BY DEF Said
<1>2. \A sp \in Speakers, kind \in Kinds, n \in Nat \ {0} :
        Entry(sp, << <<m, kind>> >>, n) \in Entries
  BY <1>1 DEF Entry, Entries
<1>3. Content(m) \in Seq(Entries)
  BY <1>2 DEF Content, Speakers, Kinds
<1>4. <<Note(m)>> \in Seq(Entries)
  <2>1. Note(m) \in Entries
    BY <1>2 DEF Note, Speakers, Kinds
  <2> QED BY <2>1
<1>5. \A n \in Nat \ {0} : Reply(m, n) \in Entries
  BY <1>2 DEF Reply, Speakers, Kinds
<1>6. PendingTokens(m) \in Nat
  BY <1>3, LenProperties DEF PendingTokens
<1> QED BY <1>3, <1>4, <1>5, <1>6

(* What the entries of a history say.                                       *)
LEMMA SaysIs ==
  /\ \A h : Says(h) = FlattenSeq(Sayings(h))
  /\ \A e \in Entries : e.says \in Seq(Said)
BY DEF Says, Sayings, Entries

(* What is said in a history is a sequence of what can be said.             *)
LEMMA SaysType ==
  ASSUME NEW h \in Seq(Entries)
  PROVE  Says(h) \in Seq(Said)
BY SaysIs, SayConcat

-----------------------------------------------------------------------------
(* Without a clear() every entry of a run is counted, on top of the count;  *)
LEMMA CountedInFull ==
  ASSUME NEW t \in Nat, NEW ops \in Seq(Entries)
  PROVE  Counted(t, ops) \in Nat /\ Counted(t, ops) >= t + Len(ops)
<1>1. /\ Len(ops) \in Nat
      /\ \A i \in 1..Len(ops) : /\ ops[i].tokens \in Nat /\ ops[i].tokens # 0
                                /\ ~ IsClear(ops[i])
  <2>1. \A e \in Entries : e.tokens \in Nat /\ e.tokens # 0 /\ ~ IsClear(e)
    BY DEF Entries, Speakers, IsClear
  <2>2. Len(ops) \in Nat /\ \A i \in 1..Len(ops) : ops[i] \in Entries
    BY LenProperties
  <2> QED BY <2>1, <2>2
<1>2. SumTokens(ops) \in Nat /\ SumTokens(ops) >= Len(ops) - 0
  <2>1. Len(ops) \in Nat /\ 0 \in 0..Len(ops)
    BY <1>1
  <2> QED BY <1>1, <2>1, SumAtLeast
<1>3. Counted(t, ops) = t + SumTokens(ops)
  BY <1>1 DEF Counted
<1> QED BY <1>1, <1>2, <1>3

(* with one, every entry that is left is, those it has removed or not.     *)
LEMMA CountedFromClear ==
  ASSUME NEW t \in Nat, NEW p \in Seq(Entries), NEW r \in Seq(Entries)
  PROVE  /\ Counted(t, p \o <<Clear>> \o r) \in Nat
         /\ Counted(t, p \o <<Clear>> \o r) >= Len(r)
<1> DEFINE ops == p \o <<Clear>> \o r
           n == Len(p) + 1
<1>0. Len(p) \in Nat /\ Len(r) \in Nat
  BY LenProperties
<1>1. Len(ops) = n + Len(r)
  OBVIOUS
<1>2. \A i \in 1..Len(ops) :
        ops[i] = IF i <= Len(p) THEN p[i] ELSE IF i = n THEN Clear ELSE r[i - n]
  OBVIOUS
<1>3. \A e \in Entries : e.tokens \in Nat /\ e.tokens # 0
  BY DEF Entries
<1>4. Clear.tokens = 0 /\ IsClear(Clear)
  BY DEF Clear, IsClear
<1>5. \A i \in 1..Len(p) : p[i] \in Entries
  OBVIOUS
<1>6. \A i \in 1..Len(r) : r[i] \in Entries
  OBVIOUS
<1> HIDE DEF ops
<1>7. \A i \in 1..Len(ops) : ops[i].tokens \in Nat /\ (i > n => ops[i].tokens # 0)
  <2> TAKE i \in 1..Len(ops)
  <2>1. CASE i \in 1..Len(p)
    BY <2>1, <1>0, <1>2, <1>3, <1>5
  <2>2. CASE i = n
    BY <2>2, <1>0, <1>2, <1>4
  <2>3. CASE i - n \in 1..Len(r)
    BY <2>3, <1>0, <1>2, <1>3, <1>6
  <2> QED BY <1>0, <1>1, <2>1, <2>2, <2>3
<1>8. Len(ops) \in Nat /\ n \in 0..Len(ops)
  BY <1>0, <1>1
<1>9. SumTokens(ops) \in Nat /\ SumTokens(ops) >= Len(ops) - n
  BY <1>7, <1>8, SumAtLeast
<1>10. Counted(t, ops) = SumTokens(ops)
  <2>1. n \in 1..Len(ops) /\ ops[n] = Clear
    BY <1>0, <1>1, <1>2
  <2>2. Counted(t, ops) = 0 + SumTokens(ops)
    BY <2>1, <1>4 DEF Counted
  <2> QED BY <2>2, <1>9
<1> QED BY <1>0, <1>1, <1>9, <1>10 DEF ops

(* What a step does to the history, the queue and the count.                *)
Adding(ops) == ops \in Seq(Entries) /\ Perform(ops)
Ending == EndCompression(<<>>)
Rebuilding(m) == EndCompression(Rebuilt(m))
Starting == Perform(<<Clear>>) /\ ~ isCompressing
Locking == isCompressing' = TRUE /\ UNCHANGED <<history, total, pendingOperations>>

(* What a compression puts in place of the history.                         *)
RebuiltEntries(m) ==
  << Entry("human", send[m].summarised, 1), Entry("ai", <<>>, 1) >> \o send[m].kept

(* applyCompression is a clear() followed by additions.                    *)
LEMMA RebuiltIs ==
  ASSUME NEW m, send[m].summarised \in Seq(Said), send[m].kept \in Seq(Entries)
  PROVE  /\ RebuiltEntries(m) \in Seq(Entries)
         /\ Rebuilt(m) = <<Clear>> \o RebuiltEntries(m)
<1>1. Entry("human", send[m].summarised, 1) \in Entries /\ Entry("ai", <<>>, 1) \in Entries
  BY DEF Entry, Entries, Speakers
<1> DEFINE a == Entry("human", send[m].summarised, 1)  b == Entry("ai", <<>>, 1)
           k == send[m].kept
<1> HIDE DEF a, b, k
<1>2. a \in Entries /\ b \in Entries /\ k \in Seq(Entries)
  BY <1>1 DEF a, b, k
<1>3. << a, b >> \o k \in Seq(Entries)
  BY <1>2
<1>4. << Clear, a, b >> \o k = <<Clear>> \o (<< a, b >> \o k)
  BY <1>2
<1> QED BY <1>3, <1>4 DEF RebuiltEntries, Rebuilt, a, b, k

(* The history, the queue and the count after each: what is added goes to   *)
(* the queue or to the history,                                             *)
LEMMA AddingHistory ==
  ASSUME HistoryOK, NEW ops, Adding(ops)
  PROVE  /\ ops \in Seq(Entries)
         /\ \/ history' = history /\ pendingOperations' = pendingOperations \o ops
               /\ total' = total
            \/ history' = history \o ops /\ pendingOperations' = pendingOperations
               /\ total' = Counted(total, ops)
         /\ isCompressing' = isCompressing
<1>1. After(history, ops) = history \o ops
  BY AfterAdding DEF Adding
<1> QED BY <1>1 DEF Adding, Perform

(* endCompression alone moves the queue into the history,                  *)
LEMMA EndingHistory ==
  ASSUME HistoryOK, Ending
  PROVE  /\ history' = history \o pendingOperations
         /\ pendingOperations' = <<>> /\ isCompressing' = FALSE
         /\ total' = Counted(total, pendingOperations)
<1>1. pendingOperations \o <<>> = pendingOperations
  BY DEF HistoryOK
<1> QED BY <1>1, AfterAdding DEF HistoryOK, Ending, EndCompression

(* with a summary it drops history and queue for what is rebuilt,          *)
LEMMA RebuildingHistory ==
  ASSUME HistoryOK, NEW m, Rebuilding(m),
         send[m].summarised \in Seq(Said), send[m].kept \in Seq(Entries)
  PROVE  /\ history' = RebuiltEntries(m)
         /\ pendingOperations' = <<>> /\ isCompressing' = FALSE
         /\ total' = Counted(total, pendingOperations \o <<Clear>> \o RebuiltEntries(m))
<1> DEFINE r == RebuiltEntries(m)
<1>1. r \in Seq(Entries) /\ Rebuilt(m) = <<Clear>> \o r /\ pendingOperations \in Seq(Entries)
  BY RebuiltIs DEF HistoryOK
<1> HIDE DEF r
<1>2. pendingOperations \o (<<Clear>> \o r) = pendingOperations \o <<Clear>> \o r
  BY <1>1
<1>3. After(history, pendingOperations \o <<Clear>> \o r) = r
  BY <1>1, AfterClearing
<1> QED BY <1>1, <1>2, <1>3 DEF r, Rebuilding, EndCompression

(* and resetChat empties the history.                                      *)
LEMMA StartingHistory ==
  ASSUME HistoryOK, Starting
  PROVE  /\ history' = <<>>
         /\ pendingOperations' = pendingOperations /\ isCompressing' = isCompressing
         /\ total' = Counted(total, <<Clear>>)
<1>1. <<>> \in Seq(Entries) /\ <<>> \o <<Clear>> \o <<>> = <<Clear>>
  OBVIOUS
<1>2. After(history, <<>> \o <<Clear>> \o <<>>) = <<>>
  BY <1>1, AfterClearing
<1>3. After(history, <<Clear>>) = <<>>
  BY <1>1, <1>2
<1> QED BY <1>3 DEF Starting, Perform

(* Each of them keeps HistoryOK: an addition, queued or not,                *)
LEMMA AddingOK ==
  ASSUME HistoryOK, NEW ops, Adding(ops)
  PROVE  HistoryOK'
<1>0. ops \in Seq(Entries)
  BY DEF Adding
<1>1. history \o ops \in Seq(Entries) /\ pendingOperations \o ops \in Seq(Entries)
      /\ Len(history \o ops) = Len(history) + Len(ops)
      /\ Len(history) \in Nat /\ Len(ops) \in Nat
  BY <1>0, LenProperties DEF HistoryOK
<1>2. Counted(total, ops) \in Nat /\ Counted(total, ops) >= Len(history) + Len(ops)
  <2>1. total \in Nat /\ total >= Len(history)
    BY DEF HistoryOK
  <2>2. Counted(total, ops) \in Nat /\ Counted(total, ops) >= total + Len(ops)
    BY <1>0, <2>1, CountedInFull
  <2>3. Len(history) \in Nat /\ Len(ops) \in Nat
    BY <1>1
  <2> QED BY <2>1, <2>2, <2>3
<1>3. CASE history' = history /\ pendingOperations' = pendingOperations \o ops
           /\ total' = total
  BY <1>1, <1>3, AddingHistory DEF HistoryOK
<1>4. CASE history' = history \o ops /\ pendingOperations' = pendingOperations
           /\ total' = Counted(total, ops)
  BY <1>1, <1>2, <1>4, AddingHistory DEF HistoryOK
<1> QED BY <1>3, <1>4, AddingHistory

(* the end of a compression that has failed or had nothing to do,          *)
LEMMA EndingOK ==
  ASSUME HistoryOK, Ending
  PROVE  HistoryOK'
<1> DEFINE q == pendingOperations
<1>0. q \in Seq(Entries) /\ history \in Seq(Entries) /\ total \in Nat /\ total >= Len(history)
  BY DEF HistoryOK
<1>1. history \o q \in Seq(Entries) /\ Len(history \o q) = Len(history) + Len(q)
      /\ Len(history) \in Nat /\ Len(q) \in Nat
  BY <1>0, LenProperties
<1>2. Counted(total, q) \in Nat /\ Counted(total, q) >= Len(history) + Len(q)
  BY <1>0, <1>1, CountedInFull
<1>3. <<>> \in Seq(Entries)
  OBVIOUS
<1> QED BY <1>1, <1>2, <1>3, EndingHistory DEF HistoryOK

(* a summary that replaces the history,                                    *)
LEMMA RebuildingOK ==
  ASSUME HistoryOK, NEW m, Rebuilding(m),
         send[m].summarised \in Seq(Said), send[m].kept \in Seq(Entries)
  PROVE  HistoryOK'
<1> DEFINE r == RebuiltEntries(m)  q == pendingOperations
           n == Counted(total, q \o <<Clear>> \o r)
<1>1. r \in Seq(Entries)
  BY RebuiltIs
<1>2. q \in Seq(Entries) /\ total \in Nat
  BY DEF HistoryOK
<1> HIDE DEF r
<1>3. n \in Nat /\ n >= Len(r)
  BY <1>1, <1>2, CountedFromClear
<1>4. /\ history' = r /\ pendingOperations' = <<>> /\ isCompressing' = FALSE
      /\ total' = n
  BY RebuildingHistory DEF r
<1> HIDE DEF n
<1>5. <<>> \in Seq(Entries)
  OBVIOUS
<1> QED BY <1>1, <1>3, <1>4, <1>5 DEF HistoryOK

(* a restart,                                                              *)
LEMMA StartingOK ==
  ASSUME HistoryOK, Starting
  PROVE  HistoryOK'
<1>1. <<>> \in Seq(Entries) /\ <<>> \o <<Clear>> \o <<>> = <<Clear>> /\ Len(<<>>) = 0
  OBVIOUS
<1>2. Counted(total, <<>> \o <<Clear>> \o <<>>) \in Nat
  BY <1>1, CountedFromClear DEF HistoryOK
<1>3. Counted(total, <<Clear>>) \in Nat
  BY <1>1, <1>2
<1> QED BY <1>1, <1>3, StartingHistory DEF HistoryOK

(* the begin of a compression,                                             *)
LEMMA LockingOK ==
  ASSUME HistoryOK, Locking
  PROVE  HistoryOK'
BY DEF HistoryOK, Locking

(* and a step that leaves the history alone.                               *)
LEMMA StillOK ==
  ASSUME HistoryOK, UNCHANGED serviceVars
  PROVE  HistoryOK'
BY DEF HistoryOK, serviceVars

Others(m) == \A x \in Messages \ {m} : send'[x] = send[x]

(* What a message adds when its stream ends.                                *)
TurnEntries(m, reply, n) ==
  Content(m) \o IF reply = "text" THEN << Reply(m, n) >> ELSE <<>>

SaysNote(m) ==
  Adding(<< Note(m) >>) /\ send[m].pc = "new" /\ send'[m].pc = "noted"
SaysTurn(m) ==
  /\ send[m].pc = "streaming" /\ send'[m].pc \in {"done", "called"}
  /\ \E reply \in {"text", "calls"}, n \in Nat \ {0} : Adding(TurnEntries(m, reply, n))
Summarises(m) ==
  /\ Locking
  /\ send'[m].pc \in Summarising
  /\ send'[m].summarised = Says(SubSeq(history, 1, Split(history)))
  /\ send'[m].kept = SubSeq(history, Split(history) + 1, Len(history))
Replaces(m) ==
  Rebuilding(m) /\ send[m].pc \in Summarising /\ send'[m].pc \notin Summarising
Releases(m) ==
  Ending /\ send'[m].pc \notin Summarising
Waits(m) ==
  UNCHANGED serviceVars /\ send'[m].pc \notin Summarising

(* A step of a message, as far as the history is concerned.                 *)
StepOf(m) ==
  /\ Others(m) /\ SenderOK(send'[m])
  /\ send[m].pc \notin Ended /\ send'[m].pc # "new"
  /\ send[m].pc = "new" => ClientReady(m)
  /\ \/ SaysNote(m) \/ SaysTurn(m) \/ Summarises(m) \/ Replaces(m)
     \/ Releases(m) \/ Waits(m)

Restart ==
  /\ Starting
  /\ \A m \in Messages :
       /\ send[m].pc \in {"new"} \cup Ended
       /\ send'[m].pc = (IF send[m].pc = "new" THEN "new" ELSE "forgotten")
       /\ SenderOK(send'[m])

TypeInv == LockInv /\ HistoryOK /\ SendersOK

(* Goto keeps what a sender has counted and kept.                           *)
LEMMA GotoStep ==
  ASSUME SendOK, NEW m \in Messages, SenderOK(send[m]), NEW pc, Goto(m, pc),
         Attempts(send[m].pc) \subseteq Attempts(pc), pc \notin Summarising
  PROVE  Others(m) /\ send'[m].pc = pc /\ SenderOK(send'[m])
BY DEF SendOK, Goto, NewSend, Others, SenderOK

(* A request is at most the second attempt, and as large as the history.   *)
LEMMA RequestStep ==
  ASSUME SendOK, NEW m \in Messages, SenderOK(send[m]), Request(m),
         history \in Seq(Entries), send[m].pc \in {"sending", "rechecking"}
  PROVE  Others(m) /\ send'[m].pc = "streaming" /\ SenderOK(send'[m])
<1>1. Len(history) + PendingTokens(m) \in Nat
  BY ContentIsEntries, LenProperties
<1>2. send[m].attempt \in {0, 1}
  BY DEF SenderOK, Attempts
<1>3. /\ send'[m].pc = "streaming" /\ send'[m].attempt = send[m].attempt + 1
      /\ send'[m].request = Len(history) + PendingTokens(m)
      /\ Others(m)
  BY DEF Request, SendOK, NewSend, Others
<1> QED BY <1>1, <1>2, <1>3 DEF SenderOK, Attempts, Summarising

(* What a compression is to summarise and to keep are parts of the history. *)
LEMMA PartsOfHistory ==
  ASSUME HistoryOK
  PROVE  /\ SubSeq(history, 1, Split(history)) \in Seq(Entries)
         /\ Says(SubSeq(history, 1, Split(history))) \in Seq(Said)
         /\ SubSeq(history, Split(history) + 1, Len(history)) \in Seq(Entries)
<1>1. history \in Seq(Entries) /\ Len(history) \in Nat
  BY LenProperties DEF HistoryOK
<1>2. Split(history) \in 0..Len(history)
  BY <1>1, SplitIsClean
<1>3. \A a \in 1..(Len(history) + 1), b \in 0..Len(history) :
        SubSeq(history, a, b) \in Seq(Entries)
  BY <1>1
<1>4. /\ SubSeq(history, 1, Split(history)) \in Seq(Entries)
      /\ SubSeq(history, Split(history) + 1, Len(history)) \in Seq(Entries)
  BY <1>1, <1>2, <1>3
<1> QED BY <1>4, SaysType

(* A compression begins with two parts of the history.                     *)
LEMMA BeginStep ==
  ASSUME SendOK, HistoryOK, NEW m \in Messages, SenderOK(send[m]),
         NEW pc \in Summarising, BeginCompression(m, pc),
         Attempts(send[m].pc) \subseteq Attempts(pc)
  PROVE  Others(m) /\ SenderOK(send'[m]) /\ Summarises(m)
<1>1. /\ send'[m].pc = pc /\ Others(m)
      /\ send'[m].attempt = send[m].attempt /\ send'[m].request = send[m].request
      /\ send'[m].summarised = Says(SubSeq(history, 1, Split(history)))
      /\ send'[m].kept = SubSeq(history, Split(history) + 1, Len(history))
  BY DEF BeginCompression, SendOK, NewSend, Others
<1>2. Locking
  BY DEF BeginCompression, Locking
<1>3. SenderOK(send'[m])
  BY <1>1, PartsOfHistory DEF SenderOK
<1> QED BY <1>1, <1>2, <1>3 DEF Summarises

(* Every step of the program is one of these.                               *)
LEMMA StepsOfNext ==
  ASSUME TypeInv, Next
  PROVE  Restart \/ \E m \in Messages : StepOf(m)
<1> USE DEF Waiting, Ended, Summarising
<1>0. SendOK /\ HistoryOK /\ \A m \in Messages : SenderOK(send[m])
  BY DEF TypeInv, LockInv, SendersOK
<1>2. ASSUME NEW m \in Messages, AddNote(m) PROVE StepOf(m)
  <2>1. Others(m) /\ send'[m].pc = "noted" /\ SenderOK(send'[m])
    BY <1>0, <1>2, GotoStep DEF AddNote, Attempts
  <2> QED BY <2>1, <1>2, ContentIsEntries DEF AddNote, StepOf, SaysNote, Adding
<1>3. ASSUME NEW m \in Messages, SendMessageStream(m) PROVE StepOf(m)
  <2>1. Others(m) /\ send'[m].pc = "waiting" /\ SenderOK(send'[m])
    BY <1>0, <1>3 DEF SendMessageStream, SendOK, NewSend, Others, SenderOK, Attempts
  <2> QED BY <2>1, <1>3 DEF SendMessageStream, StepOf, Waits
<1>4. ASSUME NEW m \in Messages, CheckCompression(m) PROVE StepOf(m)
  <2>1. Others(m) /\ send'[m].pc \in {"deciding", "joining"} /\ SenderOK(send'[m])
    BY <1>0, <1>4 DEF CheckCompression, SendOK, NewSend, Others, SenderOK, Attempts
  <2> QED BY <2>1, <1>4 DEF CheckCompression, StepOf, Waits
<1>5. ASSUME NEW m \in Messages, CompressionJoined(m) PROVE StepOf(m)
  <2>1. Others(m) /\ send'[m].pc \in {"deciding", "failed"} /\ SenderOK(send'[m])
    BY <1>0, <1>5, GotoStep DEF CompressionJoined, MayJoin, Attempts
  <2> QED BY <2>1, <1>5 DEF CompressionJoined, MayJoin, StepOf, Waits
<1>6. ASSUME NEW m \in Messages, Decide(m) PROVE StepOf(m)
  <2>1. CASE Goto(m, "sending") /\ (UNCHANGED serviceVars \/ Ending)
    <3>1. Others(m) /\ send'[m].pc = "sending" /\ SenderOK(send'[m])
      BY <1>0, <1>6, <2>1, GotoStep DEF Decide, Attempts
    <3> QED BY <3>1, <2>1, <1>6 DEF Decide, StepOf, Waits, Releases
  <2>2. CASE BeginCompression(m, "compressing")
    <3>1. Others(m) /\ SenderOK(send'[m]) /\ Summarises(m)
      BY <1>0, <1>6, <2>2, BeginStep DEF Decide, Attempts
    <3> QED BY <3>1, <1>6 DEF Decide, StepOf, Summarises
  <2> QED BY <2>1, <2>2, <1>6 DEF Decide, Ending
<1>7. ASSUME NEW m \in Messages, NEW ok \in BOOLEAN, CompressionSettles(m, ok)
      PROVE  StepOf(m)
  <2>1. Others(m) /\ send'[m].pc \in {"sending", "failed"} /\ SenderOK(send'[m])
    BY <1>0, <1>7 DEF CompressionSettles, SendOK, NewSend, Others, SenderOK, Attempts
  <2> QED BY <2>1, <1>7 DEF CompressionSettles, StepOf, Replaces, Releases, Rebuilding, Ending
<1>8. ASSUME NEW m \in Messages, EnforceContextWindow(m) PROVE StepOf(m)
  <2>1. CASE Request(m) /\ UNCHANGED serviceVars
    <3>1. Others(m) /\ send'[m].pc = "streaming" /\ SenderOK(send'[m])
      BY <1>0, <1>8, <2>1, RequestStep DEF EnforceContextWindow, HistoryOK
    <3> QED BY <3>1, <2>1, <1>8 DEF EnforceContextWindow, StepOf, Waits
  <2>2. CASE EndCompression(<<>>) /\ Goto(m, "rechecking")
    <3>1. Others(m) /\ send'[m].pc = "rechecking" /\ SenderOK(send'[m])
      BY <1>0, <1>8, <2>2, GotoStep DEF EnforceContextWindow, Attempts
    <3> QED BY <3>1, <2>2, <1>8 DEF EnforceContextWindow, StepOf, Releases, Ending
  <2>3. CASE BeginCompression(m, "recompressing")
    <3>1. Others(m) /\ SenderOK(send'[m]) /\ Summarises(m)
      BY <1>0, <1>8, <2>3, BeginStep DEF EnforceContextWindow, Attempts
    <3> QED BY <3>1, <1>8 DEF EnforceContextWindow, StepOf, Summarises
  <2> QED BY <1>8, <2>1, <2>2, <2>3 DEF EnforceContextWindow
<1>9. ASSUME NEW m \in Messages, NEW ok \in BOOLEAN, WindowCompressionSettles(m, ok)
      PROVE  StepOf(m)
  <2>1. Others(m) /\ send'[m].pc \in {"rechecking", "failed"} /\ SenderOK(send'[m])
    BY <1>0, <1>9 DEF WindowCompressionSettles, SendOK, NewSend, Others, SenderOK, Attempts
  <2> QED BY <2>1, <1>9
      DEF WindowCompressionSettles, StepOf, Replaces, Releases, Rebuilding, Ending
<1>10. ASSUME NEW m \in Messages, Recheck(m) PROVE StepOf(m)
  <2>1. Others(m) /\ send'[m].pc \in {"streaming", "failed"} /\ SenderOK(send'[m])
    BY <1>0, <1>10, GotoStep, RequestStep DEF Recheck, HistoryOK, Attempts
  <2> QED BY <2>1, <1>10 DEF Recheck, StepOf, Waits
<1>11. ASSUME NEW m \in Messages, NEW reply \in {"text", "calls"}, NEW usage,
              StreamEnds(m, reply, usage)
       PROVE  StepOf(m)
  <2>1. Others(m) /\ send'[m].pc \in {"done", "called"} /\ SenderOK(send'[m])
    BY <1>0, <1>11, GotoStep DEF StreamEnds, Attempts
  <2> DEFINE n == IF usage THEN send[m].request + 1 ELSE 1
  <2>2. n \in Nat \ {0}
    BY <1>0 DEF SenderOK
  <2>3. Perform(TurnEntries(m, reply, n))
    BY <1>11 DEF StreamEnds, TurnEntries
  <2> HIDE DEF n
  <2>4. TurnEntries(m, reply, n) \in Seq(Entries)
    <3>1. Content(m) \in Seq(Entries) /\ Reply(m, n) \in Entries
      BY <2>2, ContentIsEntries
    <3>2. << Reply(m, n) >> \in Seq(Entries) /\ <<>> \in Seq(Entries)
      BY <3>1
    <3> QED BY <3>1, <3>2, ConcatProperties DEF TurnEntries
  <2> QED BY <2>1, <2>2, <2>3, <2>4, <1>11 DEF StreamEnds, StepOf, SaysTurn, Adding
<1>12. ASSUME NEW m \in Messages, StreamInvalid(m) PROVE StepOf(m)
  <2>1. Others(m) /\ send'[m].pc \in {"retrying", "failed"} /\ SenderOK(send'[m])
    BY <1>0, <1>12 DEF StreamInvalid, Goto, SendOK, NewSend, Others, SenderOK, Attempts
  <2> QED BY <2>1, <1>12 DEF StreamInvalid, StepOf, Waits
<1>13. ASSUME NEW m \in Messages, StreamFails(m) PROVE StepOf(m)
  <2>1. Others(m) /\ send'[m].pc = "failed" /\ SenderOK(send'[m])
    BY <1>0, <1>13, GotoStep DEF StreamFails, Attempts
  <2> QED BY <2>1, <1>13 DEF StreamFails, StepOf, Waits
<1>14. ASSUME NEW m \in Messages, RetryDue(m) PROVE StepOf(m)
  <2>1. Others(m) /\ send'[m].pc = "sending" /\ SenderOK(send'[m])
    BY <1>0, <1>14, GotoStep DEF RetryDue, Attempts
  <2> QED BY <2>1, <1>14 DEF RetryDue, StepOf, Waits
<1>15. ASSUME ClearHistory PROVE Restart
  <2>1. ~ isCompressing
    BY <1>15 DEF ClearHistory, TypeInv, LockInv, LockReleased
  <2>2. Starting
    BY <1>15, <2>1 DEF ClearHistory, Starting
  <2>3. \A m \in Messages :
          /\ send[m].pc \in {"new"} \cup Ended
          /\ send'[m].pc = (IF send[m].pc = "new" THEN "new" ELSE "forgotten")
          /\ SenderOK(send'[m])
    BY <1>0, <1>15 DEF ClearHistory, SendOK, NewSend, SenderOK, Attempts
  <2> QED BY <2>2, <2>3 DEF Restart
<1> QED
  BY <1>2, <1>3, <1>4, <1>5, <1>6, <1>7, <1>8, <1>9, <1>10, <1>11,
     <1>12, <1>13, <1>14, <1>15 DEF Next, ClientEvent, Progress, ServerEvent

(* Every step keeps the types and the count.                                *)
LEMMA TypeStep == TypeInv /\ [Next]_vars => TypeInv'
<1> SUFFICES ASSUME TypeInv, [Next]_vars PROVE TypeInv'
  OBVIOUS
<1>0. LockInv' /\ HistoryOK /\ SendersOK
  BY LockStep DEF TypeInv
<1>1. CASE UNCHANGED vars
  BY <1>0, <1>1, StillOK DEF vars, serviceVars, SendersOK, TypeInv
<1>2. ASSUME NEW m \in Messages, StepOf(m) PROVE TypeInv'
  <2>1. SendersOK'
    BY <1>0, <1>2 DEF StepOf, Others, SendersOK
  <2>2. HistoryOK'
    <3>1. CASE SaysNote(m)
      BY <1>0, <3>1, AddingOK DEF SaysNote
    <3>2. CASE SaysTurn(m)
      BY <1>0, <3>2, AddingOK DEF SaysTurn
    <3>3. CASE Summarises(m)
      BY <1>0, <3>3, LockingOK DEF Summarises
    <3>4. CASE Replaces(m)
      BY <1>0, <3>4, RebuildingOK DEF Replaces, SendersOK, SenderOK
    <3>5. CASE Releases(m)
      BY <1>0, <3>5, EndingOK DEF Releases
    <3>6. CASE Waits(m)
      BY <1>0, <3>6, StillOK DEF Waits
    <3> QED BY <1>2, <3>1, <3>2, <3>3, <3>4, <3>5, <3>6 DEF StepOf
  <2> QED BY <1>0, <2>1, <2>2 DEF TypeInv
<1>3. ASSUME Restart PROVE TypeInv'
  BY <1>0, <1>3, StartingOK DEF Restart, SendersOK, TypeInv
<1> QED BY <1>1, <1>2, <1>3, StepsOfNext

(* A chat starts from entries.                                             *)
LEMMA PastIsEntries ==
  ASSUME NEW h \in Past
  PROVE  h \in Seq(Entries)
<1> DEFINE Before == [speaker : Speakers, says : Seq(SaidBefore), tokens : Nat \ {0}]
<1>1. h \in Seq(Before)
  BY PastOK
<1>2. Before \subseteq Entries
  <2>1. Seq(SaidBefore) \subseteq Seq(Said)
    BY DEF Said
  <2> QED BY <2>1 DEF Entries
<1> HIDE DEF Before
<1> QED BY <1>1, <1>2

(* The initial states are well typed, and their history is counted.        *)
LEMMA TypeInit == Init => TypeInv
<1> SUFFICES ASSUME Init PROVE TypeInv
  OBVIOUS
<1>1. LockInv
  BY DEF Init, LockInv, SendOK, LockReleased, NewSend
<1>2. history \in Seq(Entries)
  BY PastIsEntries DEF Init
<1>3. total \in Nat /\ total >= Len(history)
  <2>1. \A e \in Entries : e.tokens \in Nat /\ e.tokens # 0
    BY DEF Entries
  <2>2. Len(history) \in Nat /\ \A i \in 1..Len(history) : history[i] \in Entries
    BY <1>2, LenProperties
  <2>3. 0 \in 0..Len(history)
    BY <2>2
  <2>4. SumTokens(history) \in Nat /\ SumTokens(history) >= Len(history) - 0
    BY <2>1, <2>2, <2>3, SumAtLeast
  <2> QED BY <2>2, <2>4 DEF Init
<1>4. SendersOK
  BY DEF Init, NewSend, SendersOK, SenderOK, Attempts, Summarising
<1>5. <<>> \in Seq(Entries)
  OBVIOUS
<1> QED BY <1>1, <1>2, <1>3, <1>4, <1>5 DEF TypeInv, HistoryOK, Init

(* The state is well typed: no message is attempted a third time, however   *)
(* compressions come between its attempts, and no clear() is ever queued.   *)
THEOREM TypeCorrect == Spec => []TypeOK
<1>1. TypeInv => TypeOK
  <2> SUFFICES ASSUME TypeInv PROVE TypeOK
    OBVIOUS
  <2>1. SendOK /\ HistoryOK
    BY DEF TypeInv, LockInv
  <2>2. \A m \in Messages : send[m].attempt \in 0..2
    BY DEF TypeInv, SendersOK, SenderOK, Attempts
  <2>3. \A e \in Entries : IsEntry(e, Speakers) /\ IsEntry(e, Speakers \cup {"clear"})
    BY DEF Entries, IsEntry
  <2>4. /\ \A i \in 1..Len(history) : history[i] \in Entries
        /\ \A i \in 1..Len(pendingOperations) : pendingOperations[i] \in Entries
    BY <2>1 DEF HistoryOK
  <2> QED BY <2>1, <2>2, <2>3, <2>4 DEF TypeOK, HistoryOK
<1> QED BY <1>1, TypeInit, TypeStep, PTL DEF Spec

(* The token count that decides about compression and about the context    *)
(* window never falls short of the history, through any number of clears,  *)
(* queued additions and overlapping compressions.                          *)
THEOREM CountIsFull == Spec => []NeverUndercounts
<1>1. TypeInv => NeverUndercounts
  BY DEF TypeInv, HistoryOK, NeverUndercounts
<1> QED BY <1>1, TypeInit, TypeStep, PTL DEF Spec

(* A request only leaves after enforceContextWindow has found that it      *)
(* fits: in the same step.                                                 *)
LEMMA RequestOfNext ==
  ASSUME TypeInv, Next, NEW m \in Messages,
         send'[m].pc = "streaming", send[m].pc # "streaming"
  PROVE  Fits(m)
<1> USE DEF TypeInv, LockInv, SendOK, NewSend
<1>1. ASSUME NEW x \in Messages, AddNote(x) \/ SendMessageStream(x) PROVE FALSE
  BY <1>1 DEF AddNote, Goto, SendMessageStream
<1>2. ASSUME NEW x \in Messages, CheckCompression(x) \/ CompressionJoined(x) PROVE FALSE
  BY <1>2 DEF CheckCompression, CompressionJoined, Goto
<1>3. ASSUME NEW x \in Messages, Decide(x) PROVE FALSE
  BY <1>3 DEF Decide, Goto, BeginCompression
<1>4. ASSUME NEW x \in Messages, NEW ok \in BOOLEAN,
             CompressionSettles(x, ok) \/ WindowCompressionSettles(x, ok)
      PROVE  FALSE
  BY <1>4 DEF CompressionSettles, WindowCompressionSettles
<1>5. ASSUME NEW x \in Messages, EnforceContextWindow(x) PROVE Fits(m)
  BY <1>5 DEF EnforceContextWindow, Request, Goto, BeginCompression
<1>6. ASSUME NEW x \in Messages, Recheck(x) PROVE Fits(m)
  BY <1>6 DEF Recheck, Request, Goto
<1>7. ASSUME NEW x \in Messages, NEW reply \in {"text", "calls"}, NEW usage,
             StreamEnds(x, reply, usage)
      PROVE  FALSE
  BY <1>7 DEF StreamEnds, Goto
<1>8. ASSUME NEW x \in Messages, StreamInvalid(x) \/ StreamFails(x) \/ RetryDue(x)
      PROVE  FALSE
  BY <1>8 DEF StreamInvalid, StreamFails, RetryDue, Goto
<1>9. ASSUME ClearHistory PROVE FALSE
  BY <1>9 DEF ClearHistory
<1> QED
  BY <1>1, <1>2, <1>3, <1>4, <1>5, <1>6, <1>7, <1>8, <1>9
     DEF Next, ClientEvent, Progress, ServerEvent

(* A request never exceeds the context window, not even when a compression *)
(* or a retry came between the check and the request: for any limits,      *)
(* whatever other senders record.                                          *)
THEOREM RequestsFit == Spec => RequestFits
<1>1. ASSUME TypeInv, [Next]_vars
      PROVE  [\A m \in Messages : send'[m].pc = "streaming" /\ send[m].pc # "streaming" =>
                Len(history) + PendingTokens(m) <= Window]_vars
  <2>1. CASE UNCHANGED vars
    BY <2>1
  <2>2. CASE Next
    <3> SUFFICES ASSUME NEW m \in Messages,
                        send'[m].pc = "streaming", send[m].pc # "streaming"
                 PROVE  Len(history) + PendingTokens(m) <= Window
      OBVIOUS
    <3>1. total + PendingTokens(m) <= Window
      BY <1>1, <2>2, RequestOfNext DEF Fits
    <3>2. total \in Nat /\ total >= Len(history) /\ history \in Seq(Entries)
      BY <1>1 DEF TypeInv, HistoryOK
    <3>3. Len(history) \in Nat /\ PendingTokens(m) \in Nat
      BY <3>2, LenProperties, ContentIsEntries
    <3>4. Window \in Nat
      BY ConstantsOK
    <3> QED BY <3>1, <3>2, <3>3, <3>4
  <2> QED BY <1>1, <2>1, <2>2
<1> QED BY <1>1, TypeInit, TypeStep, PTL DEF Spec, RequestFits

(* Two histories with their tool calls in pairs make one.                   *)
LEMMA PairedConcat ==
  ASSUME NEW s \in Seq(Entries), NEW t \in Seq(Entries), Paired(s), Paired(t)
  PROVE  Paired(s \o t)
<1> DEFINE h == s \o t  n == Len(s)  k == Len(t)
<1>1. n \in Nat /\ k \in Nat /\ Len(h) = n + k
  BY LenProperties
<1>2. /\ \A i \in 1..n : h[i] = s[i]
      /\ \A i \in 1..k : h[n + i] = t[i]
  OBVIOUS
<1>3. /\ \A i \in 1..n : s[i].speaker = "call" => i < n /\ s[i + 1].speaker = "tool"
      /\ \A i \in 1..n : s[i].speaker = "tool" => i > 1 /\ s[i - 1].speaker = "call"
  BY DEF Paired
<1>4. /\ \A i \in 1..k : t[i].speaker = "call" => i < k /\ t[i + 1].speaker = "tool"
      /\ \A i \in 1..k : t[i].speaker = "tool" => i > 1 /\ t[i - 1].speaker = "call"
  BY DEF Paired
<1> HIDE DEF h, n, k
<1>5. ASSUME NEW i \in 1..Len(h)
      PROVE  /\ h[i].speaker = "call" => i < Len(h) /\ h[i + 1].speaker = "tool"
             /\ h[i].speaker = "tool" => i > 1 /\ h[i - 1].speaker = "call"
  <2>1. CASE i \in 1..n
    <3>1. h[i] = s[i] /\ (i < n => h[i + 1] = s[i + 1]) /\ (i > 1 => h[i - 1] = s[i - 1])
      BY <1>1, <1>2, <2>1
    <3> QED BY <1>1, <1>3, <2>1, <3>1
  <2>2. CASE i - n \in 1..k
    <3> DEFINE j == i - n
    <3>1. /\ h[i] = t[j] /\ (j < k => h[i + 1] = t[j + 1]) /\ (j > 1 => h[i - 1] = t[j - 1])
      <4>1. j \in 1..k /\ i = n + j
        BY <1>1, <2>2
      <4>2. j < k => j + 1 \in 1..k /\ i + 1 = n + (j + 1)
        BY <1>1, <4>1
      <4>3. j > 1 => j - 1 \in 1..k /\ i - 1 = n + (j - 1)
        BY <1>1, <4>1
      <4> HIDE DEF j
      <4> QED BY <1>2, <4>1, <4>2, <4>3
    <3>2. /\ t[j].speaker = "call" => j < k /\ t[j + 1].speaker = "tool"
          /\ t[j].speaker = "tool" => j > 1 /\ t[j - 1].speaker = "call"
      BY <1>4, <2>2
    <3>3. (j < k => i < Len(h)) /\ (j > 1 => i > 1)
      BY <1>1, <2>2
    <3> HIDE DEF j
    <3> QED BY <3>1, <3>2, <3>3
  <2> QED BY <1>1, <2>1, <2>2
<1>6. Paired(h)
  BY <1>5 DEF Paired
<1> QED BY <1>6 DEF h

(* So do the entries behind the split.                                      *)
LEMMA PairedTail ==
  ASSUME NEW h \in Seq(Entries), Paired(h)
  PROVE  Paired(SubSeq(h, Split(h) + 1, Len(h)))
<1> DEFINE b == Split(h)  n == Len(h)  t == SubSeq(h, b + 1, n)
<1>1. n \in Nat /\ b \in 0..n /\ (b > 0 => h[b].speaker # "call")
  BY SplitIsClean, LenProperties
<1> HIDE DEF b
<1>2. Len(t) = n - b /\ \A i \in 1..(n - b) : t[i] = h[b + i]
  BY <1>1
<1>3. /\ \A i \in 1..n : h[i].speaker = "call" => i < n /\ h[i + 1].speaker = "tool"
      /\ \A i \in 1..n : h[i].speaker = "tool" => i > 1 /\ h[i - 1].speaker = "call"
  BY DEF Paired
<1> HIDE DEF n, t
<1>4. ASSUME NEW i \in 1..(n - b)
      PROVE  /\ t[i].speaker = "call" => i < n - b /\ t[i + 1].speaker = "tool"
             /\ t[i].speaker = "tool" => i > 1 /\ t[i - 1].speaker = "call"
  <2>1. b + i \in 1..n /\ t[i] = h[b + i]
    BY <1>1, <1>2
  <2>2. t[i].speaker = "call" => b + i < n /\ h[(b + i) + 1].speaker = "tool"
    BY <1>3, <2>1
  <2>3. b + i < n => i < n - b /\ i + 1 \in 1..(n - b) /\ b + (i + 1) = (b + i) + 1
    BY <1>1
  <2>4. t[i].speaker = "tool" => b + i > 1 /\ h[(b + i) - 1].speaker = "call"
    BY <1>3, <2>1
  <2>5. i # 1 => i > 1 /\ i - 1 \in 1..(n - b) /\ b + (i - 1) = (b + i) - 1
    BY <1>1
  <2>6. i = 1 => (b + i) - 1 = b /\ (b + i > 1 => b > 0)
    BY <1>1
  <2>7. i = 1 => t[i].speaker # "tool"
    BY <2>4, <2>6, <1>1
  <2>8. t[i].speaker = "call" => i < n - b /\ t[i + 1].speaker = "tool"
    BY <1>2, <2>2, <2>3
  <2>9. t[i].speaker = "tool" => i > 1 /\ t[i - 1].speaker = "call"
    BY <1>2, <2>4, <2>5, <2>7
  <2> QED BY <2>8, <2>9
<1>5. Paired(t)
  BY <1>2, <1>4 DEF Paired
<1> QED BY <1>5 DEF t, n, b

(* An entry of its own that is no part of a pair,                          *)
LEMMA PairedEntry ==
  ASSUME NEW e \in Entries, e.speaker \notin {"call", "tool"}
  PROVE  Paired(<<e>>)
<1>1. Len(<<e>>) = 1 /\ <<e>>[1] = e
  OBVIOUS
<1> DEFINE s == <<e>>
<1> HIDE DEF s
<1>2. Len(s) = 1 /\ s[1] = e
  BY <1>1 DEF s
<1>3. Paired(s)
  BY <1>2 DEF Paired
<1> QED BY <1>3 DEF s

(* what a message brings with it,                                          *)
LEMMA PairedContent ==
  ASSUME NEW m \in Messages
  PROVE  Paired(<<Note(m)>>) /\ Paired(Content(m))
<1>1. <<Note(m)>>[1] \in Entries /\ <<Note(m)>>[1].speaker = "human"
  BY ContentIsEntries DEF Note, Entry
<1>2. Note(m) \in Entries /\ Note(m).speaker = "human"
  BY <1>1
<1>3. CASE Answers[m] = None
  <2> DEFINE e == Entry("human", << <<m, "question">> >>, 1)
  <2>1. Content(m) = <<e>>
    BY <1>3 DEF Content
  <2>2. e \in Entries /\ e.speaker = "human"
    <3>1. <<e>> \in Seq(Entries)
      BY <2>1, ContentIsEntries
    <3>2. e.speaker = "human"
      BY DEF Entry
    <3> HIDE DEF e
    <3>3. Len(<<e>>) = 1 /\ <<e>>[1] = e
      OBVIOUS
    <3>4. <<e>>[1] \in Entries
      BY <3>1, <3>3, ElementOfSeq
    <3> QED BY <3>2, <3>3, <3>4
  <2> HIDE DEF e
  <2> QED BY <2>1, <2>2, <1>2, PairedEntry
<1>4. CASE Answers[m] # None
  <2> DEFINE e == Entry("call", << <<m, "call">> >>, 1)
             f == Entry("tool", << <<m, "result">> >>, 1)
  <2>1. Content(m) = <<e, f>> /\ e.speaker = "call" /\ f.speaker = "tool"
    BY <1>4 DEF Content, Entry
  <2> HIDE DEF e, f
  <2> DEFINE s == <<e, f>>
  <2>2. Len(s) = 2 /\ s[1] = e /\ s[2] = f
    OBVIOUS
  <2> HIDE DEF s
  <2>3. Paired(s)
    BY <2>1, <2>2 DEF Paired
  <2> QED BY <2>1, <2>3, <1>2, PairedEntry DEF s
<1> QED BY <1>3, <1>4

(* nothing at all,                                                         *)
LEMMA PairedNothing == Paired(<<>>)
BY DEF Paired

(* a turn,                                                                 *)
LEMMA TurnIsPaired ==
  ASSUME NEW m \in Messages, NEW reply, NEW n \in Nat \ {0}
  PROVE  Paired(TurnEntries(m, reply, n))
<1> DEFINE r == Reply(m, n)
<1>1. r \in Entries /\ r.speaker = "ai" /\ Content(m) \in Seq(Entries)
  BY ContentIsEntries DEF Reply, Entry
<1> HIDE DEF r
<1>2. Paired(<<r>>) /\ Paired(<<>>) /\ <<r>> \in Seq(Entries) /\ <<>> \in Seq(Entries)
  BY <1>1, PairedEntry, PairedNothing
<1>3. Paired(Content(m) \o <<r>>) /\ Paired(Content(m) \o <<>>)
  BY <1>1, <1>2, PairedContent, PairedConcat
<1> QED BY <1>3 DEF TurnEntries, r

(* and a history rebuilt from a summary: all have their calls in pairs.    *)
LEMMA RebuiltIsPaired ==
  ASSUME NEW m, send[m].summarised \in Seq(Said), send[m].kept \in Seq(Entries),
         Paired(send[m].kept)
  PROVE  Paired(RebuiltEntries(m))
<1> DEFINE a == Entry("human", send[m].summarised, 1)  b == Entry("ai", <<>>, 1)
           k == send[m].kept
<1>1. /\ a \in Entries /\ a.speaker = "human" /\ b \in Entries /\ b.speaker = "ai"
      /\ k \in Seq(Entries) /\ Paired(k)
  BY DEF Entry, Entries, Speakers
<1>2. RebuiltEntries(m) = <<a, b>> \o k
  BY DEF RebuiltEntries
<1> HIDE DEF a, b, k
<1> DEFINE s == <<a, b>>
<1>3. Len(s) = 2 /\ s[1] = a /\ s[2] = b /\ s \in Seq(Entries)
  BY <1>1
<1> HIDE DEF s
<1>4. Paired(s)
  BY <1>1, <1>3 DEF Paired
<1> QED BY <1>1, <1>2, <1>3, <1>4, PairedConcat DEF s

(* The invariant: every run of entries on its way into the history has its  *)
(* tool calls in pairs, the queue and what compressions keep included.      *)
PairsInv ==
  /\ Paired(history) /\ Paired(pendingOperations)
  /\ \A m \in Messages : send[m].pc \in Summarising => Paired(send[m].kept)

(* Every step keeps the pairs: a split does not cut one, and the queue and *)
(* the history only get whole ones.                                        *)
LEMMA PairsStep == TypeInv /\ PairsInv /\ [Next]_vars => PairsInv'
<1> SUFFICES ASSUME TypeInv, PairsInv, [Next]_vars PROVE PairsInv'
  OBVIOUS
<1>0. HistoryOK /\ SendersOK /\ history \in Seq(Entries) /\ pendingOperations \in Seq(Entries)
  BY DEF TypeInv, HistoryOK
<1>1. CASE UNCHANGED vars
  BY <1>1 DEF vars, PairsInv
<1>2. ASSUME NEW m \in Messages, StepOf(m) PROVE PairsInv'
  <2> DEFINE Runs == Paired(history) /\ Paired(pendingOperations)
             Kept(x) == send[x].pc \in Summarising => Paired(send[x].kept)
  <2>0. \A x \in Messages \ {m} : Kept(x)'
    BY <1>2 DEF StepOf, Others, PairsInv
  <2>1. CASE SaysNote(m)
    <3>1. Adding(<<Note(m)>>) /\ Kept(m)'
      BY <2>1 DEF SaysNote, Summarising
    <3>2. Runs'
      <4> DEFINE ops == <<Note(m)>>
      <4>1. ops \in Seq(Entries) /\ Paired(ops) /\ Adding(ops)
        BY <3>1, PairedContent, ContentIsEntries
      <4> HIDE DEF ops
      <4> QED BY <1>0, <4>1, AddingHistory, PairedConcat DEF PairsInv
    <3> QED BY <2>0, <3>1, <3>2 DEF PairsInv
  <2>2. CASE SaysTurn(m)
    <3>1. Kept(m)'
      BY <2>2 DEF SaysTurn, Summarising
    <3>2. PICK ops \in Seq(Entries) : Adding(ops) /\ Paired(ops)
      BY <2>2, TurnIsPaired DEF SaysTurn, Adding
    <3>3. Runs'
      BY <1>0, <3>2, AddingHistory, PairedConcat DEF PairsInv
    <3> QED BY <2>0, <3>1, <3>3 DEF PairsInv
  <2>3. CASE Summarises(m)
    <3>1. Kept(m)'
      BY <1>0, <2>3, PairedTail DEF Summarises, PairsInv
    <3>2. Runs'
      BY <2>3 DEF Summarises, Locking, PairsInv
    <3> QED BY <2>0, <3>1, <3>2 DEF PairsInv
  <2>4. CASE Replaces(m)
    <3>1. Kept(m)'
      BY <2>4 DEF Replaces
    <3>2. /\ send[m].summarised \in Seq(Said) /\ send[m].kept \in Seq(Entries)
          /\ Paired(send[m].kept)
      BY <1>0, <2>4 DEF Replaces, SendersOK, SenderOK, PairsInv
    <3>3. Runs'
      BY <1>0, <2>4, <3>2, RebuildingHistory, RebuiltIsPaired, PairedNothing DEF Replaces
    <3> QED BY <2>0, <3>1, <3>3 DEF PairsInv
  <2>5. CASE Releases(m)
    <3>1. Kept(m)'
      BY <2>5 DEF Releases
    <3>2. Runs'
      BY <1>0, <2>5, EndingHistory, PairedConcat, PairedNothing DEF Releases, PairsInv
    <3> QED BY <2>0, <3>1, <3>2 DEF PairsInv
  <2>6. CASE Waits(m)
    <3>1. Kept(m)' /\ Runs'
      BY <2>6 DEF Waits, serviceVars, PairsInv
    <3> QED BY <2>0, <3>1 DEF PairsInv
  <2> QED BY <1>2, <2>1, <2>2, <2>3, <2>4, <2>5, <2>6 DEF StepOf
<1>3. ASSUME Restart PROVE PairsInv'
  <2>1. Paired(history') /\ Paired(pendingOperations')
    BY <1>0, <1>3, StartingHistory, PairedNothing DEF Restart, PairsInv
  <2>2. \A m \in Messages : send'[m].pc \notin Summarising
    BY <1>3 DEF Restart, Summarising
  <2> QED BY <2>1, <2>2 DEF PairsInv
<1> QED BY <1>1, <1>2, <1>3, StepsOfNext

(* The tool calls of a turn and their results stay next to each other:     *)
(* neither the end of a summary nor the queue comes between the two.       *)
THEOREM ToolPairsStay == Spec => []ToolPairsIntact
<1>1. Init => PairsInv
  BY PastOK, PairedNothing DEF Init, NewSend, PairsInv, Summarising
<1>2. PairsInv => ToolPairsIntact
  BY DEF PairsInv, ToolPairsIntact
<1> QED BY <1>1, <1>2, PairsStep, TypeInit, TypeStep, PTL DEF Spec

-----------------------------------------------------------------------------
(* What entries say                                                        *)

(* Histories behind each other say what they say, in that order.            *)
LEMMA SaysConcat ==
  ASSUME NEW s \in Seq(Entries), NEW t \in Seq(Entries)
  PROVE  Says(s \o t) = Says(s) \o Says(t)
<1>1. InTurn(s, t)
  BY SaysIs, SayConcat
<1> QED BY <1>1, SaysIs DEF InTurn

(* No entries say nothing,                                                 *)
LEMMA SaysNothing == Says(<<>>) = <<>>
BY SaysIs, SayNothing

(* and one says what is in it.                                             *)
LEMMA SaysOne ==
  ASSUME NEW e
  PROVE  Says(<<e>>) = e.says
BY SaysIs, SayOne

(* What was said: the values of a sequence.                                 *)
Uttered(u) == {u[i] : i \in 1..Len(u)}

(* Two sequences utter what either does.                                   *)
LEMMA UtteredConcat ==
  ASSUME NEW S, NEW u \in Seq(S), NEW v \in Seq(S)
  PROVE  Uttered(u \o v) = Uttered(u) \cup Uttered(v)
<1>0. Len(u) \in Nat /\ Len(v) \in Nat
  BY LenProperties
<1>1. Len(u \o v) = Len(u) + Len(v)
  OBVIOUS
<1>2. \A i \in 1..Len(u) : (u \o v)[i] = u[i]
  OBVIOUS
<1>3. \A i \in 1..Len(v) : (u \o v)[Len(u) + i] = v[i]
  OBVIOUS
<1> DEFINE w == u \o v
<1>4. /\ Len(w) = Len(u) + Len(v)
      /\ \A i \in 1..Len(u) : w[i] = u[i] /\ i \in 1..Len(w)
      /\ \A i \in 1..Len(v) : w[Len(u) + i] = v[i] /\ Len(u) + i \in 1..Len(w)
  BY <1>0, <1>1, <1>2, <1>3
<1> HIDE DEF w
<1>5. \A i \in 1..Len(w) : i \in 1..Len(u) \/ \E j \in 1..Len(v) : i = Len(u) + j
  <2> TAKE i \in 1..Len(w)
  <2>1. i \notin 1..Len(u) => i - Len(u) \in 1..Len(v) /\ i = Len(u) + (i - Len(u))
    BY <1>0, <1>4
  <2> QED BY <2>1
<1>6. Uttered(w) \subseteq Uttered(u) \cup Uttered(v)
  BY <1>4, <1>5 DEF Uttered
<1>7. Uttered(u) \cup Uttered(v) \subseteq Uttered(w)
  BY <1>4 DEF Uttered
<1> QED BY <1>6, <1>7 DEF w

(* Sequences without repetition that have nothing in common are one.        *)
LEMMA InjectiveConcat ==
  ASSUME NEW S, NEW u \in Seq(S), NEW v \in Seq(S)
  PROVE  IsInjective(u \o v) <=>
           IsInjective(u) /\ IsInjective(v) /\ Uttered(u) \cap Uttered(v) = {}
<1> DEFINE w == u \o v  n == Len(u)  k == Len(v)
<1>0. n \in Nat /\ k \in Nat /\ DOMAIN u = 1..n /\ DOMAIN v = 1..k
  BY LenProperties
<1>1. Len(w) = n + k /\ DOMAIN w = 1..(n + k)
  OBVIOUS
<1>2. /\ \A i \in 1..n : w[i] = u[i]
      /\ \A i \in 1..k : w[n + i] = v[i]
  OBVIOUS
<1> HIDE DEF w, n, k
<1>3. /\ \A i \in 1..n : i \in 1..(n + k)
      /\ \A i \in 1..k : n + i \in 1..(n + k)
      /\ \A i \in 1..(n + k) : i \in 1..n \/ \E j \in 1..k : i = n + j
      /\ \A i \in 1..k : \A j \in 1..k : n + i = n + j => i = j
      /\ \A i \in 1..n : \A j \in 1..k : i # n + j
  <2>1. \A i \in 1..(n + k) : i \in 1..n \/ \E j \in 1..k : i = n + j
    <3> TAKE i \in 1..(n + k)
    <3>1. i \notin 1..n => i - n \in 1..k /\ i = n + (i - n)
      BY <1>0
    <3> QED BY <3>1
  <2> QED BY <1>0, <2>1
<1>4. ASSUME IsInjective(u), IsInjective(v), Uttered(u) \cap Uttered(v) = {}
      PROVE  IsInjective(w)
  <2>1. \A i \in 1..n : \A j \in 1..k : u[i] # v[j]
    BY <1>4 DEF Uttered, n, k
  <2>2. /\ \A i \in 1..n : \A j \in 1..n : u[i] = u[j] => i = j
        /\ \A i \in 1..k : \A j \in 1..k : v[i] = v[j] => i = j
    BY <1>0, <1>4 DEF IsInjective
  <2> SUFFICES ASSUME NEW i \in 1..(n + k), NEW j \in 1..(n + k), w[i] = w[j]
               PROVE  i = j
    BY <1>1 DEF IsInjective
  <2>3. CASE i \in 1..n /\ j \in 1..n
    BY <2>2, <2>3, <1>2
  <2>4. CASE i \in 1..n /\ \E b \in 1..k : j = n + b
    BY <2>1, <2>4, <1>2
  <2>5. CASE j \in 1..n /\ \E b \in 1..k : i = n + b
    BY <2>1, <2>5, <1>2
  <2>6. CASE (\E b \in 1..k : i = n + b) /\ \E b \in 1..k : j = n + b
    BY <2>2, <2>6, <1>2
  <2> QED BY <2>3, <2>4, <2>5, <2>6, <1>3
<1>5. ASSUME IsInjective(w)
      PROVE  IsInjective(u) /\ IsInjective(v)
  <2>1. \A i \in 1..(n + k) : \A j \in 1..(n + k) : w[i] = w[j] => i = j
    BY <1>1, <1>5 DEF IsInjective
  <2>2. \A i \in 1..n : \A j \in 1..n : u[i] = u[j] => i = j
    BY <2>1, <1>2, <1>3
  <2>3. \A i \in 1..k : \A j \in 1..k : v[i] = v[j] => i = j
    BY <2>1, <1>2, <1>3
  <2> QED BY <1>0, <2>2, <2>3 DEF IsInjective
<1>6. ASSUME IsInjective(w)
      PROVE  Uttered(u) \cap Uttered(v) = {}
  <2> SUFFICES ASSUME NEW i \in 1..n, NEW j \in 1..k, u[i] = v[j] PROVE FALSE
    BY DEF Uttered, n, k
  <2> QED BY <1>1, <1>2, <1>3, <1>6 DEF IsInjective
<1> QED BY <1>4, <1>5, <1>6 DEF w

-----------------------------------------------------------------------------
(* What has been said, and what may not be said again.                      *)

Uttering(m, pc) ==
  {<<m, k>> : k \in {k \in Kinds : IF k = "note" THEN pc # "new" ELSE pc \in Ended}}
SaidNow == SaidBefore \cup UNION {Uttering(m, send[m].pc) : m \in Messages}

Once(u) == u \in Seq(Said) /\ IsInjective(u) /\ Uttered(u) \subseteq SaidNow

OnceInv ==
  /\ Once(Says(Recorded))
  /\ \A m \in Messages :
       send[m].pc \in Summarising => Once(send[m].summarised \o Says(send[m].kept))

(* What is recorded: the history, then what is queued.                     *)
LEMMA RecordedType ==
  ASSUME HistoryOK
  PROVE  /\ Recorded \in Seq(Entries) /\ Says(Recorded) \in Seq(Said)
         /\ Says(Recorded) = Says(history) \o Says(pendingOperations)
         /\ Says(history) \in Seq(Said) /\ Says(pendingOperations) \in Seq(Said)
<1>1. history \in Seq(Entries) /\ pendingOperations \in Seq(Entries)
  BY DEF HistoryOK
<1>2. history \o pendingOperations \in Seq(Entries)
  BY <1>1, ConcatProperties
<1> QED BY <1>1, <1>2, SaysType, SaysConcat DEF Recorded

(* What each change of the history makes of what is recorded.               *)
LEMMA AddingRecorded ==
  ASSUME TypeInv, NEW ops, Adding(ops)
  PROVE  Says(Recorded') = Says(Recorded) \o Says(ops)
<1>1. /\ history \in Seq(Entries) /\ pendingOperations \in Seq(Entries)
      /\ ops \in Seq(Entries) /\ (~ isCompressing => pendingOperations = <<>>)
  BY DEF TypeInv, HistoryOK, Adding, LockInv, LockReleased
<1>2. Recorded \in Seq(Entries)
  BY RecordedType DEF TypeInv
<1>3. Recorded' = Recorded \o ops
  <2>1. CASE isCompressing
    <3>1. history' = history /\ pendingOperations' = pendingOperations \o ops
      BY <2>1 DEF Adding, Perform
    <3>2. history \o (pendingOperations \o ops) = (history \o pendingOperations) \o ops
      BY <1>1, ConcatAssociative
    <3> QED BY <3>1, <3>2 DEF Recorded
  <2>2. CASE ~ isCompressing
    <3>1. history' = history \o ops /\ pendingOperations' = <<>> /\ pendingOperations = <<>>
      BY <1>1, <2>2, AfterAdding DEF Adding, Perform
    <3>2. (history \o ops) \o <<>> = (history \o <<>>) \o ops
      BY <1>1
    <3> QED BY <3>1, <3>2 DEF Recorded
  <2> QED BY <2>1, <2>2
<1> QED BY <1>1, <1>2, <1>3, SaysConcat

(* the end of a compression that brought no summary changes nothing of it, *)
LEMMA EndingRecorded ==
  ASSUME HistoryOK, Ending
  PROVE  Says(Recorded') = Says(Recorded)
<1>1. Recorded' = (history \o pendingOperations) \o <<>>
  BY EndingHistory DEF Recorded
<1>2. (history \o pendingOperations) \o <<>> = history \o pendingOperations
  BY DEF HistoryOK
<1> QED BY <1>1, <1>2 DEF Recorded

(* a rebuilt history says what was summarised and what was kept,           *)
LEMMA SaysRebuilt ==
  ASSUME NEW m, send[m].summarised \in Seq(Said), send[m].kept \in Seq(Entries)
  PROVE  Says(RebuiltEntries(m)) = send[m].summarised \o Says(send[m].kept)
<1> DEFINE a == Entry("human", send[m].summarised, 1)  b == Entry("ai", <<>>, 1)
           k == send[m].kept  u == send[m].summarised
<1>1. a \in Entries /\ b \in Entries /\ a.says = u /\ b.says = <<>>
  BY DEF Entry, Entries, Speakers
<1>2. RebuiltEntries(m) = <<a, b>> \o k /\ k \in Seq(Entries) /\ u \in Seq(Said)
  BY DEF RebuiltEntries
<1> HIDE DEF a, b, k, u
<1>3. <<a>> \in Seq(Entries) /\ <<b>> \in Seq(Entries) /\ <<a, b>> \in Seq(Entries)
  BY <1>1
<1>4. <<a, b>> = <<a>> \o <<b>>
  BY <1>1, PairIsConcat
<1>5. Says(<<a, b>>) = u
  <2>1. Says(<<a, b>>) = Says(<<a>>) \o Says(<<b>>)
    BY <1>3, <1>4, SaysConcat
  <2>2. Says(<<a>>) = u /\ Says(<<b>>) = <<>>
    BY <1>1, SaysOne
  <2>3. u \o <<>> = u
    BY <1>2, ConcatEmptySeq
  <2> QED BY <2>1, <2>2, <2>3
<1>6. Says(<<a, b>> \o k) = Says(<<a, b>>) \o Says(k)
  BY <1>2, <1>3, SaysConcat
<1> QED BY <1>2, <1>5, <1>6 DEF k, u

(* and so does what is recorded when it has replaced the history.          *)
LEMMA RebuildingRecorded ==
  ASSUME HistoryOK, NEW m, Rebuilding(m),
         send[m].summarised \in Seq(Said), send[m].kept \in Seq(Entries)
  PROVE  Says(Recorded') = send[m].summarised \o Says(send[m].kept)
<1>1. RebuiltEntries(m) \o <<>> = RebuiltEntries(m)
  BY RebuiltIs
<1> QED BY <1>1, RebuildingHistory, SaysRebuilt DEF Recorded

(* A compression summarises and keeps what the history says.                *)
LEMMA PartsSay ==
  ASSUME HistoryOK, NEW m, Summarises(m)
  PROVE  send'[m].summarised \o Says(send'[m].kept) = Says(history)
<1> DEFINE a == SubSeq(history, 1, Split(history))
           b == SubSeq(history, Split(history) + 1, Len(history))
<1>1. a \in Seq(Entries) /\ b \in Seq(Entries)
  BY PartsOfHistory
<1>2. a \o b = history
  <2>1. history \in Seq(Entries) /\ Len(history) \in Nat
    BY LenProperties DEF HistoryOK
  <2>2. Split(history) \in 0..Len(history)
    BY <2>1, SplitIsClean
  <2> QED BY <2>1, <2>2, TwoParts
<1> HIDE DEF a, b
<1>3. Says(a \o b) = Says(a) \o Says(b)
  BY <1>1, SaysConcat
<1> QED BY <1>2, <1>3 DEF Summarises, a, b

(* What a message says is its own, and said only once.                      *)
LEMMA NoteSays ==
  ASSUME NEW m \in Messages
  PROVE  /\ Says(<<Note(m)>>) = << <<m, "note">> >>
         /\ Says(<<Note(m)>>) \in Seq(Said) /\ IsInjective(Says(<<Note(m)>>))
         /\ Uttered(Says(<<Note(m)>>)) \subseteq {<<m, "note">>}
<1> DEFINE x == <<m, "note">>
<1>1. Says(<<Note(m)>>) = << x >>
  BY SaysOne DEF Note, Entry
<1>2. x \in Said
  BY DEF Said, Kinds
<1> HIDE DEF x
<1> DEFINE u == << x >>
<1>3. Len(u) = 1 /\ u[1] = x /\ u \in Seq(Said) /\ DOMAIN u = 1..1
  BY <1>2
<1> HIDE DEF u
<1>4. IsInjective(u) /\ Uttered(u) \subseteq {x}
  BY <1>3 DEF IsInjective, Uttered
<1> QED BY <1>1, <1>3, <1>4 DEF u, x

(* A message says its question, or its calls and results;                  *)
LEMMA ContentSays ==
  ASSUME NEW m \in Messages
  PROVE  Says(Content(m)) = IF Answers[m] = None THEN << <<m, "question">> >>
                            ELSE << <<m, "call">>, <<m, "result">> >>
<1>1. CASE Answers[m] = None
  BY <1>1, SaysOne DEF Content, Entry
<1>2. CASE Answers[m] # None
  <2> DEFINE e == Entry("call", << <<m, "call">> >>, 1)
             f == Entry("tool", << <<m, "result">> >>, 1)
             x == <<m, "call">>  y == <<m, "result">>
  <2>1. Content(m) = <<e, f>>
    BY <1>2 DEF Content
  <2>2. e.says = << x >> /\ f.says = << y >> /\ x \in Said /\ y \in Said
    BY DEF Entry, Said, Kinds
  <2>6. e \in Entries /\ f \in Entries
    <3>1. << x >> \in Seq(Said) /\ << y >> \in Seq(Said)
      BY <2>2
    <3>2. e = [speaker |-> "call", says |-> << x >>, tokens |-> 1]
          /\ f = [speaker |-> "tool", says |-> << y >>, tokens |-> 1]
      BY DEF Entry
    <3> HIDE DEF x, y, e, f
    <3> QED BY <3>1, <3>2 DEF Entries, Speakers
  <2> HIDE DEF e, f
  <2>3. <<e>> \o <<f>> = <<e, f>> /\ <<e>> \in Seq(Entries) /\ <<f>> \in Seq(Entries)
    BY <2>6, PairIsConcat
  <2>4. Says(<<e, f>>) = Says(<<e>>) \o Says(<<f>>)
    BY <2>3, SaysConcat
  <2>5. Says(<<e, f>>) = << x >> \o << y >>
    BY <2>2, <2>4, SaysOne
  <2> HIDE DEF x, y
  <2>7. << x >> \o << y >> = << x, y >>
    BY <2>2, PairIsConcat
  <2> QED BY <2>1, <2>5, <2>7, <1>2 DEF x, y
<1> QED BY <1>1, <1>2

(* a turn says that and the reply, if it is text;                          *)
LEMMA TurnSays ==
  ASSUME NEW m \in Messages, NEW reply, NEW n \in Nat \ {0}
  PROVE  Says(TurnEntries(m, reply, n)) = Turn(m, reply = "text")
<1> DEFINE r == Reply(m, n)
<1>1. r \in Entries /\ r.says = << <<m, "reply">> >> /\ Content(m) \in Seq(Entries)
  BY ContentIsEntries DEF Reply, Entry
<1>2. TurnEntries(m, reply, n) = Content(m) \o IF reply = "text" THEN << r >> ELSE <<>>
  BY DEF TurnEntries
<1> HIDE DEF r
<1>3. << r >> \in Seq(Entries) /\ <<>> \in Seq(Entries) /\ Says(<<r>>) = r.says
  BY <1>1, SaysOne
<1>4. CASE reply = "text"
  BY <1>1, <1>2, <1>3, <1>4, SaysConcat DEF Turn
<1>5. CASE reply # "text"
  <2>1. Says(Content(m) \o <<>>) = Says(Content(m)) \o <<>>
    BY <1>1, <1>3, SaysConcat, SaysNothing
  <2> QED BY <1>2, <1>5, <2>1 DEF Turn
<1> QED BY <1>4, <1>5

(* and nothing of it twice, and nothing but its own.                       *)
LEMMA TurnIsOnce ==
  ASSUME NEW m \in Messages, NEW replied \in BOOLEAN
  PROVE  /\ Turn(m, replied) \in Seq(Said) /\ IsInjective(Turn(m, replied))
         /\ Uttered(Turn(m, replied)) \subseteq {<<m, k>> : k \in Kinds \ {"note"}}
<1> DEFINE s == [k \in Kinds |-> <<m, k>>]
           u == Turn(m, replied)
<1>1. /\ \A k \in Kinds : s[k] \in Said
      /\ \A k \in Kinds : \A l \in Kinds : s[k] = s[l] => k = l
  BY DEF Said
<1>2. \/ u = <<s["question"]>> \o <<>>
      \/ u = <<s["question"]>> \o <<s["reply"]>>
      \/ u = <<s["call"], s["result"]>> \o <<>>
      \/ u = <<s["call"], s["result"]>> \o <<s["reply"]>>
  BY ContentSays DEF Turn, Kinds
<1>3. {"question", "reply", "call", "result"} = Kinds \ {"note"}
  BY DEF Kinds
<1>5. {<<m, k>> : k \in Kinds \ {"note"}} = {s[k] : k \in Kinds \ {"note"}}
  OBVIOUS
<1> HIDE DEF s, u
<1>4. /\ DOMAIN u = 1..Len(u) /\ u \in Seq(Said)
      /\ \/ Len(u) = 1 /\ u[1] = s["question"]
         \/ Len(u) = 2 /\ u[1] = s["question"] /\ u[2] = s["reply"]
         \/ Len(u) = 2 /\ u[1] = s["call"] /\ u[2] = s["result"]
         \/ Len(u) = 3 /\ u[1] = s["call"] /\ u[2] = s["result"] /\ u[3] = s["reply"]
  <2>1. s["question"] \in Said /\ s["reply"] \in Said /\ s["call"] \in Said /\ s["result"] \in Said
    BY <1>1 DEF Kinds
  <2>2. \/ u = <<s["question"]>> \/ u = <<s["question"], s["reply"]>>
        \/ u = <<s["call"], s["result"]>> \/ u = <<s["call"], s["result"], s["reply"]>>
    <3>1. <<s["question"]>> \in Seq(Said) /\ <<s["call"], s["result"]>> \in Seq(Said)
      BY <2>1
    <3>2. /\ <<s["question"]>> \o <<>> = <<s["question"]>>
          /\ <<s["call"], s["result"]>> \o <<>> = <<s["call"], s["result"]>>
      BY <3>1, ConcatEmptySeq
    <3>3. /\ <<s["question"]>> \o <<s["reply"]>> = <<s["question"], s["reply"]>>
          /\ <<s["call"], s["result"]>> \o <<s["reply"]>>
               = <<s["call"], s["result"], s["reply"]>>
      BY <2>1, PairIsConcat, TripleIsConcat
    <3> QED BY <1>2, <3>2, <3>3
  <2> DEFINE q == s["question"]  r == s["reply"]  c == s["call"]  t == s["result"]
  <2> HIDE DEF q, r, c, t
  <2>3. q \in Said /\ r \in Said /\ c \in Said /\ t \in Said
    BY <2>1 DEF q, r, c, t
  <2>4. u = <<q>> \/ u = <<q, r>> \/ u = <<c, t>> \/ u = <<c, t, r>>
    BY <2>2 DEF q, r, c, t
  <2>5. u \in Seq(Said)
    <3>1. <<q>> \in Seq(Said) /\ <<q, r>> \in Seq(Said) /\ <<c, t>> \in Seq(Said) /\ <<c, t, r>> \in Seq(Said)
      BY <2>3
    <3> HIDE DEF u
    <3> QED BY <2>4, <3>1
  <2>6. DOMAIN u = 1..Len(u)
    BY <2>5, LenProperties
  <2>7. \/ Len(u) = 1 /\ u[1] = q
        \/ Len(u) = 2 /\ u[1] = q /\ u[2] = r
        \/ Len(u) = 2 /\ u[1] = c /\ u[2] = t
        \/ Len(u) = 3 /\ u[1] = c /\ u[2] = t /\ u[3] = r
    BY <2>4
  <2> QED BY <2>5, <2>6, <2>7 DEF q, r, c, t
<1>6. IsInjective(u)
  BY <1>1, <1>4 DEF IsInjective, Kinds
<1>7. Uttered(u) \subseteq {s[k] : k \in Kinds \ {"note"}}
  BY <1>3, <1>4 DEF Uttered
<1> QED BY <1>4, <1>5, <1>6, <1>7 DEF u

(* What has been said stays said,                                           *)
LEMMA SaidStays ==
  ASSUME NEW m \in Messages, StepOf(m)
  PROVE  SaidNow \subseteq SaidNow'
<1>1. \A x \in Messages : Uttering(x, send[x].pc) \subseteq Uttering(x, send'[x].pc)
  BY DEF StepOf, Others, Uttering
<1> QED BY <1>1 DEF SaidNow

(* even over a restart,                                                    *)
LEMMA SaidStaysInRestart ==
  ASSUME Restart
  PROVE  SaidNow' = SaidNow
<1>1. \A x \in Messages : Uttering(x, send[x].pc) = Uttering(x, send'[x].pc)
  BY DEF Restart, Uttering, Ended
<1> QED BY <1>1 DEF SaidNow

(* and what a message says next has not been said.                          *)
LEMMA NoteIsNew ==
  ASSUME NEW m \in Messages, send[m].pc = "new"
  PROVE  <<m, "note">> \notin SaidNow
<1>1. <<m, "note">> \notin SaidBefore
  BY PastOK DEF Kinds
<1>2. \A x \in Messages : <<m, "note">> \notin Uttering(x, send[x].pc)
  BY DEF Uttering
<1> QED BY <1>1, <1>2 DEF SaidNow

(* Nor has the turn of a message that has not ended.                       *)
LEMMA TurnIsNew ==
  ASSUME NEW m \in Messages, send[m].pc \notin Ended, NEW k \in Kinds \ {"note"}
  PROVE  <<m, k>> \notin SaidNow
<1>1. <<m, k>> \notin SaidBefore
  BY PastOK
<1>2. \A x \in Messages : <<m, k>> \notin Uttering(x, send[x].pc)
  BY DEF Uttering
<1> QED BY <1>1, <1>2 DEF SaidNow

(* New utterances behind what is recorded.                                  *)
LEMMA OnceMore ==
  ASSUME NEW u, Once(u), NEW v \in Seq(Said), IsInjective(v),
         Uttered(v) \cap SaidNow = {}, SaidNow \subseteq SaidNow',
         Uttered(v) \subseteq SaidNow'
  PROVE  /\ u \o v \in Seq(Said) /\ IsInjective(u \o v)
         /\ Uttered(u \o v) \subseteq SaidNow'
<1>1. u \in Seq(Said) /\ IsInjective(u) /\ Uttered(u) \cap Uttered(v) = {}
  BY DEF Once
<1>2. IsInjective(u \o v)
  BY <1>1, InjectiveConcat
<1>3. Uttered(u \o v) = Uttered(u) \cup Uttered(v)
  BY <1>1, UtteredConcat
<1>4. u \o v \in Seq(Said)
  BY <1>1, ConcatProperties
<1> QED BY <1>2, <1>3, <1>4 DEF Once

(* The first part of what is said once is said once.                       *)
LEMMA OncePart ==
  ASSUME NEW u \in Seq(Said), NEW v \in Seq(Said), Once(u \o v)
  PROVE  Once(u)
<1>1. IsInjective(u)
  BY InjectiveConcat DEF Once
<1>2. Uttered(u) \subseteq Uttered(u \o v)
  BY UtteredConcat
<1> QED BY <1>1, <1>2 DEF Once

(* A step of a message that says something says something new.              *)
LEMMA SaysNew ==
  ASSUME TypeInv, NEW m \in Messages, StepOf(m), SaysNote(m) \/ SaysTurn(m)
  PROVE  \E v \in Seq(Said) :
           /\ Says(Recorded') = Says(Recorded) \o v
           /\ IsInjective(v) /\ Uttered(v) \cap SaidNow = {} /\ Uttered(v) \subseteq SaidNow'
           /\ \/ v = Says(<<Note(m)>>)
              \/ \E replied \in BOOLEAN : v = Turn(m, replied)
<1>1. CASE SaysNote(m)
  <2> DEFINE v == Says(<<Note(m)>>)
  <2>1. /\ v \in Seq(Said) /\ IsInjective(v) /\ Uttered(v) \subseteq {<<m, "note">>}
        /\ Says(Recorded') = Says(Recorded) \o v
    BY <1>1, NoteSays, AddingRecorded DEF SaysNote
  <2>2. <<m, "note">> \notin SaidNow
    BY <1>1, NoteIsNew DEF SaysNote
  <2>3. <<m, "note">> \in SaidNow'
    BY <1>1 DEF SaysNote, SaidNow, Uttering, Kinds
  <2> HIDE DEF v
  <2>4. Uttered(v) \cap SaidNow = {} /\ Uttered(v) \subseteq SaidNow'
    BY <2>1, <2>2, <2>3
  <2> QED BY <2>1, <2>4 DEF v
<1>2. CASE SaysTurn(m)
  <2>1. PICK reply \in {"text", "calls"}, n \in Nat \ {0} : Adding(TurnEntries(m, reply, n))
    BY <1>2 DEF SaysTurn
  <2>2. PICK replied \in BOOLEAN : replied = (reply = "text")
    OBVIOUS
  <2> DEFINE v == Turn(m, replied)  K == {<<m, k>> : k \in Kinds \ {"note"}}
  <2>3. Says(Recorded') = Says(Recorded) \o v
    BY <2>1, <2>2, TurnSays, AddingRecorded
  <2>4. v \in Seq(Said) /\ IsInjective(v) /\ Uttered(v) \subseteq K
    BY TurnIsOnce
  <2>5. K \cap SaidNow = {}
    BY <1>2, TurnIsNew DEF SaysTurn, Ended
  <2>6. K \subseteq SaidNow'
    BY <1>2 DEF SaysTurn, SaidNow, Uttering, Ended
  <2>7. \E r \in BOOLEAN : v = Turn(m, r)
    OBVIOUS
  <2> HIDE DEF v, K
  <2> QED BY <2>3, <2>4, <2>5, <2>6, <2>7
<1> QED BY <1>1, <1>2

(* Every step keeps the invariant: what is added is new, and what a        *)
(* compression puts in place of the history is one it once read.           *)
LEMMA OnceStep == TypeInv /\ OnceInv /\ [Next]_vars => OnceInv'
<1> SUFFICES ASSUME TypeInv, OnceInv, [Next]_vars PROVE OnceInv'
  OBVIOUS
<1>0. HistoryOK /\ SendersOK
  BY DEF TypeInv
<1>1. CASE UNCHANGED vars
  <2>1. Recorded' = Recorded /\ SaidNow' = SaidNow /\ send' = send
    BY <1>1 DEF vars, Recorded, SaidNow
  <2> QED BY <2>1 DEF OnceInv, Once
<1>2. ASSUME NEW m \in Messages, StepOf(m) PROVE OnceInv'
  <2> DEFINE OnceHere(u) == /\ u \in Seq(Said) /\ IsInjective(u)
                            /\ Uttered(u) \subseteq SaidNow'
             Two(x) == send'[x].pc \in Summarising =>
                         OnceHere(send'[x].summarised \o Says(send'[x].kept))
  <2>1. SaidNow \subseteq SaidNow'
    BY <1>2, SaidStays
  <2>2. \A u : Once(u) => OnceHere(u)
    BY <2>1 DEF Once
  <2>3. \A x \in Messages \ {m} : Two(x)
    BY <1>2, <2>2 DEF StepOf, Others, OnceInv
  <2>4. SUFFICES Two(m) /\ OnceHere(Says(Recorded'))
    BY <2>3 DEF OnceInv, Once
  <2> HIDE DEF OnceHere
  <2>5. CASE SaysNote(m) \/ SaysTurn(m)
    <3>1. send'[m].pc \notin Summarising
      BY <2>5 DEF SaysNote, SaysTurn, Summarising
    <3>2. PICK v \in Seq(Said) :
             /\ Says(Recorded') = Says(Recorded) \o v
             /\ IsInjective(v) /\ Uttered(v) \cap SaidNow = {} /\ Uttered(v) \subseteq SaidNow'
      BY <1>2, <2>5, SaysNew
    <3>3. OnceHere(Says(Recorded) \o v)
      BY <2>1, <3>2, OnceMore DEF OnceInv, OnceHere
    <3> QED BY <3>1, <3>2, <3>3
  <2>6. CASE Summarises(m)
    <3>1. Recorded' = Recorded
      BY <2>6 DEF Summarises, Locking, Recorded
    <3>2. send'[m].summarised \o Says(send'[m].kept) = Says(history)
      BY <1>0, <2>6, PartsSay
    <3>3. Once(Says(history))
      BY <1>0, RecordedType, OncePart DEF OnceInv
    <3> QED BY <2>2, <3>1, <3>2, <3>3 DEF OnceInv
  <2>7. CASE Replaces(m)
    <3>1. send[m].summarised \in Seq(Said) /\ send[m].kept \in Seq(Entries)
      BY <1>0, <2>7 DEF Replaces, SendersOK, SenderOK
    <3>2. Says(Recorded') = send[m].summarised \o Says(send[m].kept)
      BY <1>0, <2>7, <3>1, RebuildingRecorded DEF Replaces
    <3>3. Once(send[m].summarised \o Says(send[m].kept))
      BY <2>7 DEF Replaces, OnceInv
    <3> QED BY <2>2, <2>7, <3>2, <3>3 DEF Replaces
  <2>8. CASE Releases(m)
    <3>1. Says(Recorded') = Says(Recorded)
      BY <1>0, <2>8, EndingRecorded DEF Releases
    <3> QED BY <2>2, <2>8, <3>1 DEF Releases, OnceInv
  <2>9. CASE Waits(m)
    <3>1. Recorded' = Recorded
      BY <2>9 DEF Waits, serviceVars, Recorded
    <3> QED BY <2>2, <2>9, <3>1 DEF Waits, OnceInv
  <2> QED BY <1>2, <2>5, <2>6, <2>7, <2>8, <2>9 DEF StepOf
<1>3. ASSUME Restart PROVE OnceInv'
  <2>1. Recorded' = <<>>
    <3>1. ~ isCompressing /\ pendingOperations = <<>>
      BY <1>3 DEF Restart, Starting, TypeInv, LockInv, LockReleased
    <3> QED BY <1>0, <1>3, <3>1, StartingHistory DEF Restart, Recorded
  <2>2. Once(<<>>)'
    <3>1. <<>> \in Seq(Said) /\ IsInjective(<<>>) /\ Uttered(<<>>) = {}
      BY DEF IsInjective, Uttered
    <3> QED BY <3>1 DEF Once
  <2>3. \A m \in Messages : send'[m].pc \notin Summarising
    BY <1>3 DEF Restart, Summarising
  <2> QED BY <2>1, <2>2, <2>3, SaysNothing DEF OnceInv
<1> QED BY <1>1, <1>2, <1>3, StepsOfNext

(* A chat starts from a history that repeats nothing.                      *)
LEMMA OnceInit == Init => OnceInv
<1> SUFFICES ASSUME Init PROVE OnceInv
  OBVIOUS
<1>1. history \in Past /\ history \in Seq(Entries) /\ pendingOperations = <<>>
  BY PastIsEntries DEF Init
<1>2. Recorded = history
  BY <1>1 DEF Recorded
<1>3. Says(history) \in Seq(SaidBefore)
  <2> DEFINE s == Sayings(history)
  <2>1. s \in Seq(Seq(SaidBefore))
    <3>1. Len(history) \in Nat
      BY <1>1, LenProperties
    <3>2. \A i \in 1..Len(history) : history[i].says \in Seq(SaidBefore)
      <4> DEFINE Before == [speaker : Speakers, says : Seq(SaidBefore), tokens : Nat \ {0}]
      <4>1. history \in Seq(Before)
        BY <1>1, PastOK
      <4>2. \A e \in Before : e.says \in Seq(SaidBefore)
        OBVIOUS
      <4> HIDE DEF Before
      <4> QED BY <4>1, <4>2
    <3> QED BY <3>1, <3>2, IsASeq DEF Sayings
  <2> HIDE DEF s
  <2>2. FlattenSeq(s) \in Seq(SaidBefore)
    BY <2>1, FlattenConcat
  <2> QED BY <2>2 DEF Says, s, Sayings
<1>4. IsInjective(Says(history))
  BY <1>1, PastOK
<1>5. Uttered(Says(history)) \subseteq SaidNow
  <2> DEFINE u == Says(history)
  <2> HIDE DEF u
  <2>1. u \in Seq(SaidBefore)
    BY <1>3 DEF u
  <2>2. Uttered(u) \subseteq SaidBefore
    BY <2>1 DEF Uttered
  <2> QED BY <2>2 DEF SaidNow, u
<1>6. \A m \in Messages : send[m].pc \notin Summarising
  BY DEF Init, NewSend, Summarising
<1>7. Says(history) \in Seq(Said)
  BY <1>1, SaysType
<1> QED BY <1>2, <1>4, <1>5, <1>6, <1>7 DEF OnceInv, Once

(* Nothing is in the history twice, be it on its own or in a summary, with *)
(* any number of concurrent senders: not even when a compression replaces  *)
(* a history that has changed since it was read.                           *)
THEOREM NothingIsRepeated == Spec => []NothingTwice
<1>1. OnceInv => NothingTwice
  BY DEF OnceInv, Once, NothingTwice
<1> QED BY <1>1, OnceInit, OnceStep, TypeInit, TypeStep, PTL DEF Spec

(* One message at a time: nobody else moves or waits, nothing is queued,    *)
(* and what a compression read is what the history still says.              *)
AtRest(m) == send[m].pc \in {"new"} \cup Ended
OneAtATime ==
  /\ \A m \in Messages : \A x \in Messages : m = x \/ AtRest(m) \/ AtRest(x)
  /\ pendingOperations = <<>>
  /\ \A m \in Messages : send[m].pc \in Summarising =>
       Says(history) = send[m].summarised \o Says(send[m].kept)

(* The senders at rest stay so while another one moves.                     *)
LEMMA OneMoves ==
  ASSUME OneAtATime, Client = "serial", NEW m \in Messages, StepOf(m)
  PROVE  \A x \in Messages \ {m} : AtRest(x) /\ send'[x] = send[x]
<1>1. CASE send[m].pc = "new"
  BY <1>1 DEF StepOf, ClientReady, AtRest, Others
<1>2. CASE send[m].pc # "new"
  BY <1>2 DEF StepOf, OneAtATime, AtRest, Others
<1> QED BY <1>1, <1>2

(* Every step keeps this.                                                  *)
LEMMA OneStep ==
  ASSUME TypeInv, OneAtATime, Client = "serial", [Next]_vars
  PROVE  OneAtATime'
<1>0. HistoryOK /\ SendersOK
  BY DEF TypeInv
<1>1. CASE UNCHANGED vars
  BY <1>1 DEF vars, OneAtATime, AtRest
<1>2. ASSUME NEW m \in Messages, StepOf(m) PROVE OneAtATime'
  <2>1. \A x \in Messages \ {m} : AtRest(x) /\ send'[x] = send[x]
    BY <1>2, OneMoves
  <2>2. \A y \in Messages : \A x \in Messages : y = x \/ AtRest(y)' \/ AtRest(x)'
    BY <2>1 DEF AtRest
  <2>3. \A x \in Messages \ {m} : send'[x].pc \notin Summarising
    BY <2>1 DEF AtRest, Ended, Summarising
  <2>4. isCompressing => send[m].pc \in Summarising
    BY <2>1 DEF TypeInv, LockInv, LockReleased, AtRest, Ended, Summarising
  <2>5. pendingOperations' = <<>>
    <3>1. CASE SaysNote(m) \/ SaysTurn(m)
      <4>1. ~ isCompressing
        BY <2>4, <3>1 DEF SaysNote, SaysTurn, Summarising
      <4>2. \E ops : Perform(ops)
        BY <3>1 DEF SaysNote, SaysTurn, Adding
      <4> QED BY <4>1, <4>2 DEF Perform, OneAtATime
    <3>2. CASE Summarises(m) \/ Waits(m)
      BY <3>2 DEF Summarises, Locking, Waits, serviceVars, OneAtATime
    <3>3. CASE Replaces(m) \/ Releases(m)
      BY <3>3 DEF Replaces, Releases, Rebuilding, Ending, EndCompression
    <3> QED BY <1>2, <3>1, <3>2, <3>3 DEF StepOf
  <2>6. send'[m].pc \in Summarising =>
          Says(history') = send'[m].summarised \o Says(send'[m].kept)
    <3>1. CASE Summarises(m)
      BY <1>0, <3>1, PartsSay DEF Summarises, Locking
    <3>2. CASE ~ Summarises(m)
      BY <1>2, <3>2
         DEF StepOf, SaysNote, SaysTurn, Replaces, Releases, Waits, Summarising
    <3> QED BY <3>1, <3>2
  <2> QED BY <2>2, <2>3, <2>5, <2>6 DEF OneAtATime
<1>3. ASSUME Restart PROVE OneAtATime'
  <2>1. \A m \in Messages : AtRest(m)'
    BY <1>3 DEF Restart, AtRest, Ended
  <2>2. \A m \in Messages : send'[m].pc \notin Summarising
    BY <1>3 DEF Restart, Summarising
  <2>3. pendingOperations' = <<>>
    BY <1>0, <1>3, StartingHistory DEF Restart, OneAtATime
  <2> QED BY <2>1, <2>2, <2>3 DEF OneAtATime
<1> QED BY <1>1, <1>2, <1>3, StepsOfNext DEF TypeInv

(* A chat starts with no message under way.                                *)
LEMMA OneInit == Init => OneAtATime
BY DEF Init, NewSend, OneAtATime, AtRest, Summarising

-----------------------------------------------------------------------------
(* Each step is one of the conversation, or leaves what is said alone.      *)

(* An addition of something new is a turn of the conversation.             *)
LEMMA SayingIsASay ==
  ASSUME NEW v \in Seq(Said), Once(Says(Recorded)),
         Says(Recorded') = Says(Recorded) \o v, Uttered(v) \cap SaidNow = {}
  PROVE  History!Say(v)
<1>1. Uttered(v) \cap Uttered(Says(Recorded)) = {}
  BY DEF Once
<1>2. History!Utterances(v) = Uttered(v)
      /\ History!Utterances(Says(Recorded)) = Uttered(Says(Recorded))
  BY DEF History!Utterances, Uttered
<1> QED BY <1>1, <1>2 DEF History!Say

(* Additions are turns, a restart forgets, and everything a compression    *)
(* does leaves the conversation as it was.                                 *)
LEMMA ConversationStep ==
  ASSUME TypeInv, OnceInv, OneAtATime, Client = "serial", [Next]_vars
  PROVE  [History!Next]_(Says(Recorded))
<1>0. HistoryOK /\ SendersOK
  BY DEF TypeInv
<1>1. CASE UNCHANGED vars
  <2>1. Recorded' = Recorded
    BY <1>1 DEF vars, Recorded
  <2> QED BY <2>1
<1>2. ASSUME NEW m \in Messages, StepOf(m) PROVE [History!Next]_(Says(Recorded))
  <2>1. CASE SaysNote(m) \/ SaysTurn(m)
    <3>1. PICK v \in Seq(Said) :
           /\ Says(Recorded') = Says(Recorded) \o v
           /\ Uttered(v) \cap SaidNow = {}
           /\ \/ v = Says(<<Note(m)>>)
              \/ \E replied \in BOOLEAN : v = Turn(m, replied)
      BY <1>2, <2>1, SaysNew
    <3>2. History!Say(v)
      BY <3>1, SayingIsASay DEF OnceInv
    <3>3. v \in {Says(<< Note(x) >>) : x \in Messages} \cup
                {Turn(x, replied) : x \in Messages, replied \in BOOLEAN}
      BY <3>1
    <3> QED BY <3>2, <3>3 DEF History!Next
  <2>2. CASE Summarises(m) \/ Waits(m)
    <3>1. Recorded' = Recorded
      BY <2>2 DEF Summarises, Locking, Waits, serviceVars, Recorded
    <3> QED BY <3>1
  <2>3. CASE Replaces(m)
    <3>1. send[m].summarised \in Seq(Said) /\ send[m].kept \in Seq(Entries)
      BY <1>0, <2>3 DEF Replaces, SendersOK, SenderOK
    <3>2. Says(Recorded') = send[m].summarised \o Says(send[m].kept)
      BY <1>0, <2>3, <3>1, RebuildingRecorded DEF Replaces
    <3>3. Says(history) = send[m].summarised \o Says(send[m].kept)
      BY <2>3 DEF Replaces, OneAtATime
    <3>4. Recorded = history
      BY <1>0 DEF HistoryOK, OneAtATime, Recorded
    <3> QED BY <3>2, <3>3, <3>4
  <2>4. CASE Releases(m)
    <3>1. Says(Recorded') = Says(Recorded)
      BY <1>0, <2>4, EndingRecorded DEF Releases
    <3> QED BY <3>1
  <2> QED BY <1>2, <2>1, <2>2, <2>3, <2>4 DEF StepOf
<1>3. ASSUME Restart PROVE [History!Next]_(Says(Recorded))
  <2>1. history' = <<>> /\ pendingOperations' = <<>>
    BY <1>0, <1>3, StartingHistory DEF Restart, OneAtATime
  <2>2. Recorded' = <<>>
    BY <2>1 DEF Recorded
  <2>3. Says(Recorded') = <<>>
    BY <2>2, SaysNothing
  <2> QED BY <2>3 DEF History!Next, History!Forget
<1> QED BY <1>1, <1>2, <1>3, StepsOfNext

(* A chat starts from a past conversation.                                 *)
LEMMA ConversationInit == Init => History!Init
<1> SUFFICES ASSUME Init PROVE History!Init
  OBVIOUS
<1>1. history \in Past /\ history \in Seq(Entries) /\ pendingOperations = <<>>
  BY PastIsEntries DEF Init
<1>2. Recorded = history
  BY <1>1 DEF Recorded
<1> QED BY <1>1, <1>2 DEF History!Init

(* With a client that sends one message at a time, the history with its    *)
(* summaries and its queue implements Conversation: every recorded turn    *)
(* stays in it, whole, once and in order, until the conversation is        *)
(* started afresh.                                                         *)
THEOREM ConversationIsKept ==
  ASSUME Client = "serial"
  PROVE  Spec => KeepsTheConversation
<1> DEFINE All == TypeInv /\ OnceInv /\ OneAtATime
<1>1. Init => All
  BY TypeInit, OnceInit, OneInit
<1>2. All /\ [Next]_vars => All'
  BY TypeStep, OnceStep, OneStep
<1>3. All /\ [Next]_vars => [History!Next]_(Says(Recorded))
  BY ConversationStep
<1> QED BY <1>1, <1>2, <1>3, ConversationInit, PTL
     DEF Spec, KeepsTheConversation, History!Spec
=============================================================================
