--------------------------- MODULE IdeDiffsProofs ---------------------------
(***************************************************************************)
(* Proofs about IdeDiffs, for any diffs, files, answers and lost           *)
(* connections, whether or not edits of one file meet.                     *)
(*                                                                         *)
(* The first half is about the shape of the state (TypeOK): a diff is      *)
(* opened once, its request is sent once, and the editor shows nothing     *)
(* whose request is still to come, nor anything it has closed.             *)
(*                                                                         *)
(* The second half is about what settles a diff (SettledByTheUser).        *)
(* Resolvers and notifications speak of a file, answers of a diff.  What   *)
(* is under way for a file is what the user said of one of its diffs       *)
(* (AnswersSaid, ClicksSaid, NoticesSaid).  While a diff that has met no   *)
(* other edit is pending, nothing but what concerns it is about in its     *)
(* file (Alone), so what settles it is what the user said of it.           *)
(***************************************************************************)
EXTENDS IdeDiffs, TLAPS

Cli == [pc : {"idle", "timer", "closing", "closed"}, diff : Diffs \cup {None},
        verdict : Verdicts \cup {None}, holds : Diffs \cup {None}]
Request == [op : {"openDiff", "closeDiff"}, diff : Diffs, by : Answers \cup {None}]
Handler == [does : Verdicts \cup {"close"}, doc : Diffs, by : Answers \cup {None},
            pc : {"document", "tab"}]
Notice == [path : Paths, verdict : Verdicts]

Typed ==
  /\ promise \in [Diffs -> {"new", "pending"} \cup Settled]
  /\ diffResponses \in [Paths -> Diffs \cup {None}]
  /\ cli \in [Answers -> Cli]
  /\ requests \in Seq(Request)
  /\ diffDocuments \subseteq Diffs
  /\ handlers \subseteq Handler
  /\ notices \in Seq(Notice)
  /\ said \in [Diffs -> SUBSET Verdicts]
  /\ disturbed \subseteq Range(opened)
  /\ drops \in 0..MaxDrops

OpenedOnce ==
  /\ opened \in Seq(Diffs)
  /\ IsInjective(opened)
  /\ \A d \in Diffs : promise[d] # "new" <=> d \in Range(opened)

OwnFile ==
  \A p \in Paths : diffResponses[p] # None => PathOf[diffResponses[p]] = p

(* An answer is about a diff that was opened; the resolver it holds is of   *)
(* the same file.                                                          *)
AnswerOK(c, seen) ==
  /\ c.pc = "idle" => c.diff = None
  /\ c.pc = "timer" => c.diff # None
  /\ c.diff # None => c.diff \in seen /\ c.verdict \in Verdicts
  /\ c.holds # None => c.diff # None /\ PathOf[c.holds] = PathOf[c.diff]
AnswersOK == \A a \in Answers : AnswerOK(cli[a], Range(opened))

(* The request at i of q is to show a document.                            *)
Opens(q, i) == q[i].op = "openDiff"

(* What the editor shows or works on.                                      *)
Known == diffDocuments \cup {h.doc : h \in handlers}
ShownOnce ==
  /\ Known \subseteq Range(opened)
  /\ \A i \in DOMAIN requests : Opens(requests, i) =>
       /\ requests[i].diff \in Range(opened) \ Known
       /\ \A j \in DOMAIN requests :
            Opens(requests, j) /\ requests[j].diff = requests[i].diff => i = j

(* A handler that closes the tab has forgotten its document for good.      *)
Forgotten == \A h \in handlers : h.pc = "tab" => h.doc \notin diffDocuments

TInv == Typed /\ OpenedOnce /\ OwnFile /\ AnswersOK /\ ShownOnce /\ Forgotten

-----------------------------------------------------------------------------
(* Sequences                                                               *)

(* The oldest entry is taken off the queue.                                *)
LEMMA TailRange ==
  ASSUME NEW S, NEW q \in Seq(S), q # <<>>
  PROVE  /\ Tail(q) \in Seq(S) /\ Head(q) \in Range(q) /\ Head(q) \in S
         /\ Range(Tail(q)) \subseteq Range(q)
  BY DEF Range

(* An entry is put on the queue.                                           *)
LEMMA AppendRange ==
  ASSUME NEW S, NEW q \in Seq(S), NEW b \in S
  PROVE  /\ Append(q, b) \in Seq(S)
         /\ Range(Append(q, b)) \subseteq Range(q) \cup {b}
  BY DEF Range

(* Whatever is in the queue is an entry.                                   *)
LEMMA InRange ==
  ASSUME NEW S, NEW q \in Seq(S), NEW b \in Range(q)
  PROVE  b \in S
  BY DEF Range

(* A diff joins those that were opened.                                    *)
LEMMA AnotherOpened ==
  ASSUME OpenedOnce, NEW b \in Diffs, b \notin Range(opened),
         opened' = Append(opened, b)
  PROVE  /\ opened' \in Seq(Diffs) /\ IsInjective(opened')
         /\ Range(opened') = Range(opened) \cup {b}
  <1>1. opened \in Seq(Diffs) /\ IsInjective(opened)
    BY DEF OpenedOnce
  <1>2. /\ opened' \in Seq(Diffs) /\ DOMAIN opened' = 1..(Len(opened) + 1)
        /\ \A i \in 1..Len(opened) : opened'[i] = opened[i]
        /\ opened'[Len(opened) + 1] = b
        /\ Len(opened) \in Nat /\ DOMAIN opened = 1..Len(opened)
    BY <1>1
  <1>3. \A i \in 1..(Len(opened) + 1) : i \in 1..Len(opened) \/ i = Len(opened) + 1
    BY <1>2
  <1>4. IsInjective(opened')
    BY <1>1, <1>2, <1>3 DEF IsInjective, Range
  <1>5. Range(opened') \subseteq Range(opened) \cup {b}
    BY <1>2, <1>3 DEF Range
  <1>6. Range(opened) \cup {b} \subseteq Range(opened')
    <2>1. \A i \in 1..Len(opened) : i \in 1..(Len(opened) + 1)
      BY <1>2
    <2>2. Len(opened) + 1 \in 1..(Len(opened) + 1)
      BY <1>2
    <2> QED
      BY <1>2, <2>1, <2>2 DEF Range
  <1>7. Range(opened') = Range(opened) \cup {b}
    BY <1>5, <1>6
  <1> QED
    BY <1>2, <1>4, <1>7

(* A request that follows the others.                                      *)
LEMMA AppendShown ==
  ASSUME TInv, NEW r \in Request, requests' = Append(requests, r),
         Known' = Known, Range(opened) \subseteq Range(opened'),
         r.op = "openDiff" => r.diff \in Range(opened') \ Range(opened)
  PROVE  ShownOnce'
  <1>1. /\ requests \in Seq(Request) /\ Len(requests) \in Nat
        /\ ShownOnce /\ DOMAIN requests = 1..Len(requests)
    BY DEF TInv, Typed
  <1>2. /\ DOMAIN requests' = 1..(Len(requests) + 1)
        /\ \A i \in 1..Len(requests) : requests'[i] = requests[i]
        /\ requests'[Len(requests) + 1] = r
    BY <1>1
  <1>3. \A i \in DOMAIN requests' : i \in DOMAIN requests \/ i = Len(requests) + 1
    BY <1>1, <1>2
  <1>4. \A i \in DOMAIN requests : Opens(requests, i) =>
           requests[i].diff \in Range(opened) \ Known
    BY <1>1 DEF ShownOnce
  <1>5. \A i \in DOMAIN requests : Opens(requests', i) <=> Opens(requests, i)
    BY <1>1, <1>2 DEF Opens
  <1>6. ASSUME NEW i \in DOMAIN requests', Opens(requests', i)
        PROVE  requests'[i].diff \in Range(opened') \ Known'
    <2>1. CASE i \in DOMAIN requests
      BY <1>1, <1>2, <1>4, <1>5, <1>6, <2>1
    <2>2. CASE i = Len(requests) + 1
      BY <1>1, <1>2, <1>6, <2>2 DEF Opens, ShownOnce
    <2> QED
      BY <1>3, <2>1, <2>2
  <1>7. ASSUME NEW i \in DOMAIN requests', Opens(requests', i),
               NEW j \in DOMAIN requests', Opens(requests', j),
               requests'[j].diff = requests'[i].diff
        PROVE  i = j
    <2>1. CASE i \in DOMAIN requests /\ j \in DOMAIN requests
      BY <1>1, <1>2, <1>5, <1>7, <2>1 DEF ShownOnce
    <2>2. CASE i \in DOMAIN requests /\ j = Len(requests) + 1
      BY <1>1, <1>2, <1>4, <1>5, <1>7, <2>2 DEF Opens
    <2>3. CASE i = Len(requests) + 1 /\ j \in DOMAIN requests
      BY <1>1, <1>2, <1>4, <1>5, <1>7, <2>3 DEF Opens
    <2> QED
      BY <1>3, <2>1, <2>2, <2>3
  <1>8. Known' \subseteq Range(opened')
    BY <1>1 DEF ShownOnce
  <1> QED
    BY <1>6, <1>7, <1>8 DEF ShownOnce

(* The oldest request is taken; if it is to open, its document is shown.   *)
LEMMA TailShown ==
  ASSUME TInv, requests # <<>>, requests' = Tail(requests), opened' = opened,
         Known' \subseteq Known
           \cup (IF Opens(requests, 1) THEN {requests[1].diff} ELSE {})
  PROVE  ShownOnce'
  <1>1. /\ requests \in Seq(Request) /\ Len(requests) \in Nat
        /\ ShownOnce /\ DOMAIN requests = 1..Len(requests)
    BY DEF TInv, Typed
  <1>2. /\ Len(requests) >= 1 /\ DOMAIN requests' = 1..(Len(requests) - 1)
        /\ \A i \in 1..(Len(requests) - 1) : requests'[i] = requests[i + 1]
    BY <1>1
  <1>3. \A i \in DOMAIN requests' :
           i + 1 \in DOMAIN requests /\ i + 1 # 1 /\ requests'[i] = requests[i + 1]
    BY <1>1, <1>2
  <1>4. 1 \in DOMAIN requests
    BY <1>1, <1>2
  <1>5. \A i \in DOMAIN requests' : Opens(requests', i) <=> Opens(requests, i + 1)
    BY <1>3 DEF Opens
  <1>6. Known' \subseteq Range(opened')
    BY <1>1, <1>4 DEF ShownOnce
  <1>7. ASSUME NEW i \in DOMAIN requests', Opens(requests', i)
        PROVE  requests'[i].diff \in Range(opened') \ Known'
    <2>1. Opens(requests, i + 1) /\ i + 1 \in DOMAIN requests /\ i + 1 # 1
      BY <1>3, <1>5, <1>7
    <2>2. requests[i + 1].diff \in Range(opened) \ Known
      BY <1>1, <2>1 DEF ShownOnce
    <2>3. Opens(requests, 1) => requests[1].diff # requests[i + 1].diff
      BY <1>1, <1>4, <2>1 DEF ShownOnce
    <2> QED
      BY <1>3, <2>2, <2>3
  <1>8. ASSUME NEW i \in DOMAIN requests', Opens(requests', i),
               NEW j \in DOMAIN requests', Opens(requests', j),
               requests'[j].diff = requests'[i].diff
        PROVE  i = j
    <2>1. i + 1 = j + 1
      BY <1>1, <1>3, <1>5, <1>8 DEF ShownOnce
    <2> QED
      BY <1>2, <2>1
  <1> QED
    BY <1>6, <1>7, <1>8 DEF ShownOnce

(* A promise settles, by a verdict, and nothing is opened.                 *)
LEMMA SettleTyped ==
  ASSUME TInv, NEW e \in Diffs \cup {None}, NEW v, Settle(e, v), opened' = opened,
         e \in Diffs => v \in Verdicts
  PROVE  /\ promise' \in [Diffs -> {"new", "pending"} \cup Settled]
         /\ OpenedOnce'
         /\ \A d \in Diffs : \/ promise'[d] = promise[d]
                             \/ d = e /\ promise[d] = "pending" /\ promise'[d] = v
  <1>1. promise \in [Diffs -> {"new", "pending"} \cup Settled] /\ OpenedOnce
    BY DEF TInv, Typed
  <1>2. CASE e # None /\ promise[e] = "pending"
    <2>1. promise' = [promise EXCEPT ![e] = v] /\ e \in Diffs /\ v \in Settled
      BY <1>2 DEF Settle, Settled
    <2>2. v # "new"
      BY <1>2, <2>1 DEF Verdicts
    <2>3. \A d \in Diffs : promise'[d] # "new" <=> promise[d] # "new"
      BY <1>1, <1>2, <2>1, <2>2
    <2> QED
      BY <1>1, <1>2, <2>1, <2>3 DEF OpenedOnce
  <1>3. CASE ~(e # None /\ promise[e] = "pending")
    <2>1. promise' = promise
      BY <1>3 DEF Settle
    <2> QED
      BY <1>1, <2>1 DEF OpenedOnce
  <1> QED
    BY <1>2, <1>3

(* The invocation a of resolveDiffFromCli is at c.                         *)
LEMMA CliAt ==
  ASSUME TInv, NEW a \in Answers, NEW c \in Cli, cli' = [cli EXCEPT ![a] = c],
         AnswerOK(c, Range(opened')), Range(opened) \subseteq Range(opened')
  PROVE  /\ cli' \in [Answers -> Cli] /\ AnswersOK'
         /\ cli'[a] = c /\ \A b \in Answers \ {a} : cli'[b] = cli[b]
  <1>1. cli \in [Answers -> Cli] /\ AnswersOK
    BY DEF TInv, Typed
  <1>2. /\ cli' \in [Answers -> Cli]
        /\ cli'[a] = c /\ \A b \in Answers \ {a} : cli'[b] = cli[b]
    BY <1>1
  <1>3. \A b \in Answers \ {a} : AnswerOK(cli'[b], Range(opened'))
    BY <1>1, <1>2 DEF AnswersOK, AnswerOK
  <1> QED
    BY <1>2, <1>3 DEF AnswersOK, AnswerOK

(* The answer to a request to close arrives, or fails to.                  *)
LEMMA CliClosed ==
  ASSUME TInv, NEW by, cli' = [cli EXCEPT ![by].pc = "closed"], opened' = opened
  PROVE  /\ cli' \in [Answers -> Cli] /\ AnswersOK'
         /\ \A a \in Answers : /\ cli'[a].diff = cli[a].diff
                               /\ cli'[a].verdict = cli[a].verdict
                               /\ cli'[a].holds = cli[a].holds
  <1>1. cli \in [Answers -> Cli] /\ AnswersOK
    BY DEF TInv, Typed
  <1>2. ASSUME NEW a \in Answers
        PROVE  /\ cli'[a] \in Cli
               /\ cli'[a].diff = cli[a].diff
               /\ cli'[a].verdict = cli[a].verdict
               /\ cli'[a].holds = cli[a].holds
               /\ cli'[a].pc \in {cli[a].pc, "closed"}
    <2>1. cli[a] \in Cli
      BY <1>1
    <2> DEFINE c == [cli[a] EXCEPT !.pc = "closed"]
    <2>2. cli'[a] = cli[a] \/ cli'[a] = c
      BY <1>1
    <2>3. /\ c \in Cli /\ c.pc = "closed" /\ c.diff = cli[a].diff
          /\ c.verdict = cli[a].verdict /\ c.holds = cli[a].holds
      BY <2>1 DEF Cli
    <2> QED
      BY <2>1, <2>2, <2>3
  <1>3. cli' \in [Answers -> Cli]
    <2>1. cli' = [a \in Answers |-> cli'[a]]
      BY <1>1
    <2> QED
      BY <1>2, <2>1
  <1>4. AnswersOK'
    BY <1>1, <1>2 DEF AnswersOK, AnswerOK
  <1> QED
    BY <1>2, <1>3, <1>4

(* A diff is opened: its request is the first about it.                    *)
LEMMA OpenTyped ==
  ASSUME TInv, NEW d \in Diffs, openDiff(d)
  PROVE  TInv'
  <1> DEFINE r == [op |-> "openDiff", diff |-> d, by |-> None]
  <1>1. /\ promise[d] = "new"
        /\ promise' = [promise EXCEPT ![d] = "pending"]
        /\ opened' = Append(opened, d)
        /\ diffResponses' = [diffResponses EXCEPT ![PathOf[d]] = d]
        /\ requests' = Append(requests, r)
        /\ disturbed' \subseteq disturbed \cup {d} \cup Pending(PathOf[d])
        /\ UNCHANGED <<cli, notices, said, diffDocuments, handlers, drops>>
    BY DEF openDiff, Registered, editorVars
  <1>2. /\ Typed /\ OpenedOnce /\ PathOf \in [Diffs -> Paths]
        /\ opened \in Seq(Diffs) /\ IsInjective(opened) /\ d \notin Range(opened)
    BY <1>1, ConstantsOK DEF TInv, OpenedOnce
  <1>3. r \in Request /\ r.diff = d
    BY DEF Request
  <1> HIDE DEF r
  <1>4. /\ opened' \in Seq(Diffs) /\ IsInjective(opened')
        /\ Range(opened') = Range(opened) \cup {d}
    BY <1>1, <1>2, AnotherOpened
  <1>5. requests' \in Seq(Request)
    BY <1>1, <1>2, <1>3, AppendRange DEF Typed
  <1>6. Typed'
    <2>1. Pending(PathOf[d]) \subseteq Range(opened)
      BY <1>2 DEF Pending, OpenedOnce
    <2>2. disturbed' \subseteq Range(opened')
      BY <1>1, <1>2, <1>4, <2>1 DEF Typed
    <2> QED
      BY <1>1, <1>2, <1>5, <2>2 DEF Typed
  <1>7. OpenedOnce'
    <2>1. \A e \in Diffs : promise'[e] # "new" <=> promise[e] # "new" \/ e = d
      BY <1>1, <1>2 DEF Typed
    <2> QED
      BY <1>2, <1>4, <2>1 DEF OpenedOnce
  <1>8. OwnFile'
    BY <1>1, <1>2 DEF TInv, Typed, OwnFile
  <1>9. AnswersOK' /\ Forgotten'
    BY <1>1, <1>4 DEF TInv, AnswersOK, AnswerOK, Forgotten
  <1>10. ShownOnce'
    <2>1. Known' = Known
      BY <1>1 DEF Known
    <2> QED
      BY <1>1, <1>2, <1>3, <1>4, <2>1, AppendShown
  <1> QED
    BY <1>6, <1>7, <1>8, <1>9, <1>10 DEF TInv

(* The answer in the terminal, and its way to the editor.                  *)
LEMMA AnswerTyped ==
  ASSUME TInv, NEW a \in Answers, NEW d \in Diffs, NEW v \in Verdicts,
         AnswerInTerminal(a, d, v)
  PROVE  TInv'
  <1> DEFINE c == [pc |-> "timer", diff |-> d, verdict |-> v, holds |-> None]
  <1>1. /\ Asked(d)
        /\ cli' = [cli EXCEPT ![a] = c]
        /\ said' = [said EXCEPT ![d] = @ \cup {v}]
        /\ UNCHANGED <<promise, opened, diffResponses, requests, notices,
                       diffDocuments, handlers, drops, disturbed>>
    BY DEF AnswerInTerminal, editorVars
  <1>2. Typed /\ OpenedOnce /\ AnswersOK
    BY DEF TInv
  <1>3. d \in Range(opened) /\ d # None
    <2>1. promise[d] = "pending" => promise[d] # "new"
      OBVIOUS
    <2>2. d # None
      BY ConstantsOK
    <2> QED
      BY <1>1, <1>2, <2>1, <2>2 DEF Asked, OpenedOnce, AnswersOK, AnswerOK
  <1>4. c \in Cli /\ AnswerOK(c, Range(opened'))
    BY <1>1, <1>3 DEF Cli, AnswerOK
  <1> HIDE DEF c
  <1>5. cli' \in [Answers -> Cli] /\ AnswersOK'
    BY <1>1, <1>4, CliAt
  <1>6. Typed'
    BY <1>1, <1>2, <1>5 DEF Typed
  <1> QED
    BY <1>1, <1>5, <1>6
       DEF TInv, OpenedOnce, OwnFile, ShownOnce, Opens, Known, Forgotten

(* The answer reads its resolver and asks the editor to close the document. *)
LEMMA ReadTyped ==
  ASSUME TInv, NEW a \in Answers, ReadResolver(a)
  PROVE  TInv'
  <1> DEFINE d == cli[a].diff
             r == [op |-> "closeDiff", diff |-> d, by |-> a]
             pc == IF connected THEN "closing" ELSE "closed"
             holds == diffResponses[PathOf[d]]
             c == [cli[a] EXCEPT !.holds = holds, !.pc = pc]
  <1>1. /\ cli[a].pc = "timer"
        /\ cli' = [cli EXCEPT ![a].holds = holds, ![a].pc = pc]
        /\ requests' = IF connected THEN Append(requests, r) ELSE requests
        /\ UNCHANGED <<promise, opened, diffResponses, notices, said,
                       diffDocuments, handlers, drops, disturbed>>
    BY DEF ReadResolver, editorVars, historyVars
  <1>2. Typed /\ PathOf \in [Diffs -> Paths] /\ None \notin Diffs /\ AnswerOK(cli[a], Range(opened))
    BY ConstantsOK DEF TInv, AnswersOK
  <1>3. cli' = [cli EXCEPT ![a] = c]
    BY <1>1
  <1>4. cli[a] \in Cli /\ d \in Diffs
    BY <1>1, <1>2 DEF Typed, Cli, AnswerOK
  <1>5. holds \in Diffs \cup {None} /\ pc \in {"closing", "closed"}
    BY <1>2, <1>4 DEF Typed
  <1>6. holds # None => PathOf[holds] = PathOf[d]
    BY <1>2, <1>4 DEF TInv, OwnFile
  <1> HIDE DEF holds, pc
  <1>7. /\ c \in Cli /\ c.verdict = cli[a].verdict /\ c.diff = d
        /\ c.holds = holds /\ c.pc = pc
    BY <1>4, <1>5 DEF Cli
  <1>8. AnswerOK(c, Range(opened'))
    BY <1>1, <1>2, <1>4, <1>5, <1>6, <1>7 DEF AnswerOK
  <1>9. r \in Request /\ r.op # "openDiff"
    BY <1>4 DEF Request
  <1> HIDE DEF c, r
  <1>10. cli' \in [Answers -> Cli] /\ AnswersOK'
    BY <1>1, <1>3, <1>7, <1>8, CliAt
  <1>11. requests' \in Seq(Request)
    BY <1>1, <1>2, <1>9, AppendRange DEF Typed
  <1>12. Typed'
    BY <1>1, <1>2, <1>10, <1>11 DEF Typed
  <1>13. ShownOnce'
    <2>1. CASE connected
      BY <1>1, <1>9, <2>1, AppendShown DEF Known
    <2>2. CASE ~connected
      BY <1>1, <2>2 DEF TInv, ShownOnce, Opens, Known
    <2> QED
      BY <2>1, <2>2
  <1> QED
    BY <1>1, <1>10, <1>12, <1>13 DEF TInv, OpenedOnce, OwnFile, Forgotten

(* The answer settles what it holds.                                       *)
LEMMA ResolveTyped ==
  ASSUME TInv, NEW a \in Answers, ResolveDiff(a)
  PROVE  TInv'
  <1> DEFINE e == cli[a].holds
             v == cli[a].verdict
             p == PathOf[cli[a].diff]
  <1>1. /\ Settle(e, v)
        /\ diffResponses' = IF e = None THEN diffResponses
                            ELSE [diffResponses EXCEPT ![p] = None]
        /\ cli' = [cli EXCEPT ![a] = Idle]
        /\ UNCHANGED <<opened, requests, notices, said, diffDocuments, handlers,
                       drops, disturbed>>
    BY DEF ResolveDiff, editorVars, historyVars
  <1>2. Typed /\ AnswerOK(cli[a], Range(opened)) /\ cli[a] \in Cli /\ None \notin Diffs
    BY ConstantsOK DEF TInv, AnswersOK, Typed
  <1>3. e \in Diffs \cup {None} /\ (e \in Diffs => v \in Verdicts)
    BY <1>2 DEF Cli, AnswerOK
  <1> HIDE DEF e, v, p
  <1>4. promise' \in [Diffs -> {"new", "pending"} \cup Settled] /\ OpenedOnce'
    BY <1>1, <1>3, SettleTyped
  <1>5. Idle \in Cli /\ AnswerOK(Idle, Range(opened'))
    BY DEF Idle, Cli, AnswerOK
  <1>6. cli' \in [Answers -> Cli] /\ AnswersOK'
    BY <1>1, <1>5, CliAt
  <1>7. /\ diffResponses' \in [Paths -> Diffs \cup {None}]
        /\ \A q \in Paths : diffResponses'[q] \in {diffResponses[q], None}
    BY <1>1, <1>2 DEF Typed
  <1>8. Typed'
    BY <1>1, <1>2, <1>4, <1>6, <1>7 DEF Typed
  <1>9. OwnFile'
    BY <1>7 DEF TInv, OwnFile
  <1> QED
    BY <1>1, <1>4, <1>6, <1>8, <1>9 DEF TInv, ShownOnce, Opens, Known, Forgotten

(* A notification settles what is kept for its file.                       *)
LEMMA NotifiedTyped ==
  ASSUME TInv, Notified
  PROVE  TInv'
  <1> DEFINE n == Head(notices)
             e == diffResponses[n.path]
  <1>1. /\ notices # <<>> /\ notices' = Tail(notices)
        /\ Settle(e, n.verdict)
        /\ diffResponses' = [diffResponses EXCEPT ![n.path] = None]
        /\ UNCHANGED <<opened, cli, requests, said, diffDocuments, handlers, drops,
                       disturbed>>
    BY DEF Notified, editorVars, historyVars
  <1>2. Typed
    BY DEF TInv
  <1>3. n \in Notice /\ notices' \in Seq(Notice)
    BY <1>1, <1>2, TailRange DEF Typed
  <1>4. n.path \in Paths /\ n.verdict \in Verdicts
    BY <1>3 DEF Notice
  <1>5. e \in Diffs \cup {None}
    BY <1>2, <1>4 DEF Typed
  <1> HIDE DEF e, n
  <1>6. promise' \in [Diffs -> {"new", "pending"} \cup Settled] /\ OpenedOnce'
    BY <1>1, <1>4, <1>5, SettleTyped
  <1>7. /\ diffResponses' \in [Paths -> Diffs \cup {None}]
        /\ \A p \in Paths : diffResponses'[p] \in {diffResponses[p], None}
    BY <1>1, <1>2 DEF Typed
  <1>8. Typed'
    BY <1>1, <1>2, <1>3, <1>6, <1>7 DEF Typed
  <1>9. OwnFile'
    BY <1>7 DEF TInv, OwnFile
  <1> QED
    BY <1>1, <1>6, <1>8, <1>9
       DEF TInv, AnswersOK, AnswerOK, ShownOnce, Opens, Known, Forgotten

(* A document is shown at the request that is the only one about it.       *)
LEMMA ShowTyped ==
  ASSUME TInv, showDiff
  PROVE  TInv'
  <1>1. /\ requests # <<>> /\ requests' = Tail(requests) /\ Opens(requests, 1)
        /\ diffDocuments' = diffDocuments \cup {requests[1].diff}
        /\ UNCHANGED <<promise, opened, diffResponses, cli, notices, said,
                       handlers, drops, disturbed>>
    <2>1. Head(requests) = requests[1]
      BY DEF TInv, Typed
    <2> QED
      BY <2>1 DEF showDiff, terminalVars, historyVars, Opens
  <1>2. Typed
    BY DEF TInv
  <1>3. requests' \in Seq(Request) /\ requests[1] \in Request /\ 1 \in DOMAIN requests
    BY <1>1, <1>2, TailRange DEF Typed
  <1>4. requests[1].diff \in Diffs
    BY <1>3 DEF Request
  <1>5. Typed'
    BY <1>1, <1>2, <1>3, <1>4 DEF Typed
  <1>6. ShownOnce'
    <2>1. Known' \subseteq Known \cup {requests[1].diff}
      BY <1>1 DEF Known
    <2> QED
      BY <1>1, <2>1, TailShown
  <1>7. Forgotten'
    <2>1. requests[1].diff \notin Known
      BY <1>1, <1>3 DEF TInv, ShownOnce
    <2> QED
      BY <1>1, <2>1 DEF TInv, Forgotten, Known
  <1> QED
    BY <1>1, <1>5, <1>6, <1>7 DEF TInv, OpenedOnce, OwnFile, AnswersOK, AnswerOK

(* A request to close asks for no document.                                *)
LEMMA CloseTyped ==
  ASSUME TInv, closeDiff
  PROVE  TInv'
  <1> DEFINE by == Head(requests).by
             docs == OfPath(PathOf[Head(requests).diff])
  <1>1. /\ requests # <<>> /\ requests' = Tail(requests)
        /\ UNCHANGED <<promise, opened, diffResponses, notices, diffDocuments,
                       said, drops, disturbed>>
    BY DEF closeDiff, historyVars
  <1>2. Typed
    BY DEF TInv
  <1>3. requests' \in Seq(Request) /\ Head(requests) \in Request
    BY <1>1, <1>2, TailRange DEF Typed
  <1>4. by \in Answers \cup {None}
    BY <1>3 DEF Request
  <1>5. OpenedOnce' /\ OwnFile'
    BY <1>1 DEF TInv, OpenedOnce, OwnFile
  <1>6. CASE docs = {}
    <2>1. cli' = [cli EXCEPT ![by].pc = "closed"] /\ handlers' = handlers
      BY <1>6 DEF closeDiff
    <2> HIDE DEF by
    <2>2. cli' \in [Answers -> Cli] /\ AnswersOK'
      BY <1>1, <2>1, CliClosed
    <2>3. Typed'
      BY <1>1, <1>2, <1>3, <2>1, <2>2 DEF Typed
    <2>4. ShownOnce' /\ Forgotten'
      BY <1>1, <2>1, TailShown DEF TInv, Known, Forgotten
    <2> QED
      BY <1>5, <2>2, <2>3, <2>4 DEF TInv
  <1>7. CASE docs # {}
    <2>1. cli' = cli
      BY <1>7 DEF closeDiff
    <2>2. PICK d \in Oldest(docs) : handlers' = handlers \cup {Closing(d, by)}
      BY <1>7, Zenon DEF closeDiff
    <2> DEFINE h == Closing(d, by)
    <2>3. d \in Diffs /\ d \in diffDocuments
      BY <1>2, <2>2 DEF Oldest, OfPath, Typed
    <2>4. /\ handlers' = handlers \cup {h} /\ h \in Handler
          /\ h.doc = d /\ h.pc = "document"
      BY <1>4, <2>2, <2>3 DEF Handler, Closing
    <2> HIDE DEF h, by
    <2>5. Typed'
      BY <1>1, <1>2, <1>3, <2>1, <2>4 DEF Typed
    <2>6. ShownOnce'
      <3>1. Known' = Known
        BY <1>1, <2>3, <2>4 DEF Known
      <3> QED
        BY <1>1, <3>1, TailShown
    <2>7. Forgotten' /\ AnswersOK'
      BY <1>1, <2>1, <2>4 DEF TInv, Forgotten, AnswersOK, AnswerOK
    <2> QED
      BY <1>5, <2>5, <2>6, <2>7 DEF TInv
  <1> QED
    BY <1>6, <1>7

(* The user answers in the editor.                                         *)
LEMMA ClickTyped ==
  ASSUME TInv, NEW d \in Diffs, NEW v \in Verdicts, AnswerInEditor(d, v)
  PROVE  TInv'
  <1> DEFINE h == Click(d, v)
  <1>1. /\ d \in diffDocuments /\ handlers' = handlers \cup {h}
        /\ said' = [said EXCEPT ![d] = @ \cup {v}]
        /\ UNCHANGED <<promise, opened, diffResponses, cli, requests, notices,
                       diffDocuments, drops, disturbed>>
    BY DEF AnswerInEditor, terminalVars
  <1>2. Typed /\ h \in Handler /\ h.doc = d /\ h.pc = "document"
    BY DEF TInv, Handler, Click
  <1> HIDE DEF h
  <1>3. Typed'
    BY <1>1, <1>2 DEF Typed
  <1>4. Known' = Known
    BY <1>1, <1>2 DEF Known
  <1>5. Forgotten'
    BY <1>1, <1>2 DEF TInv, Forgotten
  <1> QED
    BY <1>1, <1>3, <1>4, <1>5
       DEF TInv, OpenedOnce, OwnFile, AnswersOK, AnswerOK, ShownOnce, Opens

(* The document of a handler is forgotten.                                 *)
LEMMA ForgetTyped ==
  ASSUME TInv, NEW h \in handlers, ForgetDocument(h)
  PROVE  TInv'
  <1> DEFINE g == [h EXCEPT !.pc = "tab"]
  <1>1. /\ handlers' = (handlers \ {h}) \cup {g}
        /\ diffDocuments' = diffDocuments \ {h.doc}
        /\ UNCHANGED <<promise, opened, diffResponses, cli, requests, notices,
                       said, drops, disturbed>>
    BY DEF ForgetDocument, Remaining, terminalVars, historyVars
  <1>2. Typed /\ h \in Handler
    BY DEF TInv, Typed
  <1>3. g \in Handler /\ g.doc = h.doc /\ g.pc = "tab"
    BY <1>2 DEF Handler
  <1> HIDE DEF g
  <1>4. Typed'
    BY <1>1, <1>2, <1>3 DEF Typed
  <1>5. Known' \subseteq Known
    BY <1>1, <1>3 DEF Known
  <1>6. ShownOnce'
    BY <1>1, <1>5 DEF TInv, ShownOnce, Opens
  <1>7. Forgotten'
    BY <1>1, <1>3 DEF TInv, Forgotten
  <1> QED
    BY <1>1, <1>4, <1>6, <1>7 DEF TInv, OpenedOnce, OwnFile, AnswersOK, AnswerOK

(* What a handler that has closed its tab tells the terminal.              *)
LEMMA HandlerTells ==
  ASSUME TInv, NEW h \in handlers, HandlerEnds(h)
  PROVE  /\ notices' \in Seq(Notice)
         /\ \A n \in Range(notices') :
              \/ n \in Range(notices)
              \/ h.does # "close" /\ n = [path |-> PathOf[h.doc], verdict |-> h.does]
  <1>1. /\ h.pc = "tab"
        /\ notices' = IF connected THEN notices \o TabClosed(h) \o Tells(h) ELSE notices
    BY DEF HandlerEnds
  <1>2. notices \in Seq(Notice) /\ h \in Handler /\ PathOf \in [Diffs -> Paths]
    BY ConstantsOK DEF TInv, Typed
  <1>3. TabClosed(h) = <<>>
    BY <1>1 DEF TInv, Forgotten, TabClosed
  <1>4. notices \o TabClosed(h) = notices
    BY <1>2, <1>3
  <1> DEFINE m == [path |-> PathOf[h.doc], verdict |-> h.does]
  <1>5. CASE h.does = "close"
    <2>1. Tells(h) = <<>>
      BY <1>5 DEF Tells
    <2>2. notices' = notices
      BY <1>1, <1>2, <1>4, <2>1
    <2> QED
      BY <1>2, <2>2
  <1>6. CASE h.does # "close"
    <2>1. Tells(h) = <<m>> /\ m \in Notice
      BY <1>2, <1>6 DEF Tells, Notice, Handler
    <2> HIDE DEF m
    <2>2. notices' = notices \/ notices' = Append(notices, m)
      BY <1>1, <1>2, <1>4, <2>1
    <2>3. /\ Append(notices, m) \in Seq(Notice)
          /\ Range(Append(notices, m)) \subseteq Range(notices) \cup {m}
      BY <1>2, <2>1, AppendRange
    <2> QED
      BY <1>2, <1>6, <2>2, <2>3 DEF m
  <1> QED
    BY <1>5, <1>6

(* A handler ends.                                                         *)
LEMMA HandlerEndsTyped ==
  ASSUME TInv, NEW h \in handlers, HandlerEnds(h)
  PROVE  TInv'
  <1>1. /\ handlers' = handlers \ {h}
        /\ cli' = IF h.by = None THEN cli ELSE [cli EXCEPT ![h.by].pc = "closed"]
        /\ UNCHANGED <<promise, opened, diffResponses, requests, diffDocuments,
                       said, drops, disturbed>>
    BY DEF HandlerEnds, historyVars
  <1>2. Typed /\ notices' \in Seq(Notice)
    BY HandlerTells DEF TInv
  <1>3. cli' \in [Answers -> Cli] /\ AnswersOK'
    <2>1. CASE h.by = None
      BY <1>1, <2>1 DEF TInv, Typed, AnswersOK, AnswerOK
    <2>2. CASE h.by # None
      BY <1>1, <2>2, CliClosed
    <2> QED
      BY <2>1, <2>2
  <1>4. Typed'
    BY <1>1, <1>2, <1>3 DEF Typed
  <1>5. Known' \subseteq Known
    BY <1>1 DEF Known
  <1>6. ShownOnce' /\ Forgotten'
    BY <1>1, <1>5 DEF TInv, ShownOnce, Opens, Forgotten
  <1> QED
    BY <1>1, <1>3, <1>4, <1>6 DEF TInv, OpenedOnce, OwnFile

(* With the connection all requests are gone.                              *)
LEMMA LostMoves ==
  ASSUME TInv, ConnectionLost
  PROVE  /\ cli' \in [Answers -> Cli] /\ AnswersOK'
         /\ \A a \in Answers : /\ cli'[a].diff = cli[a].diff
                               /\ cli'[a].verdict = cli[a].verdict
                               /\ cli'[a].holds = cli[a].holds
         /\ promise' \in [Diffs -> {"new", "pending"} \cup Settled]
         /\ \A d \in Diffs : \/ promise'[d] = promise[d]
                             \/ promise[d] = "pending" /\ promise'[d] = "failed"
         /\ handlers' \subseteq Handler
         /\ \A g \in handlers' : \E h \in handlers :
              g.doc = h.doc /\ g.does = h.does /\ g.pc = h.pc
  <1>1. /\ promise' = [d \in Diffs |->
             IF promise[d] = "pending" /\ Unsent(d) THEN "failed" ELSE promise[d]]
        /\ cli' = [a \in Answers |-> CloseFails(cli[a])]
        /\ handlers' = {[h EXCEPT !.by = None] : h \in handlers}
        /\ opened' = opened
    BY DEF ConnectionLost
  <1>2. Typed /\ AnswersOK
    BY DEF TInv
  <1>3. ASSUME NEW c \in Cli
        PROVE  /\ CloseFails(c) \in Cli
               /\ CloseFails(c).diff = c.diff /\ CloseFails(c).verdict = c.verdict
               /\ CloseFails(c).holds = c.holds
               /\ CloseFails(c).pc \in {c.pc, "closed"}
    <2>1. CASE c.pc = "closing"
      BY <2>1 DEF CloseFails, Cli
    <2>2. CASE c.pc # "closing"
      BY <2>2 DEF CloseFails
    <2> QED
      BY <2>1, <2>2
  <1>4. /\ cli' \in [Answers -> Cli]
        /\ \A a \in Answers : /\ cli'[a].diff = cli[a].diff
                              /\ cli'[a].verdict = cli[a].verdict
                              /\ cli'[a].holds = cli[a].holds
                              /\ cli'[a].pc \in {cli[a].pc, "closed"}
    BY <1>1, <1>2, <1>3 DEF Typed
  <1>5. AnswersOK'
    BY <1>1, <1>2, <1>4 DEF AnswersOK, AnswerOK
  <1>6. /\ promise' \in [Diffs -> {"new", "pending"} \cup Settled]
        /\ \A d \in Diffs : \/ promise'[d] = promise[d]
                            \/ promise[d] = "pending" /\ promise'[d] = "failed"
    BY <1>1, <1>2 DEF Typed, Settled
  <1>7. ASSUME NEW h \in Handler
        PROVE  /\ [h EXCEPT !.by = None] \in Handler
               /\ [h EXCEPT !.by = None].doc = h.doc
               /\ [h EXCEPT !.by = None].does = h.does
               /\ [h EXCEPT !.by = None].pc = h.pc
    BY DEF Handler
  <1>8. /\ handlers' \subseteq Handler
        /\ \A g \in handlers' : \E h \in handlers :
             g.doc = h.doc /\ g.does = h.does /\ g.pc = h.pc
    <2> SUFFICES ASSUME NEW g \in handlers'
                 PROVE  /\ g \in Handler
                        /\ \E h \in handlers :
                             g.doc = h.doc /\ g.does = h.does /\ g.pc = h.pc
      OBVIOUS
    <2>1. PICK h \in handlers : g = [h EXCEPT !.by = None]
      BY <1>1
    <2>2. h \in Handler
      BY <1>2 DEF Typed
    <2>3. g \in Handler /\ g.doc = h.doc /\ g.does = h.does /\ g.pc = h.pc
      BY <1>7, <2>1, <2>2
    <2> QED
      BY <2>3
  <1> QED
    BY <1>4, <1>5, <1>6, <1>8

LEMMA LostTyped ==
  ASSUME TInv, ConnectionLost
  PROVE  TInv'
  <1>1. /\ requests' = <<>> /\ notices' = <<>>
        /\ drops < MaxDrops /\ drops' = drops + 1
        /\ UNCHANGED <<opened, diffResponses, said, diffDocuments, disturbed>>
    BY DEF ConnectionLost, historyVars
  <1>2. Typed
    BY DEF TInv
  <1>3. /\ requests' \in Seq(Request) /\ notices' \in Seq(Notice)
        /\ DOMAIN requests' = {} /\ drops' \in 0..MaxDrops
    BY <1>1, <1>2, ConstantsOK DEF Typed
  <1>4. Typed'
    BY <1>1, <1>2, <1>3, LostMoves DEF Typed
  <1>5. \A d \in Diffs : promise'[d] = "new" <=> promise[d] = "new"
    BY <1>2, LostMoves DEF Typed, Settled
  <1>6. OpenedOnce'
    BY <1>1, <1>5 DEF TInv, OpenedOnce
  <1>7. Known' \subseteq Known
    BY <1>1, LostMoves DEF Known
  <1>8. ShownOnce'
    BY <1>1, <1>3, <1>7 DEF TInv, ShownOnce
  <1>9. Forgotten'
    BY <1>1, LostMoves DEF TInv, Forgotten
  <1> QED
    BY <1>1, <1>4, <1>6, <1>8, <1>9, LostMoves DEF TInv, OwnFile

(* A step that leaves everything the invariant speaks of.                  *)
LEMMA SameTyped ==
  ASSUME TInv, UNCHANGED <<promise, opened, diffResponses, cli, requests, notices,
                           diffDocuments, handlers, said, drops, disturbed>>
  PROVE  TInv'
  BY DEF TInv, Typed, OpenedOnce, OwnFile, AnswersOK, AnswerOK, ShownOnce, Opens,
         Known, Forgotten

(* The state is well formed at the start.                                  *)
LEMMA InitTyped == Init => TInv
  <1> SUFFICES ASSUME Init PROVE TInv
    OBVIOUS
  <1>1. Idle \in Cli /\ AnswerOK(Idle, Range(opened))
    BY DEF Idle, Cli, AnswerOK
  <1>2. Typed
    BY <1>1, ConstantsOK DEF Init, Typed
  <1>3. OpenedOnce
    BY DEF Init, OpenedOnce, IsInjective, Range
  <1>4. OwnFile /\ ShownOnce /\ Forgotten
    BY DEF Init, OwnFile, ShownOnce, Known, Forgotten
  <1>5. AnswersOK
    BY <1>1 DEF Init, AnswersOK
  <1> QED
    BY <1>2, <1>3, <1>4, <1>5 DEF TInv

(* Every step keeps it well formed.                                        *)
LEMMA NextTyped ==
  ASSUME TInv, [Next]_vars
  PROVE  TInv'
  <1>1. CASE showDiff \/ closeDiff \/ Notified
    BY <1>1, ShowTyped, CloseTyped, NotifiedTyped
  <1>2. CASE \E a \in Answers : ReadResolver(a) \/ ResolveDiff(a)
    BY <1>2, ReadTyped, ResolveTyped
  <1>3. CASE \E h \in handlers : ForgetDocument(h) \/ HandlerEnds(h)
    BY <1>3, ForgetTyped, HandlerEndsTyped
  <1>4. CASE ConnectionLost
    BY <1>4, LostTyped
  <1>5. CASE connect \/ Done \/ UNCHANGED vars
    BY <1>5, SameTyped DEF connect, Done, vars, terminalVars, editorVars, historyVars
  <1>6. CASE \E d \in Diffs : openDiff(d)
    BY <1>6, OpenTyped
  <1>7. CASE \E d \in Diffs, v \in Verdicts :
               (\E a \in Answers : AnswerInTerminal(a, d, v)) \/ AnswerInEditor(d, v)
    BY <1>7, AnswerTyped, ClickTyped
  <1> QED
    BY <1>1, <1>2, <1>3, <1>4, <1>5, <1>6, <1>7 DEF Next, System

(* Whether or not edits of one file meet, the state is well formed: a      *)
(* resolver is kept under its own file, a diff is opened once, and the     *)
(* editor shows only what was opened and never a diff whose request is     *)
(* still to come (ide-client.ts 187-249, diff-manager.ts 80-146).          *)
THEOREM TypeCorrect == Spec => []TypeOK
  <1>1. TInv /\ [Next]_vars => TInv'
    BY NextTyped
  <1>2. TInv => TypeOK
    <2> SUFFICES ASSUME TInv PROVE TypeOK
      OBVIOUS
    <2>1. Typed /\ requests \in Seq(Request) /\ None \notin Diffs
      BY ConstantsOK DEF TInv, Typed
    <2>2. \A a \in Answers :
            /\ cli[a].pc \in {"idle", "timer", "closing", "closed"}
            /\ cli[a].diff \in IF cli[a].pc = "idle" THEN {None}
                               ELSE Range(opened) \cup {None}
      BY <2>1 DEF Typed, Cli, TInv, AnswersOK, AnswerOK
    <2>3. \A h \in handlers : h.doc \in Diffs /\ h.does \in Verdicts \cup {"close"}
      BY <2>1 DEF Typed, Handler
    <2>4. ASSUME NEW r \in Range(requests), r.op = "openDiff"
          PROVE  r.diff \notin diffDocuments
      <3>1. PICK i \in DOMAIN requests : requests[i] = r
        BY DEF Range
      <3> QED
        BY <2>4, <3>1 DEF TInv, ShownOnce, Opens, Known
    <2>5. diffDocuments \subseteq Range(opened)
      BY DEF TInv, ShownOnce, Known
    <2> QED
      BY <2>1, <2>2, <2>3, <2>4, <2>5 DEF TypeOK, TInv, Typed, OpenedOnce, OwnFile, Notice
  <1> QED
    BY InitTyped, <1>1, <1>2, PTL DEF Spec

-----------------------------------------------------------------------------
(* What settles a diff                                                     *)

(* Something about the diff is under way.                                  *)
Active(d) ==
  \/ promise[d] = "pending"
  \/ \E a \in Answers : cli[a].diff = d
  \/ d \in Known
  \/ \E r \in Range(requests) : r.diff = d

Alone ==
  \A d \in Diffs \ disturbed, e \in Diffs :
    promise[d] = "pending" /\ PathOf[e] = PathOf[d] /\ Active(e) => e = d

AnswersSaid ==
  \A a \in Answers : cli[a].diff # None => cli[a].verdict \in said[cli[a].diff]
ClicksSaid ==
  \A h \in handlers : h.does # "close" => h.does \in said[h.doc]
(* A notification tells what was said of some diff of its file, and of the *)
(* one that waits if that has met no other.                                *)
NoticesSaid ==
  \A n \in Range(notices) :
    /\ n.verdict \in SaidOf(n.path)
    /\ \A d \in Diffs \ disturbed :
         PathOf[d] = n.path /\ promise[d] = "pending" => n.verdict \in said[d]

IInv == TInv /\ Alone /\ AnswersSaid /\ ClicksSaid /\ NoticesSaid /\ SettledByTheUser

(* A step that adds to what is about, or to what was said, nothing that    *)
(* concerns another diff.                                                  *)
LEMMA StillAlone ==
  ASSUME Alone, disturbed' = disturbed, \A d \in Diffs : Active(d)' => Active(d),
         \A d \in Diffs : promise'[d] = "pending" => promise[d] = "pending"
  PROVE  Alone'
  BY DEF Alone

(* What has been said stays said.                                          *)
LEMMA SaidGrows ==
  ASSUME NEW p, \A d \in Diffs : said[d] \subseteq said'[d]
  PROVE  SaidOf(p) \subseteq SaidOf(p)'
  BY DEF SaidOf

(* The step adds no notification and makes no diff wait.                   *)
LEMMA NoticesKept ==
  ASSUME NoticesSaid, Range(notices') \subseteq Range(notices),
         disturbed \subseteq disturbed',
         \A d \in Diffs : promise'[d] = "pending" => promise[d] = "pending",
         \A d \in Diffs : said[d] \subseteq said'[d]
  PROVE  NoticesSaid'
  BY SaidGrows DEF NoticesSaid

(* A diff settles by what the user said about it.                          *)
LEMMA SettleSaid ==
  ASSUME IInv, NEW e \in Diffs \cup {None}, NEW v, Settle(e, v), opened' = opened,
         said' = said, disturbed' = disturbed,
         e \in Diffs => v \in Verdicts /\ v \in SaidOf(PathOf[e]),
         e \in Diffs \ disturbed /\ promise[e] = "pending" => v \in said[e]
  PROVE  /\ SettledByTheUser'
         /\ \A d \in Diffs : promise'[d] = "pending" => promise[d] = "pending"
  <1>1. TInv /\ SettledByTheUser
    BY DEF IInv
  <1>2. \A d \in Diffs : \/ promise'[d] = promise[d]
                         \/ d = e /\ promise[d] = "pending" /\ promise'[d] = v
    BY <1>1, SettleTyped
  <1>3. \A d \in Diffs : promise'[d] = "pending" => promise[d] = "pending"
    BY <1>2
  <1>4. SaidOf(PathOf[e])' = SaidOf(PathOf[e])
    BY DEF SaidOf
  <1>5. ASSUME NEW d \in Diffs, promise'[d] \in Verdicts
        PROVE  promise'[d] \in IF d \in disturbed' THEN SaidOf(PathOf[d])' ELSE said'[d]
    <2>1. CASE promise'[d] = promise[d]
      <3>1. SaidOf(PathOf[d])' = SaidOf(PathOf[d])
        BY DEF SaidOf
      <3> QED
        BY <1>1, <1>5, <2>1, <3>1 DEF SettledByTheUser
    <2>2. CASE d = e /\ promise[d] = "pending" /\ promise'[d] = v
      BY <1>4, <1>5, <2>2
    <2> QED
      BY <1>2, <2>1, <2>2
  <1> QED
    BY <1>3, <1>5 DEF SettledByTheUser

(* Nothing settles with a verdict, and what was said stays said.           *)
LEMMA SettledKept ==
  ASSUME SettledByTheUser, disturbed \subseteq disturbed',
         \A d \in disturbed' \ disturbed : promise'[d] \notin Verdicts,
         \A d \in Diffs : promise'[d] \in Verdicts => promise'[d] = promise[d],
         \A d \in Diffs : said[d] \subseteq said'[d]
  PROVE  SettledByTheUser'
  BY SaidGrows DEF SettledByTheUser

(* A diff is opened: it is undisturbed only if nothing of its file was     *)
(* about.                                                                  *)
LEMMA OpenStep ==
  ASSUME IInv, NEW d \in Diffs, openDiff(d)
  PROVE  IInv'
  <1> DEFINE r == [op |-> "openDiff", diff |-> d, by |-> None]
  <1>1. /\ promise[d] = "new"
        /\ promise' = [promise EXCEPT ![d] = "pending"]
        /\ requests' = Append(requests, r)
        /\ disturbed' = disturbed \cup
             IF Busy(PathOf[d]) THEN {d} \cup Pending(PathOf[d]) ELSE {}
        /\ UNCHANGED <<cli, notices, said, diffDocuments, handlers>>
    BY DEF openDiff, editorVars
  <1>2. TInv /\ Typed /\ PathOf \in [Diffs -> Paths] /\ None \notin Diffs /\ AnswersOK
    BY ConstantsOK DEF IInv, TInv
  <1>3. TInv'
    BY <1>2, OpenTyped
  <1>4. r \in Request /\ r.diff = d
    BY DEF Request
  <1> HIDE DEF r
  <1>5. Range(requests') \subseteq Range(requests) \cup {r}
    BY <1>1, <1>2, <1>4, AppendRange DEF Typed
  <1>6. \A e \in Diffs \ {d} : promise'[e] = promise[e]
    BY <1>1, <1>2 DEF Typed
  <1>7. \A e \in Diffs \ {d} : Active(e)' => Active(e)
    BY <1>1, <1>4, <1>5, <1>6 DEF Active, Known
  <1>8. ASSUME NEW e \in Diffs, PathOf[e] = PathOf[d], Active(e)
        PROVE  Busy(PathOf[d])
    <2>1. CASE promise[e] = "pending"
      BY <1>8, <2>1 DEF Busy, Pending
    <2>2. CASE \E a \in Answers : cli[a].diff = e
      BY <1>2, <1>8, <2>2 DEF Busy, AnswersOK, AnswerOK
    <2>3. CASE e \in Known
      BY <1>8, <2>3 DEF Busy, Known
    <2>4. CASE \E s \in Range(requests) : s.diff = e
      BY <1>8, <2>4 DEF Busy
    <2> QED
      BY <1>8, <2>1, <2>2, <2>3, <2>4 DEF Active
  <1>9. Alone'
    <2> SUFFICES ASSUME NEW f \in Diffs \ disturbed', NEW e \in Diffs,
                        promise'[f] = "pending", PathOf[e] = PathOf[f], Active(e)',
                        e # f
                 PROVE  FALSE
      BY DEF Alone
    <2>1. CASE f = d
      BY <1>1, <1>7, <1>8, <2>1
    <2>2. CASE f # d /\ e = d
      <3>1. f \in Pending(PathOf[d]) /\ Active(f)
        BY <1>6, <2>2 DEF Pending, Active
      <3> QED
        BY <1>1, <1>8, <2>2, <3>1
    <2>3. CASE f # d /\ e # d
      BY <1>1, <1>6, <1>7, <2>3 DEF IInv, Alone
    <2> QED
      BY <2>1, <2>2, <2>3
  <1>10. AnswersSaid' /\ ClicksSaid'
    BY <1>1 DEF IInv, AnswersSaid, ClicksSaid
  <1>11. NoticesSaid'
    <2>1. d \notin disturbed' => \A n \in Range(notices) : n.path # PathOf[d]
      BY <1>1 DEF Busy
    <2>2. \A p : SaidOf(p)' = SaidOf(p)
      BY <1>1 DEF SaidOf
    <2> QED
      BY <1>1, <1>6, <2>1, <2>2 DEF IInv, NoticesSaid
  <1>12. SettledByTheUser'
    <2>1. \A e \in disturbed' \ disturbed : promise'[e] \notin Verdicts
      BY <1>1, <1>2, <1>6 DEF Pending, Verdicts, Typed
    <2>2. \A e \in Diffs : promise'[e] \in Verdicts => promise'[e] = promise[e]
      BY <1>1, <1>2, <1>6 DEF Verdicts, Typed
    <2> QED
      BY <1>1, <2>1, <2>2, SettledKept DEF IInv
  <1> QED
    BY <1>3, <1>9, <1>10, <1>11, <1>12 DEF IInv

(* The user answers in the terminal a diff that waits, or was answered.    *)
LEMMA TerminalAnswerStep ==
  ASSUME IInv, NEW a \in Answers, NEW d \in Diffs, NEW v \in Verdicts,
         AnswerInTerminal(a, d, v)
  PROVE  IInv'
  <1> DEFINE c == [pc |-> "timer", diff |-> d, verdict |-> v, holds |-> None]
  <1>1. /\ Asked(d)
        /\ cli' = [cli EXCEPT ![a] = c]
        /\ said' = [said EXCEPT ![d] = @ \cup {v}]
        /\ UNCHANGED <<promise, requests, notices, diffDocuments, handlers,
                       disturbed>>
    BY DEF AnswerInTerminal, editorVars
  <1>2. TInv /\ Typed
    BY DEF IInv, TInv
  <1>3. TInv'
    BY <1>2, AnswerTyped
  <1>4. c.diff = d /\ c.verdict = v
    OBVIOUS
  <1> HIDE DEF c
  <1>5. cli'[a] = c /\ \A b \in Answers \ {a} : cli'[b] = cli[b]
    BY <1>1, <1>2 DEF Typed
  <1>6. v \in said'[d] /\ \A e \in Diffs : said[e] \subseteq said'[e]
    BY <1>1, <1>2 DEF Typed
  <1>7. Alone'
    <2>1. Active(d)
      BY <1>1 DEF Asked, Active
    <2>2. \A e \in Diffs : Active(e)' => Active(e)
      BY <1>1, <1>4, <1>5, <2>1 DEF Active, Known
    <2> QED
      BY <1>1, <2>2, StillAlone DEF IInv
  <1>8. AnswersSaid'
    <2>1. \A b \in Answers : cli[b].diff \in Diffs \cup {None}
      BY <1>2 DEF Typed, Cli
    <2> QED
      BY <1>4, <1>5, <1>6, <2>1 DEF IInv, AnswersSaid
  <1>9. ClicksSaid'
    BY <1>1, <1>2, <1>6 DEF IInv, ClicksSaid, Typed, Handler
  <1>10. NoticesSaid'
    BY <1>1, <1>6, NoticesKept DEF IInv
  <1>11. SettledByTheUser'
    BY <1>1, <1>6, SettledKept DEF IInv
  <1> QED
    BY <1>3, <1>7, <1>8, <1>9, <1>10, <1>11 DEF IInv

(* resolveDiffFromCli takes the resolver of the file.                      *)
LEMMA ReadStep ==
  ASSUME IInv, NEW a \in Answers, ReadResolver(a)
  PROVE  IInv'
  <1> DEFINE d == cli[a].diff
             r == [op |-> "closeDiff", diff |-> d, by |-> a]
             pc == IF connected THEN "closing" ELSE "closed"
             holds == diffResponses[PathOf[d]]
             c == [cli[a] EXCEPT !.holds = holds, !.pc = pc]
  <1>1. /\ cli[a].pc = "timer"
        /\ cli' = [cli EXCEPT ![a].holds = holds, ![a].pc = pc]
        /\ requests' = IF connected THEN Append(requests, r) ELSE requests
        /\ UNCHANGED <<promise, opened, notices, said, diffDocuments, handlers,
                       disturbed>>
    BY DEF ReadResolver, editorVars, historyVars
  <1>2. TInv /\ Typed /\ AnswerOK(cli[a], Range(opened)) /\ cli[a] \in Cli
    BY DEF IInv, TInv, AnswersOK, Typed
  <1>3. TInv'
    BY <1>2, ReadTyped
  <1>4. cli' = [cli EXCEPT ![a] = c]
    BY <1>1
  <1> HIDE DEF holds, pc
  <1>5. c.diff = d /\ c.verdict = cli[a].verdict
    BY <1>2 DEF Cli
  <1>6. d \in Diffs
    BY <1>1, <1>2 DEF AnswerOK, Cli
  <1>7. r \in Request /\ r.diff = d
    BY <1>6 DEF Request
  <1> HIDE DEF c, r
  <1>8. cli'[a] = c /\ \A b \in Answers \ {a} : cli'[b] = cli[b]
    BY <1>2, <1>4 DEF Typed
  <1>9. Range(requests') \subseteq Range(requests) \cup {r}
    BY <1>1, <1>2, <1>7, AppendRange DEF Typed
  <1>10. Alone'
    <2>1. \A b \in Answers : cli'[b].diff = cli[b].diff
      BY <1>5, <1>8
    <2>2. \A e \in Diffs : Active(e)' => Active(e)
      BY <1>1, <1>7, <1>9, <2>1 DEF Active, Known
    <2> QED
      BY <1>1, <2>2, StillAlone DEF IInv
  <1>11. AnswersSaid'
    BY <1>1, <1>5, <1>8 DEF IInv, AnswersSaid
  <1>12. ClicksSaid'
    BY <1>1 DEF IInv, ClicksSaid
  <1>13. NoticesSaid'
    BY <1>1, NoticesKept DEF IInv
  <1>14. SettledByTheUser'
    BY <1>1, SettledKept DEF IInv
  <1> QED
    BY <1>3, <1>10, <1>11, <1>12, <1>13, <1>14 DEF IInv

(* The answer settles the diff whose resolver it holds: if that waits and  *)
(* has met no other, it is the diff that was answered.                     *)
LEMMA ResolveStep ==
  ASSUME IInv, NEW a \in Answers, ResolveDiff(a)
  PROVE  IInv'
  <1> DEFINE e == cli[a].holds
             v == cli[a].verdict
             d == cli[a].diff
  <1>1. /\ Settle(e, v)
        /\ cli' = [cli EXCEPT ![a] = Idle]
        /\ UNCHANGED <<opened, requests, notices, said, diffDocuments, handlers,
                       disturbed>>
    BY DEF ResolveDiff, editorVars, historyVars
  <1>2. /\ TInv /\ Typed /\ AnswerOK(cli[a], Range(opened)) /\ cli[a] \in Cli /\ None \notin Diffs
        /\ AnswersSaid
    BY ConstantsOK DEF IInv, TInv, AnswersOK, Typed
  <1>3. TInv'
    BY <1>2, ResolveTyped
  <1>4. e \in Diffs \cup {None}
    BY <1>2 DEF Cli
  <1>5. ASSUME e \in Diffs
        PROVE  /\ d \in Diffs /\ PathOf[e] = PathOf[d]
               /\ v \in Verdicts /\ v \in said[d]
    BY <1>2, <1>5 DEF AnswerOK, AnswersSaid, Cli
  <1>6. e \in Diffs => v \in Verdicts /\ v \in SaidOf(PathOf[e])
    BY <1>5 DEF SaidOf
  <1>7. e \in Diffs \ disturbed /\ promise[e] = "pending" => v \in said[e]
    <2>1. Active(d)
      BY DEF Active
    <2> QED
      BY <1>5, <2>1 DEF IInv, Alone
  <1> HIDE DEF e, v, d
  <1>8. /\ SettledByTheUser'
        /\ \A f \in Diffs : promise'[f] = "pending" => promise[f] = "pending"
    BY <1>1, <1>4, <1>6, <1>7, SettleSaid
  <1>9. \A b \in Answers : cli'[b] = cli[b] \/ cli'[b].diff = None
    BY <1>1, <1>2 DEF Typed, Idle
  <1>10. Alone'
    <2>1. \A f \in Diffs : Active(f)' => Active(f)
      BY <1>1, <1>2, <1>8, <1>9 DEF Active, Known
    <2> QED
      BY <1>1, <1>8, <2>1, StillAlone DEF IInv
  <1>11. AnswersSaid' /\ ClicksSaid'
    BY <1>1, <1>2, <1>9 DEF IInv, AnswersSaid, ClicksSaid
  <1>12. NoticesSaid'
    BY <1>1, <1>8, NoticesKept DEF IInv
  <1> QED
    BY <1>3, <1>8, <1>10, <1>11, <1>12 DEF IInv

(* A notification settles the diff whose resolver is kept for its file.    *)
LEMMA NotifiedStep ==
  ASSUME IInv, Notified
  PROVE  IInv'
  <1> DEFINE n == Head(notices)
             e == diffResponses[n.path]
  <1>1. /\ notices # <<>> /\ notices' = Tail(notices)
        /\ Settle(e, n.verdict)
        /\ UNCHANGED <<opened, cli, requests, said, diffDocuments, handlers,
                       disturbed>>
    BY DEF Notified, editorVars, historyVars
  <1>2. TInv /\ Typed /\ NoticesSaid /\ None \notin Diffs
    BY ConstantsOK DEF IInv, TInv
  <1>3. TInv'
    BY <1>2, NotifiedTyped
  <1>4. n \in Notice /\ n \in Range(notices) /\ Range(notices') \subseteq Range(notices)
    BY <1>1, <1>2, TailRange DEF Typed
  <1>5. n.path \in Paths /\ n.verdict \in Verdicts
    BY <1>4 DEF Notice
  <1>6. e \in Diffs \cup {None} /\ (e \in Diffs => PathOf[e] = n.path)
    BY <1>2, <1>5 DEF TInv, Typed, OwnFile
  <1>7. e \in Diffs => n.verdict \in Verdicts /\ n.verdict \in SaidOf(PathOf[e])
    BY <1>2, <1>4, <1>5, <1>6 DEF NoticesSaid
  <1>8. e \in Diffs \ disturbed /\ promise[e] = "pending" => n.verdict \in said[e]
    BY <1>2, <1>4, <1>6 DEF NoticesSaid
  <1> HIDE DEF e, n
  <1>9. /\ SettledByTheUser'
        /\ \A f \in Diffs : promise'[f] = "pending" => promise[f] = "pending"
    BY <1>1, <1>6, <1>7, <1>8, SettleSaid
  <1>10. Alone'
    <2>1. \A f \in Diffs : Active(f)' => Active(f)
      BY <1>1, <1>9 DEF Active, Known
    <2> QED
      BY <1>1, <1>9, <2>1, StillAlone DEF IInv
  <1>11. AnswersSaid' /\ ClicksSaid'
    BY <1>1 DEF IInv, AnswersSaid, ClicksSaid
  <1>12. NoticesSaid'
    BY <1>1, <1>4, <1>9, NoticesKept DEF IInv
  <1> QED
    BY <1>3, <1>9, <1>10, <1>11, <1>12 DEF IInv

(* The document of a request is shown.                                     *)
LEMMA ShowStep ==
  ASSUME IInv, showDiff
  PROVE  IInv'
  <1>1. /\ requests # <<>> /\ requests' = Tail(requests)
        /\ diffDocuments' = diffDocuments \cup {Head(requests).diff}
        /\ UNCHANGED <<promise, cli, notices, said, handlers, disturbed>>
    BY DEF showDiff, terminalVars, historyVars
  <1>2. TInv /\ Typed
    BY DEF IInv, TInv
  <1>3. TInv'
    BY <1>2, ShowTyped
  <1>4. Range(requests') \subseteq Range(requests) /\ Head(requests) \in Range(requests)
    BY <1>1, <1>2, TailRange DEF Typed
  <1>5. Alone'
    <2>1. \A e \in Diffs : Active(e)' => Active(e)
      BY <1>1, <1>4 DEF Active, Known
    <2> QED
      BY <1>1, <2>1, StillAlone DEF IInv
  <1>6. AnswersSaid' /\ ClicksSaid'
    BY <1>1 DEF IInv, AnswersSaid, ClicksSaid
  <1>7. NoticesSaid' /\ SettledByTheUser'
    BY <1>1, NoticesKept, SettledKept DEF IInv
  <1> QED
    BY <1>3, <1>5, <1>6, <1>7 DEF IInv

(* A request to close finds a document that is shown, or none.             *)
LEMMA CloseStep ==
  ASSUME IInv, closeDiff
  PROVE  IInv'
  <1> DEFINE by == Head(requests).by
             docs == OfPath(PathOf[Head(requests).diff])
  <1>1. /\ requests # <<>> /\ requests' = Tail(requests)
        /\ UNCHANGED <<promise, opened, notices, diffDocuments, said, disturbed>>
    BY DEF closeDiff, historyVars
  <1>2. TInv /\ Typed
    BY DEF IInv, TInv
  <1>3. TInv'
    BY <1>2, CloseTyped
  <1>4. Range(requests') \subseteq Range(requests)
    BY <1>1, <1>2, TailRange DEF Typed
  <1>5. NoticesSaid' /\ SettledByTheUser'
    BY <1>1, NoticesKept, SettledKept DEF IInv
  <1>6. CASE docs = {}
    <2>1. cli' = [cli EXCEPT ![by].pc = "closed"] /\ handlers' = handlers
      BY <1>6 DEF closeDiff
    <2> HIDE DEF by
    <2>2. \A a \in Answers : /\ cli'[a].diff = cli[a].diff
                             /\ cli'[a].verdict = cli[a].verdict
      BY <1>1, <1>2, <2>1, CliClosed
    <2>3. \A e \in Diffs : Active(e)' => Active(e)
      BY <1>1, <1>4, <2>1, <2>2 DEF Active, Known
    <2>4. Alone'
      BY <1>1, <2>3, StillAlone DEF IInv
    <2>5. AnswersSaid' /\ ClicksSaid'
      BY <1>1, <2>1, <2>2 DEF IInv, AnswersSaid, ClicksSaid
    <2> QED
      BY <1>3, <1>5, <2>4, <2>5 DEF IInv
  <1>7. CASE docs # {}
    <2>1. cli' = cli
      BY <1>7 DEF closeDiff
    <2>2. PICK d \in Oldest(docs) : handlers' = handlers \cup {Closing(d, by)}
      BY <1>7, Zenon DEF closeDiff
    <2> DEFINE h == Closing(d, by)
    <2>3. d \in diffDocuments
      BY <2>2 DEF Oldest, OfPath
    <2>4. handlers' = handlers \cup {h} /\ h.doc = d /\ h.does = "close"
      BY <2>2 DEF Closing
    <2> HIDE DEF h, by
    <2>5. \A e \in Diffs : Active(e)' => Active(e)
      BY <1>1, <1>4, <2>1, <2>3, <2>4 DEF Active, Known
    <2>6. Alone'
      BY <1>1, <2>5, StillAlone DEF IInv
    <2>7. AnswersSaid' /\ ClicksSaid'
      BY <1>1, <2>1, <2>4 DEF IInv, AnswersSaid, ClicksSaid
    <2> QED
      BY <1>3, <1>5, <2>6, <2>7 DEF IInv
  <1> QED
    BY <1>6, <1>7

(* The user answers in the editor.                                         *)
LEMMA EditorAnswerStep ==
  ASSUME IInv, NEW d \in Diffs, NEW v \in Verdicts, AnswerInEditor(d, v)
  PROVE  IInv'
  <1> DEFINE h == Click(d, v)
  <1>1. /\ d \in diffDocuments /\ handlers' = handlers \cup {h}
        /\ said' = [said EXCEPT ![d] = @ \cup {v}]
        /\ UNCHANGED <<promise, cli, requests, notices, diffDocuments, disturbed>>
    BY DEF AnswerInEditor, terminalVars
  <1>2. TInv /\ Typed
    BY DEF IInv, TInv
  <1>3. TInv'
    BY <1>2, ClickTyped
  <1>4. h.doc = d /\ h.does = v
    BY DEF Click
  <1> HIDE DEF h
  <1>5. v \in said'[d] /\ \A e \in Diffs : said[e] \subseteq said'[e]
    BY <1>1, <1>2 DEF Typed
  <1>6. Alone'
    <2>1. \A e \in Diffs : Active(e)' => Active(e)
      BY <1>1, <1>4 DEF Active, Known
    <2> QED
      BY <1>1, <2>1, StillAlone DEF IInv
  <1>7. AnswersSaid'
    <2>1. \A a \in Answers : cli[a].diff \in Diffs \cup {None}
      BY <1>2 DEF Typed, Cli
    <2> QED
      BY <1>1, <1>5, <2>1 DEF IInv, AnswersSaid
  <1>8. ClicksSaid'
    <2>1. \A g \in handlers : g.doc \in Diffs
      BY <1>2 DEF Typed, Handler
    <2> QED
      BY <1>1, <1>4, <1>5, <2>1 DEF IInv, ClicksSaid
  <1>9. NoticesSaid' /\ SettledByTheUser'
    BY <1>1, <1>5, NoticesKept, SettledKept DEF IInv
  <1> QED
    BY <1>3, <1>6, <1>7, <1>8, <1>9 DEF IInv

(* A handler forgets its document, then tells what was said of it.         *)
LEMMA ForgetStep ==
  ASSUME IInv, NEW h \in handlers, ForgetDocument(h)
  PROVE  IInv'
  <1> DEFINE g == [h EXCEPT !.pc = "tab"]
  <1>1. /\ handlers' = (handlers \ {h}) \cup {g}
        /\ diffDocuments' = diffDocuments \ {h.doc}
        /\ UNCHANGED <<promise, cli, requests, notices, said, disturbed>>
    BY DEF ForgetDocument, Remaining, terminalVars, historyVars
  <1>2. TInv /\ h \in Handler
    BY DEF IInv, TInv, Typed
  <1>3. TInv'
    BY <1>2, ForgetTyped
  <1>4. g.doc = h.doc /\ g.does = h.does
    BY <1>2 DEF Handler
  <1> HIDE DEF g
  <1>5. Alone'
    <2>1. \A e \in Diffs : Active(e)' => Active(e)
      BY <1>1, <1>4 DEF Active, Known
    <2> QED
      BY <1>1, <2>1, StillAlone DEF IInv
  <1>6. AnswersSaid' /\ ClicksSaid'
    BY <1>1, <1>4 DEF IInv, AnswersSaid, ClicksSaid
  <1>7. NoticesSaid' /\ SettledByTheUser'
    BY <1>1, NoticesKept, SettledKept DEF IInv
  <1> QED
    BY <1>3, <1>5, <1>6, <1>7 DEF IInv

LEMMA HandlerEndsStep ==
  ASSUME IInv, NEW h \in handlers, HandlerEnds(h)
  PROVE  IInv'
  <1>1. /\ handlers' = handlers \ {h}
        /\ cli' = IF h.by = None THEN cli ELSE [cli EXCEPT ![h.by].pc = "closed"]
        /\ UNCHANGED <<promise, opened, requests, diffDocuments, said, disturbed>>
    BY DEF HandlerEnds, historyVars
  <1>2. TInv /\ h \in Handler
    BY DEF IInv, TInv, Typed
  <1>3. TInv'
    BY <1>2, HandlerEndsTyped
  <1>4. h.doc \in Diffs
    BY <1>2 DEF Handler
  <1>5. \A a \in Answers : /\ cli'[a].diff = cli[a].diff
                           /\ cli'[a].verdict = cli[a].verdict
    BY <1>1, <1>2, CliClosed
  <1>6. Alone'
    <2>1. \A e \in Diffs : Active(e)' => Active(e)
      BY <1>1, <1>5 DEF Active, Known
    <2> QED
      BY <1>1, <2>1, StillAlone DEF IInv
  <1>7. AnswersSaid' /\ ClicksSaid'
    BY <1>1, <1>5 DEF IInv, AnswersSaid, ClicksSaid
  <1>8. NoticesSaid'
    <2> SUFFICES ASSUME NEW n \in Range(notices')
                 PROVE  /\ n.verdict \in SaidOf(n.path)'
                        /\ \A d \in Diffs \ disturbed :
                             PathOf[d] = n.path /\ promise[d] = "pending"
                             => n.verdict \in said[d]
      BY <1>1 DEF NoticesSaid
    <2>1. SaidOf(n.path)' = SaidOf(n.path)
      BY <1>1 DEF SaidOf
    <2>2. CASE n \in Range(notices)
      BY <2>1, <2>2 DEF IInv, NoticesSaid
    <2>3. CASE h.does # "close" /\ n = [path |-> PathOf[h.doc], verdict |-> h.does]
      <3>1. n.path = PathOf[h.doc] /\ n.verdict \in said[h.doc]
        BY <2>3 DEF IInv, ClicksSaid
      <3>2. Active(h.doc)
        BY DEF Active, Known
      <3> QED
        BY <1>4, <2>1, <3>1, <3>2 DEF IInv, Alone, SaidOf
    <2> QED
      BY <1>2, <2>2, <2>3, HandlerTells
  <1>9. SettledByTheUser'
    BY <1>1, SettledKept DEF IInv
  <1> QED
    BY <1>3, <1>6, <1>7, <1>8, <1>9 DEF IInv

(* What fails with the connection is not accepted or rejected.             *)
LEMMA LostStep ==
  ASSUME IInv, ConnectionLost
  PROVE  IInv'
  <1>1. /\ requests' = <<>> /\ notices' = <<>>
        /\ UNCHANGED <<said, diffDocuments, disturbed>>
    BY DEF ConnectionLost, historyVars
  <1>2. TInv
    BY DEF IInv
  <1>3. TInv'
    BY <1>2, LostTyped
  <1>4. Range(requests') = {} /\ Range(notices') = {}
    BY <1>1 DEF Range
  <1>5. \A d \in Diffs : /\ promise'[d] = "pending" => promise[d] = "pending"
                         /\ promise'[d] \in Verdicts => promise'[d] = promise[d]
    BY <1>2, LostMoves DEF Verdicts
  <1>6. Alone'
    <2>1. Known' \subseteq Known
      BY <1>1, <1>2, LostMoves DEF Known
    <2>2. \A e \in Diffs : Active(e)' => Active(e)
      BY <1>2, <1>4, <1>5, <2>1, LostMoves DEF Active
    <2> QED
      BY <1>1, <1>5, <2>2, StillAlone DEF IInv
  <1>7. AnswersSaid'
    BY <1>1, <1>2, LostMoves DEF IInv, AnswersSaid
  <1>8. ClicksSaid'
    BY <1>1, <1>2, LostMoves DEF IInv, ClicksSaid
  <1>9. NoticesSaid'
    BY <1>4 DEF NoticesSaid
  <1>10. SettledByTheUser'
    BY <1>1, <1>5, SettledKept DEF IInv
  <1> QED
    BY <1>3, <1>6, <1>7, <1>8, <1>9, <1>10 DEF IInv

(* A step that leaves everything the invariant speaks of.                  *)
LEMMA SameStep ==
  ASSUME IInv, UNCHANGED <<promise, opened, diffResponses, cli, requests, notices,
                           diffDocuments, handlers, said, drops, disturbed>>
  PROVE  IInv'
  <1>1. TInv'
    BY SameTyped DEF IInv
  <1>2. Alone' /\ AnswersSaid' /\ ClicksSaid'
    BY DEF IInv, Alone, Active, Known, AnswersSaid, ClicksSaid
  <1>3. NoticesSaid' /\ SettledByTheUser'
    BY NoticesKept, SettledKept DEF IInv
  <1> QED
    BY <1>1, <1>2, <1>3 DEF IInv

(* Nothing is about at the start.                                          *)
LEMMA InitOK == Init => IInv
  <1> SUFFICES ASSUME Init PROVE IInv
    OBVIOUS
  <1>1. TInv
    BY InitTyped
  <1>2. \A a \in Answers : cli[a].diff = None
    BY DEF Init, Idle
  <1>3. \A d \in Diffs : promise[d] = "new"
    BY DEF Init
  <1>4. Alone /\ AnswersSaid /\ ClicksSaid
    BY <1>2, <1>3 DEF Init, Alone, AnswersSaid, ClicksSaid
  <1>5. NoticesSaid /\ SettledByTheUser
    BY <1>3 DEF Init, NoticesSaid, SettledByTheUser, Verdicts, Range
  <1> QED
    BY <1>1, <1>4, <1>5 DEF IInv

(* Every step keeps the invariant.                                         *)
LEMMA NextOK ==
  ASSUME IInv, [Next]_vars
  PROVE  IInv'
  <1>1. CASE showDiff \/ closeDiff \/ Notified
    BY <1>1, ShowStep, CloseStep, NotifiedStep
  <1>2. CASE \E a \in Answers : ReadResolver(a) \/ ResolveDiff(a)
    BY <1>2, ReadStep, ResolveStep
  <1>3. CASE \E h \in handlers : ForgetDocument(h) \/ HandlerEnds(h)
    BY <1>3, ForgetStep, HandlerEndsStep
  <1>4. CASE ConnectionLost
    BY <1>4, LostStep
  <1>5. CASE connect \/ Done \/ UNCHANGED vars
    BY <1>5, SameStep DEF connect, Done, vars, terminalVars, editorVars, historyVars
  <1>6. CASE \E d \in Diffs : openDiff(d)
    BY <1>6, OpenStep
  <1>7. CASE \E d \in Diffs, v \in Verdicts :
               (\E a \in Answers : AnswerInTerminal(a, d, v)) \/ AnswerInEditor(d, v)
    BY <1>7, TerminalAnswerStep, EditorAnswerStep
  <1> QED
    BY <1>1, <1>2, <1>3, <1>4, <1>5, <1>6, <1>7 DEF Next, System

(* A diff that met nothing of another edit of its file is accepted or      *)
(* rejected only if the user said so of it, and any diff only if the user  *)
(* said so of a diff of its file, whatever the order of answers, clicks,   *)
(* notifications and lost connections (ide-client.ts 187-249, 435-463,     *)
(* diff-manager.ts 135-219).                                               *)
THEOREM SettledAsTheUserSaid == Spec => []SettledByTheUser
  <1>1. IInv /\ [Next]_vars => IInv'
    BY NextOK
  <1>2. IInv => SettledByTheUser
    BY DEF IInv
  <1> QED
    BY InitOK, <1>1, <1>2, PTL DEF Spec
=============================================================================
