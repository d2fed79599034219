------------------------------- MODULE IdeDiffs -------------------------------
(***************************************************************************)
(* Proposed edits shown in the editor: IdeClient in the terminal's process *)
(* (packages/core/src/ide/ide-client.ts), DiffManager and IDEServer in the *)
(* editor (packages/vscode-ide-companion/src), and the connection between  *)
(* them.                                                                   *)
(*                                                                         *)
(* A diff is an edit that awaits approval.  The user answers it in the     *)
(* terminal, in the editor, or in both at once.  The terminal keeps one    *)
(* resolver per path; the editor one document per diff.  Nothing keeps an  *)
(* edit from being proposed while another one of its file, or what is left *)
(* of it, is still about; such diffs are in `disturbed`.  Requests arrive  *)
(* in the order they were sent, and so do notifications, on a stream of    *)
(* their own.  An action is the code between two awaits.                   *)
(*                                                                         *)
(* Operators named X_Y, next to X, are mutants: X with a plausible bug.    *)
(***************************************************************************)
EXTENDS Naturals, Sequences, SequencesExt

CONSTANTS
  Diffs,
  Paths,
  PathOf,   \* the file a diff is about
  Answers,  \* bound: answers in the terminal that are under way
  MaxDrops, \* bound: lost connections
  None

ASSUME ConstantsOK ==
  /\ PathOf \in [Diffs -> Paths]
  /\ MaxDrops \in Nat
  /\ None \notin Diffs \cup Answers

VARIABLES
  promise,       \* what openDiff promised, per diff
  opened,        \* the diffs in the order of openDiff
  diffResponses, \* the diff whose resolver is kept for a path, or None
  cli,           \* invocations of resolveDiffFromCli
  connected,
  requests,      \* sent to the editor, oldest first
  notices,       \* notifications on their way to the terminal, oldest first
  diffDocuments, \* the documents of the editor
  handlers,      \* handlers of the editor past their first await
  drops,
  \* history variables: read by properties only
  said,          \* what the user said about each diff
  disturbed      \* diffs that met another diff of their file, or its leftovers

vars == <<promise, opened, diffResponses, cli, connected, requests, notices,
          diffDocuments, handlers, drops, said, disturbed>>

Verdicts == {"accepted", "rejected"}
Settled == Verdicts \cup {"failed"}

Idle == [pc |-> "idle", diff |-> None, verdict |-> None, holds |-> None]

(* A handler of the editor: a click on a diff, or the request of the       *)
(* terminal's answer `by` that closes a document.  It first reads the      *)
(* document, then closes the tab.                                          *)
Click(d, v) == [does |-> v, doc |-> d, by |-> None, pc |-> "document"]
Closing(d, by) == [does |-> "close", doc |-> d, by |-> by, pc |-> "document"]

Init ==
  /\ promise = [d \in Diffs |-> "new"]
  /\ opened = <<>> /\ requests = <<>> /\ diffDocuments = {}
  /\ diffResponses = [p \in Paths |-> None]
  /\ cli = [a \in Answers |-> Idle]
  /\ connected = TRUE /\ drops = 0
  /\ notices = <<>> /\ handlers = {}
  /\ said = [d \in Diffs |-> {}] /\ disturbed = {}

terminalVars == <<promise, opened, diffResponses, cli>>
editorVars == <<diffDocuments, handlers>>
historyVars == <<said, disturbed>>

------------------------------------------------------------------------------
(* The terminal.                                                           *)

(* Something about an edit of the file is still open, or on its way.       *)
Pending(p) == {d \in Diffs : PathOf[d] = p /\ promise[d] = "pending"}
Busy(p) ==
  \/ Pending(p) # {}
  \/ \E a \in Answers : cli[a].pc # "idle" /\ PathOf[cli[a].diff] = p
  \/ \E d \in diffDocuments : PathOf[d] = p
  \/ \E h \in handlers : PathOf[h.doc] = p
  \/ \E r \in Range(requests) : PathOf[r.diff] = p
  \/ \E n \in Range(notices) : n.path = p

(* openDiff: the resolver of an earlier diff of the file is forgotten.     *)
Registered(d) == [diffResponses EXCEPT ![PathOf[d]] = d]

openDiff(d) ==
  /\ connected /\ promise[d] = "new"
  /\ promise' = [promise EXCEPT ![d] = "pending"]
  /\ opened' = Append(opened, d)
  /\ diffResponses' = Registered(d)
  /\ requests' = Append(requests, [op |-> "openDiff", diff |-> d, by |-> None])
  /\ disturbed' = disturbed \cup
       IF Busy(PathOf[d]) THEN {d} \cup Pending(PathOf[d]) ELSE {}
  /\ UNCHANGED <<cli, connected, notices, drops, said, editorVars>>

(* The terminal asks about one diff at a time, and its prompt takes further *)
(* keys until the first one has been worked off.  The answer is handed to  *)
(* resolveDiffFromCli in a timer.                                          *)
Before(d, e) ==
  \E i, j \in 1..Len(opened) : i < j /\ opened[i] = d /\ opened[j] = e
Asked(d) ==
  /\ promise[d] = "pending" \/ \E a \in Answers : cli[a].diff = d
  /\ \A e \in Diffs : Before(e, d) => promise[e] # "pending"

AnswerInTerminal(a, d, v) ==
  /\ Asked(d) /\ cli[a].pc = "idle"
  /\ cli' = [cli EXCEPT ![a] =
       [pc |-> "timer", diff |-> d, verdict |-> v, holds |-> None]]
  /\ said' = [said EXCEPT ![d] = @ \cup {v}]
  /\ UNCHANGED <<promise, opened, diffResponses, connected, requests, notices,
                 drops, disturbed, editorVars>>

(* resolveDiffFromCli reads the resolver, then awaits closeDiff.           *)
ReadResolver(a) ==
  /\ cli[a].pc = "timer"
  /\ cli' = [cli EXCEPT ![a].holds = diffResponses[PathOf[cli[a].diff]],
                        ![a].pc = IF connected THEN "closing" ELSE "closed"]
  /\ requests' =
       IF connected
       THEN Append(requests, [op |-> "closeDiff", diff |-> cli[a].diff, by |-> a])
       ELSE requests
  /\ UNCHANGED <<promise, opened, diffResponses, connected, notices, drops,
                 historyVars, editorVars>>

(* A promise settles once.                                                 *)
Settle(d, v) ==
  promise' = IF d # None /\ promise[d] = "pending"
             THEN [promise EXCEPT ![d] = v] ELSE promise

ResolveDiff(a) ==
  /\ cli[a].pc = "closed"
  /\ Settle(cli[a].holds, cli[a].verdict)
  /\ diffResponses' = IF cli[a].holds = None THEN diffResponses
                      ELSE [diffResponses EXCEPT ![PathOf[cli[a].diff]] = None]
  /\ cli' = [cli EXCEPT ![a] = Idle]
  /\ UNCHANGED <<opened, connected, requests, notices, drops, historyVars,
                 editorVars>>

(* The handlers of diffAccepted and diffClosed.                            *)
Notified ==
  /\ notices # <<>>
  /\ notices' = Tail(notices)
  /\ LET n == Head(notices)
     IN  /\ Settle(diffResponses[n.path], n.verdict)
         /\ diffResponses' = [diffResponses EXCEPT ![n.path] = None]
  /\ UNCHANGED <<opened, cli, connected, requests, drops, historyVars,
                 editorVars>>

------------------------------------------------------------------------------
(* The editor.                                                             *)

(* showDiff adds its document at once.                                     *)
showDiff_Twice ==
  /\ requests # <<>> /\ Head(requests).op = "openDiff"
  /\ diffDocuments' = diffDocuments \cup {Head(requests).diff}
  /\ UNCHANGED <<requests, terminalVars, connected, notices, handlers, drops,
                 historyVars>>
showDiff ==
  /\ requests # <<>> /\ Head(requests).op = "openDiff"
  /\ diffDocuments' = diffDocuments \cup {Head(requests).diff}
  /\ requests' = Tail(requests)
  /\ UNCHANGED <<terminalVars, connected, notices, handlers, drops, historyVars>>

(* closeDiff takes the oldest document of the path.  Documents are shown in *)
(* the order in which the diffs were opened.                               *)
OfPath(p) == {d \in diffDocuments : PathOf[d] = p}
Oldest(docs) == {d \in docs : \A e \in docs : ~Before(e, d)}
closeDiff ==
  /\ requests # <<>> /\ Head(requests).op = "closeDiff"
  /\ LET by == Head(requests).by
         docs == OfPath(PathOf[Head(requests).diff])
     IN  IF docs = {}
         THEN cli' = [cli EXCEPT ![by].pc = "closed"] /\ UNCHANGED handlers
         ELSE /\ \E d \in Oldest(docs) : handlers' = handlers \cup {Closing(d, by)}
              /\ UNCHANGED cli
  /\ requests' = Tail(requests)
  /\ UNCHANGED <<promise, opened, diffResponses, connected, notices,
                 diffDocuments, drops, historyVars>>

(* acceptDiff and cancelDiff, up to openTextDocument.  The user may click  *)
(* on both, on either of them once at a time.                              *)
AnswerInEditor(d, v) ==
  /\ d \in diffDocuments /\ Click(d, v) \notin handlers
  /\ handlers' = handlers \cup {Click(d, v)}
  /\ said' = [said EXCEPT ![d] = @ \cup {v}]
  /\ UNCHANGED <<terminalVars, connected, requests, notices, diffDocuments,
                 drops, disturbed>>

Remaining(h) == diffDocuments \ {h.doc}

ForgetDocument(h) ==
  /\ h \in handlers /\ h.pc = "document"
  /\ handlers' = (handlers \ {h}) \cup {[h EXCEPT !.pc = "tab"]}
  /\ diffDocuments' = Remaining(h)
  /\ UNCHANGED <<terminalVars, connected, requests, notices, drops, historyVars>>

(* The closing of a tab is an event, taken for a rejection (cancelDiff) if *)
(* its document is still known.                                            *)
Rejection(d) == [path |-> PathOf[d], verdict |-> "rejected"]
TabClosed_Unchecked(h) == <<Rejection(h.doc)>>
TabClosed(h) ==
  IF h.doc \in diffDocuments THEN <<Rejection(h.doc)>> ELSE <<>>

(* The request of the terminal is answered without a notification.         *)
Tells(h) == IF h.does = "close" THEN <<>>
            ELSE <<[path |-> PathOf[h.doc], verdict |-> h.does]>>

HandlerEnds(h) ==
  /\ h \in handlers /\ h.pc = "tab"
  /\ handlers' = handlers \ {h}
  /\ notices' = IF connected THEN notices \o TabClosed(h) \o Tells(h)
                ELSE notices
  /\ cli' = IF h.by = None THEN cli ELSE [cli EXCEPT ![h.by].pc = "closed"]
  /\ UNCHANGED <<promise, opened, diffResponses, connected, requests,
                 diffDocuments, drops, historyVars>>

------------------------------------------------------------------------------
(* The connection is lost: requests fail, those of openDiff with their     *)
(* promise; notifications are gone.  The resolvers are kept.               *)
Unsent(d) == \E r \in Range(requests) : r.op = "openDiff" /\ r.diff = d
CloseFails_Hangs(c) == c
CloseFails(c) == IF c.pc = "closing" THEN [c EXCEPT !.pc = "closed"] ELSE c
ConnectionLost ==
  /\ connected /\ drops < MaxDrops /\ drops' = drops + 1
  /\ connected' = FALSE
  /\ requests' = <<>> /\ notices' = <<>>
  /\ promise' = [d \in Diffs |->
       IF promise[d] = "pending" /\ Unsent(d) THEN "failed" ELSE promise[d]]
  /\ cli' = [a \in Answers |-> CloseFails(cli[a])]
  /\ handlers' = {[h EXCEPT !.by = None] : h \in handlers}
  /\ UNCHANGED <<opened, diffResponses, diffDocuments, historyVars>>

(* The user reconnects, which takes a terminal that asks nothing.          *)
connect ==
  /\ ~connected /\ connected' = TRUE
  /\ \A d \in Diffs : promise[d] # "pending"
  /\ UNCHANGED <<terminalVars, requests, notices, drops, historyVars, editorVars>>

------------------------------------------------------------------------------
System ==
  \/ showDiff \/ closeDiff \/ Notified
  \/ \E a \in Answers : ReadResolver(a) \/ ResolveDiff(a)
  \/ \E h \in handlers : ForgetDocument(h) \/ HandlerEnds(h)

Done ==
  /\ \A d \in Diffs : promise[d] = "new" => ~connected
  /\ UNCHANGED vars

Next ==
  \/ System \/ ConnectionLost \/ connect \/ Done
  \/ \E d \in Diffs :
       \/ openDiff(d)
       \/ \E v \in Verdicts :
            \/ \E a \in Answers : AnswerInTerminal(a, d, v)
            \/ AnswerInEditor(d, v)

Spec == Init /\ [][Next]_vars

(* Both programs keep running, and the user answers what the terminal asks. *)
FairSpec ==
  /\ Spec
  /\ WF_vars(System)
  /\ \A d \in Diffs :
       WF_vars(\E a \in Answers, v \in Verdicts :
                 promise[d] = "pending" /\ AnswerInTerminal(a, d, v))

------------------------------------------------------------------------------
TypeOK ==
  /\ promise \in [Diffs -> {"new", "pending"} \cup Settled]
  /\ IsInjective(opened) /\ \A d \in Diffs : promise[d] # "new" <=> d \in Range(opened)
  /\ diffResponses \in [Paths -> Diffs \cup {None}]
  /\ \A p \in Paths : diffResponses[p] # None => PathOf[diffResponses[p]] = p
  /\ \A a \in Answers :
       /\ cli[a].pc \in {"idle", "timer", "closing", "closed"}
       /\ cli[a].diff \in IF cli[a].pc = "idle" THEN {None} ELSE Range(opened) \cup {None}
  /\ diffDocuments \subseteq Range(opened)
  /\ \A r \in Range(requests) : r.op = "openDiff" => r.diff \notin diffDocuments
  /\ notices \in Seq([path : Paths, verdict : Verdicts])
  /\ \A h \in handlers : h.doc \in Diffs /\ h.does \in Verdicts \cup {"close"}
  /\ drops \in 0..MaxDrops /\ disturbed \subseteq Range(opened)

(* A diff is accepted or rejected only if the user did so, in the editor   *)
(* or in the terminal (the comment on openDiff, ide-client.ts:174-184).    *)
SettledAsSaid == \A d \in Diffs : promise[d] \in Verdicts => promise[d] \in said[d]

(* What the code keeps of it.  A diff that met nothing of another edit of  *)
(* its file settles as the user said of it, and any diff as the user said  *)
(* of some diff of its file: neither the closing of a tab, nor a diff      *)
(* answered several times and in both places, nor a lost connection        *)
(* settles a diff against the user.                                        *)
SaidOf(p) == UNION {said[d] : d \in {e \in Diffs : PathOf[e] = p}}
SettledByTheUser ==
  \A d \in Diffs :
    promise[d] \in Verdicts =>
      promise[d] \in IF d \in disturbed THEN SaidOf(PathOf[d]) ELSE said[d]

(* Every diff that is opened settles, while edits of one file do not meet. *)
DiffsSettle == <>[](disturbed # {} \/ \A d \in Diffs : promise[d] # "pending")

==============================================================================
