--------------------------- MODULE SerialRequests ---------------------------
(***************************************************************************)
(* What the tool scheduler promises its clients, and nothing about how: a  *)
(* request passed to schedule() is served alone and in the order of the    *)
(* calls; it is finished exactly once; one whose signal fires while it     *)
(* waits for its turn is rejected and never served.                        *)
(***************************************************************************)
EXTENDS Naturals, Sequences, SequencesExt

CONSTANTS Batches, None

VARIABLES
  waiting,   \* requests that wait for their turn
  active,    \* the request that is served, or None
  submitted, rejected, finished

vars == <<waiting, active, submitted, rejected, finished>>

Init ==
  /\ waiting = <<>> /\ active = None
  /\ submitted = {} /\ rejected = {} /\ finished = {}

Submit(b) ==
  /\ b \notin submitted
  /\ submitted' = submitted \cup {b}
  /\ \/ /\ active = None /\ active' = b /\ UNCHANGED waiting
     \/ /\ active # None /\ waiting' = Append(waiting, b) /\ UNCHANGED active
  /\ UNCHANGED <<rejected, finished>>

(* The request that is served ends and the next one, if any, takes its turn. *)
Finish ==
  /\ active # None
  /\ finished' = finished \cup {active}
  /\ \/ waiting = <<>> /\ active' = None /\ UNCHANGED waiting
     \/ waiting # <<>> /\ active' = Head(waiting) /\ waiting' = Tail(waiting)
  /\ UNCHANGED <<submitted, rejected>>

Withdraw(b) ==
  /\ \E i \in 1..Len(waiting) :
       waiting[i] = b /\ waiting' = RemoveAt(waiting, i)
  /\ rejected' = rejected \cup {b}
  /\ UNCHANGED <<active, submitted, finished>>

Next == Finish \/ \E b \in Batches : Submit(b) \/ Withdraw(b)

(* What is never broken, and that the request that is served ends.         *)
Safe == Init /\ [][Next]_vars
Progress == WF_vars(Finish)
Spec == Safe /\ Progress

=============================================================================
