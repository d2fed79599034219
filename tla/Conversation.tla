---------------------------- MODULE Conversation ----------------------------
(***************************************************************************)
(* What a chat promises its user about the history of the conversation,    *)
(* whatever is compressed on the way: every turn that was recorded stays   *)
(* in it, whole, once and in order, until the conversation is started      *)
(* afresh.  Replacing old entries by a summary is no step of this          *)
(* specification: it must not change what the history stands for.          *)
(***************************************************************************)
EXTENDS Naturals, Sequences

CONSTANTS
  Turns,  \* what can be said at once, as sequences of utterances
  Past    \* the conversations a chat may be started from

VARIABLE said

Utterances(s) == {s[i] : i \in 1..Len(s)}

Init == said \in Past

(* A turn is appended as a whole, and never a second time.                  *)
Say(turn) ==
  /\ Utterances(turn) \cap Utterances(said) = {}
  /\ said' = said \o turn

Forget == said' = <<>>

Next == Forget \/ \E turn \in Turns : Say(turn)

Spec == Init /\ [][Next]_said
=============================================================================
