--------------------------- MODULE MCToolScheduler ---------------------------
(***************************************************************************)
(* Instances of ToolScheduler for TLC.                                     *)
(***************************************************************************)
EXTENDS ToolScheduler

CONSTANTS c1, c2, c3, c4, b1, b2, b3

(* A request with two calls, and two that have to wait for it.              *)
MCBatchOf ==
  [c \in Calls |-> CASE c \in {c1, c2} -> b1 [] c = c3 -> b2 [] OTHER -> b3]
=============================================================================
