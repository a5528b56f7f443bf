----------------------------- MODULE MCLlmLayer ----------------------------
(***************************************************************************)
(* Instances of LlmLayer for TLC: one user, since users share nothing but  *)
(* the process, with one slot inside a conversation.                       *)
(***************************************************************************)
EXTENDS LlmLayer, TLC

CONSTANTS u1, c1

OneCaller == [c \in Slots |-> u1]
OneTalking == Slots
=============================================================================
