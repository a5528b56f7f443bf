--------------------------- MODULE MCLazyClients ---------------------------
(* Instance of LazyClients: which requests meet.                            *)
EXTENDS LazyClients, TLC

CONSTANTS q1, q2

Pairs == {
  q1 :> "callback" @@ q2 :> "start",
  q1 :> "callback" @@ q2 :> "content",
  q1 :> "callback" @@ q2 :> "callback",
  q1 :> "extract" @@ q2 :> "start",
  q1 :> "extract" @@ q2 :> "content"}
=============================================================================
