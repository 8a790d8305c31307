----------------------------- MODULE MCOlsCalls -----------------------------
(* The instance of OlsCalls that TLC checks: two threads, two processors,  *)
(* and three functions on two buses.                                       *)
EXTENDS OlsCalls, TLC

CONSTANTS t1, t2, c1, c2

MCHome == (t1 :> {c1}) @@ (t2 :> {c1, c2})

MCSlot == {<<0, 0, 0>>, <<0, 0, 1>>, <<1, 0, 0>>}
=============================================================================
