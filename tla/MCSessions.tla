----------------------------- MODULE MCSessions -----------------------------
(* Small instances of Sessions for TLC. *)
EXTENDS Sessions, TLC

CONSTANTS c1, c2

MCClients == {c1, c2}

MCMaxTyped == (c1 :> 3) @@ (c2 :> 1)
=============================================================================
