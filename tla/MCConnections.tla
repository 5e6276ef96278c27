---------------------------- MODULE MCConnections ----------------------------
(* Small instances of Connections for TLC. *)
EXTENDS Connections, TLC

CONSTANTS c1, c2

\* Every command is typed by one of the two, who come in either order.
DealtOut == c1 :> {"login", "echo", "list", "history"}
              @@ c2 :> {"msg", "register", "logout", "broadcast"}

EchoOnly == [c \in Clients |-> {"echo"}]
=============================================================================
