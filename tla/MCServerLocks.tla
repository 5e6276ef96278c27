--------------------------- MODULE MCServerLocks ---------------------------
(* Three users; one has the name of the two others together. *)
EXTENDS ServerLocks, TLC

CONSTANTS ann, bob, annbob

MCName == ann :> <<1>> @@ bob :> <<2>> @@ annbob :> <<1, 2>>

\* Who issues what: a broadcast, a history and a command of the third client meet,
\* and so do all others of different clients.
MCCommands ==
  ann :> {"broadcast", "list", "logout"} @@ bob :> {"history", "msg"}
    @@ annbob :> {"register", "login"}
=============================================================================
