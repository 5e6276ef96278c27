---------------------------- MODULE AccountsAlone ----------------------------
(***************************************************************************)
(* Accounts with one more history variable, and the store that it            *)
(* implements: whoever shares the server with nobody for the length of a      *)
(* command gets the answer of AccountStore.                                  *)
(***************************************************************************)
EXTENDS Accounts

VARIABLE alone   \* history: the handlers whose command no other has overlapped

\* When a command begins, its handler is alone or nobody is.
Watch ==
  alone' = IF \E h \in Handlers : pc[h] = "idle" /\ pc'[h] # "idle"
           THEN {h \in Handlers : pc'[h] # "idle" /\ \A g \in Handlers \ {h} : pc'[g] = "idle"}
           ELSE alone

AloneSpec == Init /\ alone = {} /\ [][Next /\ Watch]_<<vars, alone>>

FairAloneSpec == AloneSpec /\ Fairness

---------------------------------------------------------------------------
\* The lines of f that are the record of an account.
Copies(f, a) == {i \in LineBreaks(f) : OccursAt(f, i, Record(a.name, a.pass))}

Bag == [a \in [name : Names, pass : Passwords] |-> Cardinality(Copies(file, a))]

\* What the place of a handler is for the store.
Stage(h) ==
  CASE pc[h] = "idle" -> "idle"
    [] pc[h] \in {"scan", "leave"} -> "reading"
    [] pc[h] \in {"verdict", "appending"} -> IF found[h] # 0 THEN "known" ELSE "unknown"
    [] pc[h] \in {"appended", "reply"} -> "added"
    [] OTHER -> "asked"

Stages == [h \in Handlers |-> Stage(h)]

Store == INSTANCE AccountStore
         WITH copies <- Bag, task <- req, stage <- Stages, failures <- faults

\* The handlers, the shared pointer and the file of characters together are a
\* store of accounts: a registration adds one record and nothing else changes
\* the accounts; no record is added under a reader; and a command that runs
\* without another beside it is answered as the accounts are, wherever earlier
\* commands, failures and restarts left the pointer.
ImplementsAccountStore == Store!Spec
=============================================================================
