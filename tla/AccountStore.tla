---------------------------- MODULE AccountStore ----------------------------
(***************************************************************************)
(* What the account store promises: a bag of accounts to which registrations *)
(* add and from which nothing is taken.  Nobody reads while an account is     *)
(* added, and a command that no other command overlaps is answered as the     *)
(* accounts are.  The answer to one that is overlapped is left open here.     *)
(***************************************************************************)
EXTENDS Naturals

CONSTANTS Handlers, Names, Passwords

Account == [name : Names, pass : Passwords]
Command == [op : {"register", "login"}, name : Names, pass : Passwords]

VARIABLES
  copies,    \* how many records there are of each account
  task,      \* the command each handler serves, or served last
  stage,     \* how far each handler is with it
  alone,     \* the handlers whose command no other command has overlapped
  failures   \* failing calls and restarts so far

storeVars == <<copies, task, stage, alone, failures>>

\* There is an account that answers the command.
Known(r) ==
  \E a \in Account : copies[a] > 0 /\ a.name = r.name /\ (r.op = "login" => a.pass = r.pass)

Init ==
  /\ copies \in [Account -> Nat]
  /\ task \in [Handlers -> Command]
  /\ stage = [h \in Handlers |-> "idle"]
  /\ alone = {}
  /\ failures = 0

Become(h, from, to) == stage[h] = from /\ stage' = [stage EXCEPT ![h] = to]

Begin(h) ==
  /\ Become(h, "idle", "asked")
  /\ \E r \in Command : task' = [task EXCEPT ![h] = r]
  /\ alone' = IF \A g \in Handlers \ {h} : stage[g] = "idle" THEN {h} ELSE {}
  /\ UNCHANGED <<copies, failures>>

Enter(h) ==
  /\ Become(h, "asked", "reading")
  /\ UNCHANGED <<copies, task, alone, failures>>

Answer(h) ==
  /\ \E known \in BOOLEAN :
       /\ h \in alone => (known <=> Known(task[h]))
       /\ Become(h, "reading", IF known THEN "known" ELSE "unknown")
  /\ UNCHANGED <<copies, task, alone, failures>>

\* One more account, while nobody reads.
Add(h) ==
  /\ task[h].op = "register"
  /\ \A g \in Handlers : stage[g] # "reading"
  /\ Become(h, "unknown", "added")
  /\ copies' = [copies EXCEPT ![[name |-> task[h].name, pass |-> task[h].pass]] = @ + 1]
  /\ UNCHANGED <<task, alone, failures>>

\* A registration is refused or has added its account; a login is told.
Reply(h) ==
  /\ \E from \in IF task[h].op = "register" THEN {"known", "added"} ELSE {"known", "unknown"} :
       Become(h, from, "idle")
  /\ UNCHANGED <<copies, task, alone, failures>>

\* A call fails: the command ends without an answer, a registration is refused,
\* or it is answered although nothing was added.
Fail(h) ==
  /\ failures' = failures + 1
  /\ \/ task[h].op = "login"    /\ Become(h, "asked", "idle")
     \/ task[h].op = "register" /\ Become(h, "asked", "known")
     \/ task[h].op = "register" /\ Become(h, "unknown", "idle")
     \/ task[h].op = "register" /\ Become(h, "unknown", "added")
  /\ UNCHANGED <<copies, task, alone>>

\* The accounts outlast the process.
Restart ==
  /\ failures' = failures + 1
  /\ stage' = [h \in Handlers |-> "idle"]
  /\ UNCHANGED <<copies, task, alone>>

Next ==
  \/ \E h \in Handlers : Begin(h) \/ Enter(h) \/ Answer(h) \/ Add(h) \/ Reply(h) \/ Fail(h)
  \/ Restart

Spec == Init /\ [][Next]_storeVars
=============================================================================
