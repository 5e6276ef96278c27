------------------------------ MODULE Sessions ------------------------------
(***************************************************************************)
(* Who is logged in: gUsersMapping on the server, gLogged and                *)
(* gLoggedUserName in each client.  Every handler takes the table's lock     *)
(* anew for each access, and uses the client pointer it found there after    *)
(* releasing it.  The client learns of its login from the first text that    *)
(* arrives after it has sent the command.                                   *)
(*                                                                         *)
(* The table is the one of EntryTable: a key may have several entries, and   *)
(* a lookup or a removal takes one of them.  Sends do not fail and memory     *)
(* suffices (see Connections), and messages to users who are offline are only acknowledged *)
(* (see Mailbox).                                                           *)
(***************************************************************************)
EXTENDS Integers, FiniteSets, Sequences, SequencesExt

CONSTANTS
  Clients,    \* the connections
  Users,      \* the registered user names
  Commands,   \* the commands the users may type besides exit
  Patient,    \* whether users await the answer to a command
  MaxTyped    \* bound: commands each user types besides exit

NoUser == "nobody"

ASSUME SessionsAssumption ==
  /\ NoUser \notin Users
  /\ Commands \subseteq {"login", "logout", "list", "msg", "broadcast", "history",
                           "historyBelow"}
  /\ Patient \in BOOLEAN
  /\ MaxTyped \in [Clients -> Nat]

VARIABLES
  (* the client program *)
  on,         \* "on", "exiting", or "left"
  logged,     \* gLogged
  name,       \* gLoggedUserName
  lastOp,     \* gLastOperation
  asked,      \* commands whose answer the user has not seen
  typed,      \* commands typed so far
  deaf,       \* clients whose receiving thread has ended on an empty text
  (* the network *)
  toServer,   \* commands with their texts
  toClient,   \* texts: what they say, and history: which command they answer
  (* the server *)
  sessions,   \* gUsersMapping
  obj,        \* the CM_SERVER_CLIENT of each connection
  pc,         \* where each handler is
  req,        \* the command it is serving
  targets,    \* the users it has still to look up
  target,     \* clientToSend
  answer,     \* the text it will answer
  (* history *)
  overtaken,  \* clients that read another text for the answer to their login
  disputed,   \* users logged in a second time
  misuse      \* whether a freed client was sent to

clientVars  == <<on, logged, name, lastOp, asked, typed, deaf>>
handlerVars == <<req, targets, target, answer>>
historyVars == <<disputed, misuse>>
vars == <<clientVars, toServer, toClient, sessions, obj, pc, handlerVars, overtaken,
          historyVars>>

\* historyBelow is a history with a negative count.
Ops == {"login", "logout", "list", "msg", "broadcast", "history", "historyBelow", "exit",
        "exitLoggedIn"}
Requests == [op : Ops, from : Users \cup {NoUser}, user : Users \cup {NoUser}]
Texts == [says : {"Success", "Error", "other", "nothing"}, to : Ops \cup {"message"}]

\* `list` has no last text, and a history with a negative count may have none at all.
Unawaited == {"list", "historyBelow"}

Request(op, from, user) == [op |-> op, from |-> from, user |-> user]

Init ==
  /\ on = [c \in Clients |-> "on"]
  /\ logged = [c \in Clients |-> 0]
  /\ name = [c \in Clients |-> NoUser]
  /\ lastOp = [c \in Clients |-> "none"]
  /\ asked = [c \in Clients |-> 0]
  /\ typed = [c \in Clients |-> 0]
  /\ deaf = {}
  /\ toServer = [c \in Clients |-> <<>>]
  /\ toClient = [c \in Clients |-> <<>>]
  /\ sessions = {}
  /\ obj = [c \in Clients |-> "live"]
  /\ pc = [c \in Clients |-> "command"]
  /\ req = [c \in Clients |-> Request("list", NoUser, NoUser)]
  /\ targets = [c \in Clients |-> {}]
  /\ target = [c \in Clients |-> c]
  /\ answer = [c \in Clients |-> "Success"]
  /\ overtaken = {}
  /\ disputed = {}
  /\ misuse = FALSE

---------------------------------------------------------------------------
(* The client: FromUser and the commands' Process functions.                *)

serverVars == <<sessions, obj, pc, handlerVars, historyVars>>

Typing(c, r) ==
  /\ on[c] = "on"
  /\ r.op \in Commands /\ typed[c] < MaxTyped[c]
  /\ Patient => asked[c] = 0
  /\ typed' = [typed EXCEPT ![c] = @ + 1]
  /\ asked' = [asked EXCEPT ![c] = IF r.op \in Unawaited THEN @ ELSE @ + 1]
  /\ toServer' = [toServer EXCEPT ![c] = Append(@, r)]
  /\ UNCHANGED <<on, deaf, toClient, serverVars, overtaken>>

TypeLogin(c, u) ==
  /\ logged[c] = 0
  /\ Typing(c, Request("login", NoUser, u))
  /\ lastOp' = [lastOp EXCEPT ![c] = "login"]
  /\ name' = [name EXCEPT ![c] = u]
  /\ UNCHANGED logged

\* Mutant: the client goes on as logged in.
TypeLogoutOnly(c) ==
  /\ logged[c] > 0
  /\ Typing(c, Request("logout", NoUser, name[c]))
  /\ UNCHANGED <<logged, lastOp, name>>

TypeLogout(c) ==
  /\ logged[c] > 0
  /\ Typing(c, Request("logout", NoUser, name[c]))
  /\ logged' = [logged EXCEPT ![c] = @ - 1]
  /\ UNCHANGED <<lastOp, name>>

TypeList(c) ==
  /\ Typing(c, Request("list", NoUser, NoUser))
  /\ UNCHANGED <<logged, lastOp, name>>

TypeMessage(c) ==
  /\ logged[c] > 0
  /\ \/ \E u \in Users : Typing(c, Request("msg", name[c], u))
     \/ Typing(c, Request("broadcast", name[c], NoUser))
  /\ UNCHANGED <<logged, lastOp, name>>

TypeHistory(c) ==
  /\ logged[c] > 0
  /\ \E op \in {"history", "historyBelow"} : Typing(c, Request(op, name[c], NoUser))
  /\ UNCHANGED <<logged, lastOp, name>>

\* gExit is set, and the kind of exit depends on gLogged.  The program ends when its
\* receiving thread has.
TypeExit(c) ==
  /\ on[c] = "on"
  /\ Patient => asked[c] = 0
  /\ on' = [on EXCEPT ![c] = IF c \in deaf THEN "left" ELSE "exiting"]
  /\ asked' = [asked EXCEPT ![c] = @ + 1]
  /\ toServer' = [toServer EXCEPT ![c] = Append(@,
                    IF logged[c] > 0 THEN Request("exitLoggedIn", NoUser, name[c])
                    ELSE Request("exit", NoUser, NoUser))]
  /\ UNCHANGED <<logged, name, lastOp, typed, deaf, toClient, serverVars, overtaken>>

Answers(text) == text.to \notin Unawaited \cup {"message"}

\* The bookkeeping around the text: what the user has seen answered, and
\* whether a login was answered by another text.  An empty text ends the thread, as
\* ReceiveDataFormServer is asked for no byte and gets none.
Reading(c, text) ==
  /\ on[c] # "left" /\ c \notin deaf
  /\ toClient[c] # <<>> /\ text = Head(toClient[c])
  /\ toClient' = [toClient EXCEPT ![c] = Tail(@)]
  /\ asked' = [asked EXCEPT ![c] = IF Answers(text) THEN @ - 1 ELSE @]
  /\ on' = [on EXCEPT ![c] = IF text.to \in {"exit", "exitLoggedIn"} THEN "left" ELSE @]
  /\ deaf' = IF text.says = "nothing" THEN deaf \cup {c} ELSE deaf
  /\ overtaken' = IF lastOp[c] = "login" /\ text.to # "login"
                  THEN overtaken \cup {c} ELSE overtaken
  /\ UNCHANGED <<name, typed, toServer, serverVars>>

\* Mutant: gLastOperation is not looked at.
ReadAnySuccess(c) ==
  \E text \in Texts :
    /\ Reading(c, text)
    /\ logged' = [logged EXCEPT ![c] = IF text.says = "Success" THEN @ + 1 ELSE @]
    /\ lastOp' = [lastOp EXCEPT ![c] = "none"]

\* FromServer: after a login was sent, the next text decides.  The answer to an
\* exit is a number and passes by.  (A client may also leave before it: Connections.)
Read(c) ==
  \E text \in Texts :
    /\ Reading(c, text)
    /\ IF lastOp[c] = "login" /\ text.to \notin {"exit", "exitLoggedIn"}
       THEN /\ logged' = [logged EXCEPT ![c] = IF text.says = "Success" THEN @ + 1 ELSE @]
            /\ lastOp' = [lastOp EXCEPT ![c] = "none"]
       ELSE UNCHANGED <<logged, lastOp>>

---------------------------------------------------------------------------
(* The handlers.                                                            *)

Goto(c, from, to) == pc[c] = from /\ pc' = [pc EXCEPT ![c] = to]

Say(d, texts) == toClient' = [toClient EXCEPT ![d] = @ \o texts]

Conclude(c, from, text) ==
  /\ Goto(c, from, "answer")
  /\ answer' = [answer EXCEPT ![c] = text]

Entry == [login |-> "credentials", logout |-> "remove", list |-> "list", msg |-> "self",
          broadcast |-> "lookup", history |-> "history", historyBelow |-> "below",
          exit |-> "bye", exitLoggedIn |-> "remove"]

Receive(c) ==
  /\ toServer[c] # <<>>
  /\ LET r == Head(toServer[c]) IN
       /\ Goto(c, "command", Entry[r.op])
       /\ req' = [req EXCEPT ![c] = r]
       /\ targets' = [targets EXCEPT ![c] =
                        IF r.op = "broadcast" THEN Users \ {r.from} ELSE {r.user} \ {NoUser}]
  /\ answer' = [answer EXCEPT ![c] = "Success"]
  /\ toServer' = [toServer EXCEPT ![c] = Tail(@)]
  /\ UNCHANGED <<clientVars, toClient, sessions, obj, target, overtaken, historyVars>>

\* The scan of registration.txt (Accounts) finds the combination or not.
CheckCredentials(c) ==
  /\ \/ Goto(c, "credentials", "find") /\ UNCHANGED answer
     \/ Conclude(c, "credentials", "Error")
  /\ UNCHANGED <<clientVars, toServer, toClient, sessions, obj, req, targets, target,
                 overtaken, historyVars>>

SessionsOf(u) == {s \in sessions : s[1] = u}

\* Mutant: a user who is logged in gets no answer.
FindSilently(c) ==
  /\ IF SessionsOf(req[c].user) # {} THEN Goto(c, "find", "command")
     ELSE Goto(c, "find", "insert")
  /\ UNCHANGED <<clientVars, toServer, toClient, sessions, obj, handlerVars, overtaken,
                 historyVars>>

\* HtHasKey under the shared lock: "Error: User already logged in".
FindSession(c) ==
  /\ IF SessionsOf(req[c].user) # {} THEN Conclude(c, "find", "Error")
     ELSE Goto(c, "find", "insert") /\ UNCHANGED answer
  /\ UNCHANGED <<clientVars, toServer, toClient, sessions, obj, req, targets, target,
                 overtaken, historyVars>>

\* HtSetKeyValue under the exclusive lock, which was released in between.
InsertSession(c) ==
  /\ Goto(c, "insert", "answer")
  /\ sessions' = sessions \cup {<<req[c].user, c>>}
  /\ disputed' = IF SessionsOf(req[c].user) = {} THEN disputed
                 ELSE disputed \cup {req[c].user}
  /\ UNCHANGED <<clientVars, toServer, toClient, obj, handlerVars, overtaken, misuse>>

\* Mutant: the session of a client that exits is kept.
KeepAtExit(c) ==
  /\ Goto(c, "remove", IF req[c].op = "logout" THEN "answer" ELSE "bye")
  /\ IF SessionsOf(req[c].user) = {} \/ req[c].op # "logout" THEN UNCHANGED sessions
     ELSE \E s \in SessionsOf(req[c].user) : sessions' = sessions \ {s}
  /\ UNCHANGED <<clientVars, toServer, toClient, obj, handlerVars, overtaken, historyVars>>

\* LogoutClient and SendExitToClient: HtRemoveKey takes some entry of the name.
RemoveSession(c) ==
  /\ Goto(c, "remove", IF req[c].op = "logout" THEN "answer" ELSE "bye")
  /\ IF SessionsOf(req[c].user) = {} THEN UNCHANGED sessions
     ELSE \E s \in SessionsOf(req[c].user) : sessions' = sessions \ {s}
  /\ UNCHANGED <<clientVars, toServer, toClient, obj, handlerVars, overtaken, historyVars>>

\* ListClients holds the shared lock over all its sends.
List(c) ==
  /\ Goto(c, "list", "command")
  /\ Say(c, [i \in 1..Cardinality(sessions) |-> [says |-> "other", to |-> "list"]])
  /\ UNCHANGED <<clientVars, toServer, sessions, obj, handlerVars, overtaken, historyVars>>

\* A message to oneself is answered "Error: No such user".
CheckSelf(c) ==
  /\ IF req[c].from = req[c].user THEN Conclude(c, "self", "Error")
     ELSE Goto(c, "self", "lookup") /\ UNCHANGED answer
  /\ UNCHANGED <<clientVars, toServer, toClient, sessions, obj, req, targets, target,
                 overtaken, historyVars>>

\* HtHasKey and HtGetKeyValue in one shared section.
Lookup(c, u) ==
  /\ u \in targets[c]
  /\ targets' = [targets EXCEPT ![c] = @ \ {u}]
  /\ IF SessionsOf(u) = {} THEN Goto(c, "lookup", "lookup") /\ UNCHANGED target
     ELSE /\ Goto(c, "lookup", "deliver")
          /\ \E s \in SessionsOf(u) : target' = [target EXCEPT ![c] = s[2]]
  /\ UNCHANGED <<clientVars, toServer, toClient, sessions, obj, req, answer, overtaken,
                 historyVars>>

\* SendTextToClient through the pointer, after the lock was released.
Deliver(c) ==
  /\ Goto(c, "deliver", "lookup")
  /\ IF obj[target[c]] = "live"
     THEN Say(target[c], <<[says |-> "other", to |-> "message"]>>) /\ UNCHANGED misuse
     ELSE misuse' = TRUE /\ UNCHANGED toClient
  /\ UNCHANGED <<clientVars, toServer, sessions, obj, handlerVars, overtaken, disputed>>

LookupsDone(c) ==
  /\ Goto(c, "lookup", "answer")
  /\ targets[c] = {}
  /\ UNCHANGED <<clientVars, toServer, toClient, sessions, obj, handlerVars, overtaken,
                 historyVars>>

\* ProcessHistory: "Error: No such user", the last messages, or "\n" where there are
\* none.  If the count is zero the last messages are an empty text.
History(c) ==
  /\ \E text \in {"other", "nothing"} : Conclude(c, "history", text)
  /\ UNCHANGED <<clientVars, toServer, toClient, sessions, obj, req, targets, target, overtaken,
                 historyVars>>

\* Of a negative count no text is sent for the messages.
HistoryBelow(c) ==
  /\ Goto(c, "below", "command")
  /\ \/ Say(c, <<[says |-> "other", to |-> "historyBelow"]>>)
     \/ UNCHANGED toClient
  /\ UNCHANGED <<clientVars, toServer, sessions, obj, handlerVars, overtaken, historyVars>>

Answer(c) ==
  /\ Goto(c, "answer", "command")
  /\ Say(c, <<[says |-> answer[c], to |-> req[c].op]>>)
  /\ UNCHANGED <<clientVars, toServer, sessions, obj, handlerVars, overtaken, historyVars>>

Bye(c) ==
  /\ Goto(c, "bye", "abandon")
  /\ Say(c, <<[says |-> "other", to |-> req[c].op]>>)
  /\ UNCHANGED <<clientVars, toServer, sessions, obj, handlerVars, overtaken, historyVars>>

Abandon(c) ==
  /\ Goto(c, "abandon", "ended")
  /\ obj' = [obj EXCEPT ![c] = "freed"]
  /\ UNCHANGED <<clientVars, toServer, toClient, sessions, handlerVars, overtaken,
                 historyVars>>

---------------------------------------------------------------------------
User(c) ==
  \/ \E u \in Users : TypeLogin(c, u)
  \/ TypeLogout(c) \/ TypeList(c) \/ TypeMessage(c) \/ TypeHistory(c) \/ TypeExit(c)

Handler(c) ==
  \/ Receive(c) \/ CheckCredentials(c) \/ FindSession(c) \/ InsertSession(c)
  \/ RemoveSession(c) \/ List(c) \/ CheckSelf(c) \/ (\E u \in Users : Lookup(c, u))
  \/ Deliver(c) \/ LookupsDone(c) \/ History(c) \/ HistoryBelow(c)
  \/ Answer(c) \/ Bye(c) \/ Abandon(c)

\* Every user has gone, or waits for an answer that the client will not read.
Rest ==
  /\ \A c \in Clients :
       \/ on[c] = "left" /\ pc[c] = "ended"
       \/ c \in deaf /\ asked[c] > 0 /\ toServer[c] = <<>> /\ pc[c] = "command"
  /\ UNCHANGED vars

Next == (\E c \in Clients : User(c) \/ Read(c) \/ Handler(c)) \/ Rest

Spec == Init /\ [][Next]_vars

\* Threads of both programs run; nobody has to type.
FairSpec == Spec /\ \A c \in Clients : WF_vars(Read(c)) /\ WF_vars(Handler(c))

---------------------------------------------------------------------------
(* Properties.                                                              *)

\* Every variable has its type; gLogged is 0 or 1.
TypeOK ==
  /\ on \in [Clients -> {"on", "exiting", "left"}]
  /\ logged \in [Clients -> 0..1]
  /\ name \in [Clients -> Users \cup {NoUser}]
  /\ lastOp \in [Clients -> {"login", "none"}]
  /\ asked \in [Clients -> Nat]
  /\ typed \in [Clients -> Nat] /\ \A c \in Clients : typed[c] <= MaxTyped[c]
  /\ toServer \in [Clients -> Seq(Requests)]
  /\ toClient \in [Clients -> Seq(Texts)]
  /\ sessions \subseteq Users \X Clients
  /\ obj \in [Clients -> {"live", "freed"}]
  /\ req \in [Clients -> Requests]
  /\ targets \in [Clients -> SUBSET Users]
  /\ target \in [Clients -> Clients]
  /\ answer \in [Clients -> {"Success", "Error", "other", "nothing"}]
  /\ deaf \subseteq Clients /\ overtaken \subseteq Clients /\ disputed \subseteq Users

\* No command of the client is under way.
Settled(c) ==
  on[c] = "on" /\ toServer[c] = <<>> /\ toClient[c] = <<>> /\ pc[c] = "command"

\* Where users await their answers, there are but two ways in which a client and
\* the table disagree about a user: the client took another text for the answer to
\* its login, or the user was logged in a second time between the check and the
\* insertion.
SessionsAgreeUnless ==
  \A c \in Clients \ overtaken, u \in Users \ disputed :
    Settled(c) => (<<u, c>> \in sessions <=> logged[c] > 0 /\ name[c] = u)

\* A session outlives its connection only in those two ways: the pointer in the
\* table is otherwise that of a client whose handler still runs.  (A pointer that was
\* taken from the table may still be freed before it is sent through.)
SessionsLiveUnless ==
  \A s \in sessions :
    obj[s[2]] = "live" \/ s[2] \in overtaken \/ s[1] \in disputed

\* Every login, logout, msg, broadcast, exit and history, unless its count is negative, is
\* answered, though the answer may be printed after any number of messages; the empty
\* text that answers a history with the count zero is the last that the client reads.
EveryCommandAnswered == \A c \in Clients : asked[c] > 0 ~> asked[c] = 0 \/ c \in deaf
=============================================================================
