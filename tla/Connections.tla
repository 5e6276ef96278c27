----------------------------- MODULE Connections -----------------------------
(***************************************************************************)
(* The life of a connection: the client program with its two threads, the    *)
(* server's accept loop, one ServeOneClient thread per admitted client, the  *)
(* counter that limits them, and the objects they allocate and free.         *)
(*                                                                         *)
(* What a command does is left to the other modules.  Here a command is the  *)
(* series of calls its handler makes: ReceiveText and SendTextToClient, each *)
(* of which can fail, and on failure frees the client and the server while   *)
(* its caller goes on; and the uses of gUsersMapping, through which one      *)
(* thread gets at the client object of another.  The locks are taken as      *)
(* free: what holds them up is in ServerLocks and Accounts.                  *)
(***************************************************************************)
EXTENDS Integers, FiniteSets, Sequences

CONSTANTS
  Clients,       \* the connections, one run of the client program each
  Limit,         \* the server's argument: concurrent connections
  Typed,         \* bound: the commands each user may type besides exit
  MaxTyped,      \* bound: such commands per client
  MaxFound,      \* bound: entries, lines or windows a handler's loop goes through
  Misread,       \* bound: the types that a text out of step may be taken for
  FaultKinds,    \* what may go wrong: "kill" a client, "thread", "memory"
  MaxFaults      \* bound: how often

(* The series of calls of each handler; one without an answer at its end is that of a
   handler short of memory after it has taken its texts. *)

Recv(n) == [i \in 1..n |-> "recv"]
Sends == {[i \in 1..n |-> "send"] : n \in 0..MaxFound}

ProcessEcho == {<<"recv", "send">>}
RegisterClient == {<<"recv", "recv", "send">>, Recv(2)}

\* Refused, or entered in gUsersMapping and sent what was kept.
LoginClient ==
  {<<"recv", "recv", "send">>}
    \cup {<<"recv", "recv", "insert", "send">> \o kept : kept \in Sends}

LogoutClient == {<<"recv", "remove", "send">>}
ListClients == Sends

\* The recipient is looked up, unless it is the sender himself.
ProcessMsg == {<<"recv", "recv", "recv", "send">>, Recv(3),
               <<"recv", "recv", "recv", "lookup", "forward", "send">>}

\* Every account but the sender's is looked up.
ProcessBroadcast ==
  {Recv(2)} \cup
  {Recv(2) \o [i \in 1..(2 * n) |-> IF i % 2 = 1 THEN "lookup" ELSE "forward"] \o <<"send">> :
     n \in 0..MaxFound}

\* Mutant: the count is taken for part of the next command.
ProcessHistoryTwoTexts == {Recv(2) \o answer : answer \in Sends}

ProcessHistory == {Recv(3) \o answer : answer \in Sends}

SendExitToClient == {<<"send">>}
SendExitLoggedIn == {<<"recv", "remove", "send">>}

\* The switch of ServeOneClient; "other" is its default.
Handler == [echo |-> ProcessEcho, register |-> RegisterClient, login |-> LoginClient,
            logout |-> LogoutClient, list |-> ListClients, msg |-> ProcessMsg,
            broadcast |-> ProcessBroadcast, history |-> ProcessHistory,
            exit |-> SendExitToClient, exitLoggedIn |-> SendExitLoggedIn,
            other |-> {<<>>}]

Exits == {"exit", "exitLoggedIn"}

\* The texts that follow each command.
Texts == [echo |-> <<"text">>, register |-> <<"text", "text">>,
          login |-> <<"text", "text">>, logout |-> <<"text">>, list |-> <<>>,
          msg |-> <<"text", "text", "text">>, broadcast |-> <<"text", "text">>,
          history |-> <<"text", "text", "text">>,
          exit |-> <<>>, exitLoggedIn |-> <<"text">>, other |-> <<>>]

ASSUME ConnectionsAssumption ==
  /\ IsFiniteSet(Clients)
  /\ Limit \in Nat
  /\ Typed \in [Clients -> SUBSET (DOMAIN Handler \ (Exits \cup {"other"}))]
  /\ Misread \subseteq DOMAIN Handler
  /\ FaultKinds \subseteq {"kill", "thread", "memory"}
  /\ MaxTyped \in Nat /\ MaxFound \in Nat /\ MaxFaults \in Nat

VARIABLES
  (* the client program *)
  user,       \* its main and FromUser threads
  reader,     \* its FromServer thread
  open,       \* whether its end of the connection is open
  budget,     \* commands the user may still type before exit
  (* the network *)
  backlog,    \* connections that wait for accept
  toServer,   \* commands and texts on their way
  toClient,   \* texts on their way
  (* the server *)
  mpc,        \* where the accept loop is
  newClient,  \* the client accepted last
  connected,  \* gConnectedUsers
  obj,        \* the CM_SERVER_CLIENT of each connection
  pc,         \* its ServeOneClient thread
  todo,       \* the calls the running handler has still to make
  exitted,    \* clientExitted
  target,     \* clientToSend, between the lookup and the send
  mapped,     \* the clients whose objects gUsersMapping points to
  skipped,    \* history: clients whose texts a handler has left in the stream
  server,     \* gServer
  wsa,        \* whether the communication module is initialized
  misuse,     \* history: accesses to freed objects
  faults      \* failures so far

clientVars == <<user, reader, open, budget>>
netVars    == <<backlog, toServer, toClient>>
mainVars   == <<mpc, newClient>>
tableVars  == <<target, mapped, skipped>>
threadVars == <<pc, todo, exitted, tableVars>>
heapVars   == <<obj, server, wsa, misuse>>
vars == <<clientVars, netVars, mainVars, connected, threadVars, heapVars, faults>>

Init ==
  /\ user = [c \in Clients |-> "absent"]
  /\ reader = [c \in Clients |-> "recv"]
  /\ open = [c \in Clients |-> FALSE]
  /\ budget = [c \in Clients |-> MaxTyped]
  /\ backlog = <<>>
  /\ toServer = [c \in Clients |-> <<>>]
  /\ toClient = [c \in Clients |-> <<>>]
  /\ mpc = "await"
  /\ newClient \in Clients
  /\ connected = 0
  /\ obj = [c \in Clients |-> "none"]
  /\ pc = [c \in Clients |-> "none"]
  /\ todo = [c \in Clients |-> <<>>]
  /\ exitted = [c \in Clients |-> FALSE]
  /\ target = [c \in Clients |-> {}]
  /\ mapped = {}
  /\ skipped = {}
  /\ server = "live"
  /\ wsa = TRUE
  /\ misuse = {}
  /\ faults = 0

Fault(kind) == kind \in FaultKinds /\ faults < MaxFaults /\ faults' = faults + 1

---------------------------------------------------------------------------
(* The client program.                                                      *)

\* Mutant: the user may type before the server has answered the connection.
ConnectAndType(c) ==
  /\ user[c] = "absent"
  /\ wsa /\ server = "live"
  /\ user' = [user EXCEPT ![c] = "typing"]
  /\ open' = [open EXCEPT ![c] = TRUE]
  /\ backlog' = Append(backlog, c)
  /\ UNCHANGED <<reader, budget, toServer, toClient, mainVars, connected, threadVars,
                 heapVars, faults>>

\* CreateClientConnectionToServer succeeds; main spins on gAllowConnection.
Connect(c) ==
  /\ user[c] = "absent"
  /\ wsa /\ server = "live"
  /\ user' = [user EXCEPT ![c] = "waiting"]
  /\ open' = [open EXCEPT ![c] = TRUE]
  /\ backlog' = Append(backlog, c)
  /\ UNCHANGED <<reader, budget, toServer, toClient, mainVars, connected, threadVars,
                 heapVars, faults>>

\* FromServer takes a text; the first one tells whether the user may type.
Read(c) ==
  /\ open[c] /\ reader[c] = "recv" /\ toClient[c] # <<>>
  /\ reader' = [reader EXCEPT ![c] = "check"]
  /\ toClient' = [toClient EXCEPT ![c] = Tail(@)]
  /\ user' = [user EXCEPT ![c] =
                IF @ # "waiting" THEN @
                ELSE IF Head(toClient[c]) = "full" THEN "refused" ELSE "typing"]
  /\ UNCHANGED <<open, budget, backlog, toServer, mainVars, connected, threadVars,
                 heapVars, faults>>

\* The server's end is closed: recv fails and FromServer returns.
ClosedByServer(c) == obj[c] = "freed" \/ ~wsa

ReadFails(c) ==
  /\ open[c] /\ reader[c] = "recv" /\ toClient[c] = <<>> /\ ClosedByServer(c)
  /\ reader' = [reader EXCEPT ![c] = "ended"]
  /\ UNCHANGED <<user, open, budget, netVars, mainVars, connected, threadVars,
                 heapVars, faults>>

\* while (!gExit && gAllowConnection)
CheckLoop(c) ==
  /\ reader[c] = "check"
  /\ reader' = [reader EXCEPT ![c] =
                  IF user[c] \in {"exiting", "left", "refused"} THEN "ended" ELSE "recv"]
  /\ UNCHANGED <<user, open, budget, netVars, mainVars, connected, threadVars,
                 heapVars, faults>>

SendToServer(c, parts) ==
  toServer' = [toServer EXCEPT ![c] = IF ClosedByServer(c) THEN @ ELSE @ \o parts]

Type(c, k) ==
  /\ user[c] = "typing" /\ budget[c] > 0
  /\ budget' = [budget EXCEPT ![c] = @ - 1]
  /\ SendToServer(c, <<k>> \o Texts[k])
  /\ UNCHANGED <<user, reader, open, backlog, toClient, mainVars, connected,
                 threadVars, heapVars, faults>>

\* FromUser sets gExit before it sends the command.
TypeExit(c) ==
  /\ user[c] = "typing"
  /\ user' = [user EXCEPT ![c] = "exiting"]
  /\ budget' = [budget EXCEPT ![c] = 0]
  /\ UNCHANGED <<reader, open, netVars, mainVars, connected, threadVars,
                 heapVars, faults>>

\* Whether a user is logged in is not modelled here.
SendExit(c, k) ==
  /\ user[c] = "exiting"
  /\ user' = [user EXCEPT ![c] = "left"]
  /\ SendToServer(c, <<k>> \o Texts[k])
  /\ UNCHANGED <<reader, open, budget, backlog, toClient, mainVars, connected,
                 threadVars, heapVars, faults>>

\* What has not been read is gone.
Close(c) ==
  /\ open' = [open EXCEPT ![c] = FALSE]
  /\ toClient' = [toClient EXCEPT ![c] = <<>>]

\* Both threads have ended: DestroyClient.
Leave(c) ==
  /\ open[c] /\ user[c] \in {"left", "refused"} /\ reader[c] = "ended"
  /\ Close(c)
  /\ UNCHANGED <<user, reader, budget, backlog, toServer, mainVars, connected, threadVars,
                 heapVars, faults>>

\* The client program is ended from outside.
Kill(c) ==
  /\ Fault("kill")
  /\ open[c]
  /\ Close(c)
  /\ user' = [user EXCEPT ![c] = "killed"]
  /\ reader' = [reader EXCEPT ![c] = "ended"]
  /\ budget' = [budget EXCEPT ![c] = 0]
  /\ UNCHANGED <<backlog, toServer, mainVars, connected, threadVars, heapVars>>

---------------------------------------------------------------------------
(* Objects, and the error path of every send and receive.                    *)

\* A closed peer may still swallow a send; once it is gone, or the module is
\* uninitialized, a call may fail, and what was on its way may be lost.
MayFail(c) == ~wsa \/ ~open[c]

\* A buffer that cannot be created is taken like a send or receive that failed.
CallMayFail(c) == (MayFail(c) /\ UNCHANGED faults) \/ Fault("memory")

\* DestroyServer, UninitCommunicationModule: every connection is closed, and what has
\* not been received is gone.
ServerFails ==
  /\ server' = "freed"
  /\ wsa' = FALSE
  /\ toServer' = [c \in Clients |-> <<>>]

\* AbandonClient first.
Collapse(c) ==
  /\ obj' = [obj EXCEPT ![c] = "freed"]
  /\ ServerFails
  /\ misuse' = misuse \cup (IF obj[c] = "freed" THEN {"client"} ELSE {})
                      \cup (IF server = "freed" THEN {"server"} ELSE {})

Deliver(c, text) ==
  toClient' = [toClient EXCEPT ![c] = IF open[c] THEN Append(@, text) ELSE @]

---------------------------------------------------------------------------
(* The accept loop of _tmain.                                               *)

Main(from, to) == mpc = from /\ mpc' = to

Accept ==
  /\ Main("await", "decide")
  /\ server = "live" /\ wsa /\ backlog # <<>>
  /\ newClient' = Head(backlog)
  /\ backlog' = Tail(backlog)
  /\ obj' = [obj EXCEPT ![Head(backlog)] = "live"]
  /\ UNCHANGED <<clientVars, toServer, toClient, connected, threadVars, server, wsa,
                 misuse, faults>>

\* Mutant: `<=` for `<`.
AdmitOneMore ==
  /\ Main("decide", IF connected <= Limit THEN "start" ELSE "refuse")
  /\ UNCHANGED <<clientVars, netVars, newClient, connected, threadVars, heapVars, faults>>

\* gConnectedUsers is read outside its critical section.
Decide ==
  /\ Main("decide", IF connected < Limit THEN "start" ELSE "refuse")
  /\ UNCHANGED <<clientVars, netVars, newClient, connected, threadVars, heapVars, faults>>

StartThread ==
  /\ Main("start", "count")
  /\ pc' = [pc EXCEPT ![newClient] = "command"]
  /\ UNCHANGED <<clientVars, netVars, newClient, connected, todo, exitted, tableVars,
                 heapVars, faults>>

Count ==
  /\ Main("count", "greet")
  /\ connected' = connected + 1
  /\ UNCHANGED <<clientVars, netVars, newClient, threadVars, heapVars, faults>>

\* "Successful connection": the thread already owns the object.
Greet ==
  /\ Main("greet", "await")
  /\ IF obj[newClient] = "freed"
     THEN /\ misuse' = misuse \cup {"client"}
          /\ UNCHANGED <<toServer, toClient, obj, server, wsa, faults>>
     ELSE \/ /\ wsa
             /\ Deliver(newClient, "welcome")
             /\ UNCHANGED <<toServer, heapVars, faults>>
          \/ CallMayFail(newClient) /\ Collapse(newClient) /\ UNCHANGED toClient
  /\ UNCHANGED <<clientVars, backlog, newClient, connected, threadVars>>

\* Mutant: the client is turned away without being told.
RefuseSilently ==
  /\ Main("refuse", "await")
  /\ UNCHANGED <<clientVars, netVars, newClient, connected, threadVars, heapVars, faults>>

\* "Error: maximum concurrent connection count reached"; the object is
\* abandoned at once, and a second time when the send has failed.
Refuse ==
  /\ Main("refuse", "await")
  /\ \/ /\ wsa
        /\ Deliver(newClient, "full")
        /\ obj' = [obj EXCEPT ![newClient] = "freed"]
        /\ UNCHANGED <<toServer, server, wsa, misuse, faults>>
     \/ /\ CallMayFail(newClient)
        /\ obj' = [obj EXCEPT ![newClient] = "freed"]
        /\ ServerFails
        /\ misuse' = misuse \cup {"client"}
                            \cup (IF server = "freed" THEN {"server"} ELSE {})
        /\ UNCHANGED toClient
  /\ UNCHANGED <<clientVars, backlog, newClient, connected, threadVars>>

\* The listening socket was closed by a thread's error path, AwaitNewClient found no
\* memory, or CreateThread failed: cleanup destroys the server, and the process ends
\* with its threads and all it has allocated.
Cleanup ==
  /\ \/ mpc = "await" /\ (server = "freed" \/ ~wsa) /\ UNCHANGED faults
     \/ mpc = "await" /\ Fault("memory")
     \/ mpc = "start" /\ Fault("thread")
  /\ mpc' = "exited"
  /\ ServerFails
  /\ misuse' = misuse \cup (IF server = "freed" THEN {"server"} ELSE {})
  /\ backlog' = <<>>
  /\ connected' = 0
  /\ obj' = [c \in Clients |-> "none"]
  /\ pc' = [c \in Clients |-> "none"]
  /\ todo' = [c \in Clients |-> <<>>]
  /\ exitted' = [c \in Clients |-> FALSE]
  /\ target' = [c \in Clients |-> {}]
  /\ mapped' = {}
  /\ UNCHANGED <<clientVars, toClient, newClient, skipped>>

---------------------------------------------------------------------------
(* ServeOneClient.                                                          *)

At(c, from) == pc[c] = from
Goto(c, to) == pc' = [pc EXCEPT ![c] = to]

\* Numbers and letters of a text that is out of step may be any type.  Items are taken
\* whole here, and a text longer than the buffer it is copied to is not modelled.
TypeFound(c) ==
  LET item == Head(toServer[c]) IN IF item = "text" THEN Misread ELSE {item}

\* Mutant: a logged in client's exit has no case label; its parts are ignored.
ReceiveKnownCommand(c) ==
  /\ At(c, "command") /\ wsa /\ toServer[c] # <<>>
  /\ toServer' = [toServer EXCEPT ![c] = Tail(@)]
  /\ \E k \in TypeFound(c) :
       IF k \in {"exitLoggedIn", "text"} THEN UNCHANGED <<pc, exitted, todo>>
       ELSE /\ Goto(c, "run")
            /\ exitted' = [exitted EXCEPT ![c] = k \in Exits]
            /\ \E calls \in Handler[k] : todo' = [todo EXCEPT ![c] = calls]
  /\ UNCHANGED <<clientVars, backlog, toClient, mainVars, connected, tableVars, heapVars,
                 faults>>

\* Each handler with texts allocates room for them first, and returns at once when there
\* is none: the texts stay in the stream.
ReceiveCommand(c) ==
  /\ At(c, "command") /\ wsa /\ toServer[c] # <<>>
  /\ Goto(c, "run")
  /\ toServer' = [toServer EXCEPT ![c] = Tail(@)]
  /\ \E k \in TypeFound(c) :
       /\ exitted' = [exitted EXCEPT ![c] = k \in Exits]
       /\ \/ /\ \E calls \in Handler[k] : todo' = [todo EXCEPT ![c] = calls]
             /\ UNCHANGED <<skipped, faults>>
          \/ /\ Fault("memory") /\ Texts[k] # <<>>
             /\ todo' = [todo EXCEPT ![c] = <<>>]
             /\ skipped' = skipped \cup {c}
  /\ UNCHANGED <<clientVars, backlog, toClient, mainVars, connected, target, mapped,
                 heapVars>>

\* The thread returns without decrementing gConnectedUsers.  The buffer it creates
\* before its loop is taken as created.
ReceiveCommandFails(c) ==
  /\ At(c, "command") /\ MayFail(c)
  /\ Goto(c, "ended")
  /\ Collapse(c)
  /\ UNCHANGED <<clientVars, backlog, toClient, mainVars, connected, todo, exitted, tableVars,
                 faults>>

Calling(c, call) == At(c, "run") /\ todo[c] # <<>> /\ Head(todo[c]) = call
CallDone(c) == todo' = [todo EXCEPT ![c] = Tail(@)]

ReceiveText(c) ==
  /\ Calling(c, "recv") /\ obj[c] = "live" /\ wsa /\ toServer[c] # <<>>
  /\ toServer' = [toServer EXCEPT ![c] = Tail(@)]
  /\ CallDone(c)
  /\ UNCHANGED <<clientVars, backlog, toClient, mainVars, connected, pc, exitted, tableVars,
                 heapVars, faults>>

SendText(c) ==
  /\ Calling(c, "send") /\ obj[c] = "live" /\ wsa
  /\ Deliver(c, "reply")
  /\ CallDone(c)
  /\ UNCHANGED <<clientVars, backlog, toServer, mainVars, connected, pc, exitted, tableVars,
                 heapVars, faults>>

\* A call on the thread's own client.
OwnCall(c) == Calling(c, "recv") \/ Calling(c, "send")

\* The handlers do not look at the result of ReceiveText and SendTextToClient.  What is
\* taken for a text out of step may have a length no buffer can have.
CallFails(c) ==
  /\ OwnCall(c) /\ obj[c] = "live"
  /\ \/ CallMayFail(c)
     \/ /\ Calling(c, "recv") /\ toServer[c] # <<>> /\ Head(toServer[c]) # "text"
        /\ UNCHANGED faults
  /\ Collapse(c)
  /\ CallDone(c)
  /\ UNCHANGED <<clientVars, backlog, toClient, mainVars, connected, pc, exitted, tableVars>>

\* A call on the freed client: what the thread does from here on is undefined.
UseFreedClient(c) ==
  /\ OwnCall(c) /\ obj[c] = "freed"
  /\ misuse' = misuse \cup {"client"}
  /\ Goto(c, "undefined")
  /\ UNCHANGED <<clientVars, netVars, mainVars, connected, todo, exitted, tableVars, obj,
                 server, wsa, faults>>

\* A login enters the thread's own client, freed or not; under which names, and which
\* entry a logout takes out, if any, is in Sessions.
Insert(c) ==
  /\ Calling(c, "insert")
  /\ mapped' = mapped \cup {c}
  /\ CallDone(c)
  /\ UNCHANGED <<clientVars, netVars, mainVars, connected, pc, exitted, target, skipped,
                 heapVars, faults>>

Remove(c) ==
  /\ Calling(c, "remove")
  /\ mapped' = mapped \/ \E d \in mapped : mapped' = mapped \ {d}
  /\ CallDone(c)
  /\ UNCHANGED <<clientVars, netVars, mainVars, connected, pc, exitted, target, skipped,
                 heapVars, faults>>

\* The pointer is read under the lock, and used after it is released; nothing is sent
\* to a user who has no entry.
Lookup(c) ==
  /\ Calling(c, "lookup")
  /\ \/ /\ \E d \in mapped : target' = [target EXCEPT ![c] = {d}]
        /\ CallDone(c)
     \/ todo' = [todo EXCEPT ![c] = Tail(Tail(@))] /\ UNCHANGED target
  /\ UNCHANGED <<clientVars, netVars, mainVars, connected, pc, exitted, mapped, skipped,
                 heapVars, faults>>

Forwarding(c, d) == Calling(c, "forward") /\ d \in target[c]
ForwardDone(c) == CallDone(c) /\ target' = [target EXCEPT ![c] = {}]

Forward(c, d) ==
  /\ Forwarding(c, d) /\ obj[d] = "live" /\ wsa
  /\ Deliver(d, "reply")
  /\ ForwardDone(c)
  /\ UNCHANGED <<clientVars, backlog, toServer, mainVars, connected, pc, exitted, mapped,
                 skipped, heapVars, faults>>

\* It is the other client that is then freed, under its running thread.
ForwardFails(c, d) ==
  /\ Forwarding(c, d) /\ obj[d] = "live" /\ CallMayFail(d)
  /\ Collapse(d)
  /\ ForwardDone(c)
  /\ UNCHANGED <<clientVars, backlog, toClient, mainVars, connected, pc, exitted, mapped,
                 skipped>>

\* The other client's thread has freed it meanwhile: the send on its closed socket
\* fails, or what happens is undefined.
ForwardToFreed(c, d) ==
  /\ Forwarding(c, d) /\ obj[d] = "freed"
  /\ \/ /\ ServerFails
        /\ misuse' = misuse \cup {"borrowed", "client"}
                            \cup (IF server = "freed" THEN {"server"} ELSE {})
        /\ ForwardDone(c)
        /\ UNCHANGED pc
     \/ /\ misuse' = misuse \cup {"borrowed"}
        /\ Goto(c, "undefined")
        /\ UNCHANGED <<todo, target, toServer, server, wsa>>
  /\ UNCHANGED <<clientVars, backlog, toClient, mainVars, connected, exitted, mapped, skipped,
                 obj, faults>>

\* The loop's next round, in which a freed client is used again.
EndCommand(c) ==
  /\ At(c, "run") /\ todo[c] = <<>>
  /\ IF exitted[c] THEN Goto(c, "decrement") /\ UNCHANGED misuse
     ELSE IF obj[c] = "freed"
          THEN Goto(c, "undefined") /\ misuse' = misuse \cup {"client"}
          ELSE Goto(c, "command") /\ UNCHANGED misuse
  /\ UNCHANGED <<clientVars, netVars, mainVars, connected, todo, exitted, tableVars, obj,
                 server, wsa, faults>>

\* Mutant: a client that exits does not give its place back.
ExitWithoutDecrement(c) ==
  /\ At(c, "decrement")
  /\ Goto(c, "abandon")
  /\ UNCHANGED <<clientVars, netVars, mainVars, connected, todo, exitted, tableVars,
                 heapVars, faults>>

\* Mutant: the place is given back twice.
DecrementTwice(c) ==
  /\ At(c, "decrement")
  /\ Goto(c, "abandon")
  /\ connected' = connected - 2
  /\ UNCHANGED <<clientVars, netVars, mainVars, todo, exitted, tableVars, heapVars, faults>>

Decrement(c) ==
  /\ At(c, "decrement")
  /\ Goto(c, "abandon")
  /\ connected' = connected - 1
  /\ UNCHANGED <<clientVars, netVars, mainVars, todo, exitted, tableVars, heapVars, faults>>

AbandonAtEnd(c) ==
  /\ At(c, "abandon")
  /\ Goto(c, "ended")
  /\ obj' = [obj EXCEPT ![c] = "freed"]
  /\ misuse' = misuse \cup (IF obj[c] = "freed" THEN {"client"} ELSE {})
  /\ UNCHANGED <<clientVars, netVars, mainVars, connected, todo, exitted, tableVars,
                 server, wsa, faults>>

---------------------------------------------------------------------------
ClientProgram(c) == Read(c) \/ ReadFails(c) \/ CheckLoop(c) \/ Leave(c)
                      \/ \E k \in Exits : SendExit(c, k)

User(c) == Connect(c) \/ TypeExit(c) \/ \E k \in Typed[c] : Type(c, k)

AcceptLoop == Accept \/ Decide \/ StartThread \/ Count \/ Greet \/ Refuse \/ Cleanup

ServeOneClient(c) ==
  \/ ReceiveCommand(c) \/ ReceiveCommandFails(c)
  \/ ReceiveText(c) \/ SendText(c) \/ CallFails(c) \/ UseFreedClient(c)
  \/ Insert(c) \/ Remove(c) \/ Lookup(c)
  \/ \E d \in Clients : Forward(c, d) \/ ForwardFails(c, d) \/ ForwardToFreed(c, d)
  \/ EndCommand(c) \/ Decrement(c) \/ AbandonAtEnd(c)

Next ==
  \/ \E c \in Clients : ClientProgram(c) \/ User(c) \/ Kill(c) \/ ServeOneClient(c)
  \/ AcceptLoop

Spec == Init /\ [][Next]_vars

\* The operating systems run every runnable thread of both programs; what the
\* user does is up to the user.
FairSpec ==
  /\ Spec
  /\ WF_vars(AcceptLoop)
  /\ \A c \in Clients : WF_vars(ClientProgram(c)) /\ WF_vars(ServeOneClient(c))

---------------------------------------------------------------------------
(* Properties.                                                              *)

\* Every variable has its type.
TypeOK ==
  /\ user \in [Clients -> {"absent", "waiting", "typing", "exiting", "left",
                           "refused", "killed"}]
  /\ reader \in [Clients -> {"recv", "check", "ended"}]
  /\ open \in [Clients -> BOOLEAN]
  /\ budget \in [Clients -> 0..MaxTyped]
  /\ backlog \in Seq(Clients)
  /\ toServer \in [Clients -> Seq(DOMAIN Handler \cup {"text"})]
  /\ toClient \in [Clients -> Seq({"welcome", "full", "reply"})]
  /\ mpc \in {"await", "decide", "start", "count", "greet", "refuse", "exited"}
  /\ newClient \in Clients
  /\ connected \in 0..Limit
  /\ obj \in [Clients -> {"none", "live", "freed"}]
  /\ pc \in [Clients -> {"none", "command", "run", "decrement", "abandon", "ended",
                         "undefined"}]
  /\ todo \in [Clients -> Seq({"recv", "send", "insert", "remove", "lookup", "forward"})]
  /\ exitted \in [Clients -> BOOLEAN]
  /\ target \in [Clients -> SUBSET Clients]
  /\ mapped \subseteq Clients /\ skipped \subseteq Clients
  /\ server \in {"live", "freed"}
  /\ wsa \in BOOLEAN
  /\ misuse \subseteq {"client", "server", "borrowed"}
  /\ faults \in 0..MaxFaults

\* The clients whose thread has not yet reached the end of its loop; a thread whose
\* behaviour is undefined takes no further step here and keeps its place.
Served == {c \in Clients : pc[c] \in {"command", "run", "decrement", "undefined"}}

\* At no time are more clients served than the server's argument allows,
\* although the counter is read unlocked and incremented after the thread has
\* started.
LimitRespected == Cardinality(Served) <= Limit

\* While no call has failed, gConnectedUsers counts the served clients, but for
\* the one the accept loop is about to count.
CounterExact ==
  wsa => connected + (IF mpc = "count" THEN 1 ELSE 0) = Cardinality(Served)

\* Until a send or a receive has failed, the only freed objects that are used are
\* those of other clients, by a msg or broadcast that has looked them up before they
\* were freed or in an entry they left behind.  A thread's own client is then safe,
\* and so is the accept loop's greeting, through a pointer the thread may free: it
\* relies on clients that wait for the greeting.
MisuseBorrowedOrAfterFailure == misuse \subseteq {"borrowed"} \/ ~wsa

\* While no call has failed, a thread that waits for a command never finds a text
\* there, unless one of its handlers has returned for lack of memory before it took
\* its texts: otherwise each takes the texts its client sent, although the connection
\* carries one stream and neither side marks where a command ends.
CommandsInStep ==
  wsa => \A c \in Clients \ skipped :
           pc[c] = "command" /\ toServer[c] # <<>> => Head(toServer[c]) # "text"

\* Whoever connects is told whether there is a place, unless the server fails.
EveryClientAnswered ==
  [](\A c \in Clients : user[c] = "waiting" => <>(user[c] # "waiting" \/ ~wsa))

\* A user who types exit gets out of the client program, even if the server fails or
\* has ended meanwhile, unless the client's thread has sent to a freed object or its
\* stream is out of step.
ExitCompletes ==
  [](\A c \in Clients :
       user[c] = "exiting" => <>(~open[c] \/ pc[c] = "undefined" \/ c \in skipped))

\* The place of a user who typed exit comes back, though the exit is answered
\* before that and the next client may be refused in between; with the same
\* exceptions, and unless the server fails.
PlaceComesBack ==
  [](\A c \in Clients :
       user[c] = "left" =>
         <>(c \notin Served \/ pc[c] = "undefined" \/ ~wsa \/ c \in skipped))

\* No object is used after it was freed or freed twice.
NoMisuse == misuse = {}
=============================================================================
