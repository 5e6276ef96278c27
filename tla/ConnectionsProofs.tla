-------------------------- MODULE ConnectionsProofs --------------------------
(***************************************************************************)
(* What holds of the connections for every number of clients, every limit    *)
(* and every failure: the limit, the counter and the objects' lives.         *)
(***************************************************************************)
EXTENDS Connections, FiniteSetTheorems, SequenceTheorems, TLAPS

---------------------------------------------------------------------------
(* The inductive invariant.                                                 *)

UserStates == {"absent", "waiting", "typing", "exiting", "left", "refused", "killed"}

Shape ==
  /\ user \in [Clients -> UserStates]
  /\ pc \in [Clients -> {"none", "command", "run", "decrement", "abandon", "ended",
                          "undefined"}]
  /\ obj \in [Clients -> {"none", "live", "freed"}]
  /\ DOMAIN toServer = Clients /\ DOMAIN toClient = Clients
  /\ backlog \in Seq(Clients)
  /\ newClient \in Clients
  /\ connected \in Int
  /\ mapped \subseteq Clients /\ target \in [Clients -> SUBSET Clients]

\* The client has said nothing and has been told nothing.
Quiet(c) == user[c] \in {"waiting", "killed"} /\ toServer[c] = <<>> /\ toClient[c] = <<>>

\* No thread has been started for it either.
Fresh(c) == pc[c] = "none" /\ Quiet(c)

\* A client waits in the backlog once, then in the accept loop, where it stays
\* quiet until it is greeted.
Arrivals ==
  /\ \A c \in Clients : user[c] = "absent" => pc[c] = "none" /\ toServer[c] = <<>> /\ toClient[c] = <<>>
  /\ \A i \in 1..Len(backlog) : Fresh(backlog[i])
  /\ \A i, j \in 1..Len(backlog) : backlog[i] = backlog[j] => i = j
  /\ mpc \in {"decide", "start", "refuse"} =>
       /\ Fresh(newClient) /\ obj[newClient] = "live"
       /\ \A i \in 1..Len(backlog) : backlog[i] # newClient
  /\ mpc \in {"count", "greet"} /\ wsa =>
       pc[newClient] = "command" /\ Quiet(newClient) /\ obj[newClient] = "live"

\* While no call has failed, the object of a running thread has not been freed.
Objects ==
  /\ \A c \in Clients :
       pc[c] \in {"command", "run", "decrement", "abandon"} /\ obj[c] = "freed" => ~wsa
  /\ MisuseBorrowedOrAfterFailure

\* The clients whose objects other threads may get at, or hold already.
Lent == {d \in Clients : d \in mapped \/ \E c \in Clients : d \in target[c]}

\* A started client that is not just being greeted.
Met(d) == pc[d] # "none" /\ (wsa /\ mpc \in {"count", "greet"} => newClient # d)

\* Nobody sends through another thread's client before it has been greeted.
Borrowed == \A d \in Lent : Met(d)

\* The served client that the accept loop has not counted yet.
Uncounted == IF mpc = "count" THEN 1 ELSE 0

Counted ==
  /\ Cardinality(Served) <= connected + Uncounted
  /\ connected + Uncounted <= Limit
  /\ mpc = "start" => connected < Limit
  /\ CounterExact

IInv == Shape /\ Arrivals /\ Borrowed /\ Objects /\ Counted

---------------------------------------------------------------------------
(* The set of served clients.                                               *)

Serving == {"command", "run", "decrement", "undefined"}

\* The served clients are finitely many.
LEMMA ServedFinite == IsFiniteSet(Served) /\ Cardinality(Served) \in Nat
BY ConnectionsAssumption, FS_Subset, FS_CardinalityType DEF Served

\* A thread that goes on serving does not change the set.
LEMMA ServedSame ==
  ASSUME Shape, NEW c \in Clients, NEW to \in Serving, pc[c] \in Serving,
         pc' = [pc EXCEPT ![c] = to]
  PROVE  Served' = Served
BY DEF Shape, Served, Serving

\* A thread that ends its loop takes one client away.
LEMMA ServedLoses ==
  ASSUME Shape, NEW c \in Clients, NEW to, to \notin Serving, pc[c] \in Serving,
         pc' = [pc EXCEPT ![c] = to]
  PROVE  Cardinality(Served') = Cardinality(Served) - 1
<1>1. Served' = Served \ {c} /\ c \in Served
  BY DEF Shape, Served, Serving
<1> QED BY <1>1, ServedFinite, FS_RemoveElement

\* A thread that is started adds one.
LEMMA ServedGains ==
  ASSUME Shape, NEW c \in Clients, pc[c] = "none", pc' = [pc EXCEPT ![c] = "command"]
  PROVE  Cardinality(Served') = Cardinality(Served) + 1
<1>1. Served' = Served \cup {c} /\ c \notin Served
  BY DEF Shape, Served
<1> QED BY <1>1, ServedFinite, FS_AddElement

---------------------------------------------------------------------------
(* Init and the steps of the client program.                                *)

\* It holds before the first client.
LEMMA InitInvariant == Init => IInv
<1> SUFFICES ASSUME Init PROVE IInv
  OBVIOUS
<1>1. Served = {}
  BY DEF Init, Served
<1>2. Cardinality(Served) = 0
  BY <1>1, FS_EmptySet
<1>3. Counted
  BY <1>2, ConnectionsAssumption DEF Init, Counted, CounterExact, Uncounted
<1>4. Shape
  BY EmptySeq DEF Init, Shape, UserStates
<1>5. Arrivals
  BY DEF Init, Arrivals
<1>6. Objects
  BY DEF Init, Objects, MisuseBorrowedOrAfterFailure
<1>7. Borrowed
  BY DEF Init, Borrowed, Lent
<1> QED BY <1>3, <1>4, <1>5, <1>6, <1>7 DEF IInv

\* What the clients do does not touch the server.
LEMMA ServerUntouched ==
  ASSUME IInv, UNCHANGED <<mainVars, connected, threadVars, heapVars>>
  PROVE  Objects' /\ Counted' /\ Borrowed'
<1> USE DEF threadVars, tableVars
<1>1. Served' = Served
  BY DEF Served
<1>2. Objects'
  BY DEF IInv, Objects, MisuseBorrowedOrAfterFailure, heapVars
<1>3. Counted'
  BY <1>1 DEF IInv, Counted, CounterExact, Uncounted, mainVars, heapVars
<1>4. Borrowed'
  BY DEF IInv, Borrowed, Lent, Met, mainVars, heapVars
<1> QED BY <1>2, <1>3, <1>4

\* A client that is quiet stays so unless it acts itself, and it does only once
\* it has been greeted.
LEMMA ClientSteps ==
  ASSUME IInv, NEW c \in Clients, ClientProgram(c) \/ User(c) \/ Kill(c)
  PROVE  IInv'
<1> USE DEF UserStates, netVars, mainVars, threadVars, tableVars, heapVars
<1>1. Objects' /\ Counted' /\ Borrowed'
  <2>1. UNCHANGED <<mainVars, connected, threadVars, heapVars>>
    BY DEF ClientProgram, User, Kill, Read, ReadFails, CheckLoop, Leave, SendExit, Connect,
           TypeExit, Type
  <2> QED BY <2>1, ServerUntouched
<1>2. CASE Connect(c)
  <2>1. /\ backlog' = Append(backlog, c) /\ backlog' \in Seq(Clients)
        /\ Len(backlog) \in Nat /\ Len(backlog') = Len(backlog) + 1
        /\ \A i \in 1..Len(backlog) : backlog'[i] = backlog[i]
        /\ backlog'[Len(backlog) + 1] = c
    BY <1>2, AppendProperties, LenProperties DEF Connect, IInv, Shape
  <2>2. Shape'
    BY <1>2, <2>1 DEF Connect, IInv, Shape
  <2>3. \A i \in 1..Len(backlog) : backlog[i] \in Clients /\ backlog[i] # c
    BY <1>2, <2>1, ElementOfSeq DEF Connect, IInv, Shape, Arrivals, Fresh, Quiet
  <2>4. user' = [user EXCEPT ![c] = "waiting"] /\ user[c] = "absent" /\ wsa
        /\ UNCHANGED <<toServer, toClient, pc, obj, mpc, newClient, wsa, mapped, target>>
    BY <1>2 DEF Connect
  <2>5. Fresh(c)'
    BY <2>4 DEF IInv, Shape, Arrivals, Fresh, Quiet
  <2>6. ASSUME NEW d \in Clients, d # c PROVE (Quiet(d)' <=> Quiet(d)) /\ user'[d] = user[d]
    BY <2>4, <2>6 DEF IInv, Shape, Quiet
  <2>7. \A i \in 1..Len(backlog) : Fresh(backlog[i])
    BY DEF IInv, Arrivals
  <2>8. ASSUME NEW i \in 1..Len(backlog') PROVE Fresh(backlog[i])'
    <3>1. CASE i = Len(backlog) + 1
      BY <2>1, <2>5, <3>1
    <3>2. CASE i \in 1..Len(backlog)
      <4>1. backlog'[i] = backlog[i] /\ backlog[i] \in Clients /\ backlog[i] # c
        BY <2>1, <2>3, <3>2
      <4>2. Quiet(backlog[i]) /\ pc[backlog[i]] = "none"
        BY <2>7, <3>2 DEF Fresh
      <4> QED BY <2>4, <4>1, <4>2 DEF Fresh, Quiet, IInv, Shape
    <3> QED BY <2>1, <3>1, <3>2
  <2>9. \A i, j \in 1..Len(backlog') : backlog'[i] = backlog'[j] => i = j
    BY <2>1, <2>3 DEF IInv, Arrivals
  <2>10. mpc \in {"decide", "start", "refuse", "count", "greet"} => newClient # c
    BY <2>4 DEF IInv, Arrivals, Fresh, Quiet
  <2>11. (\A i \in 1..Len(backlog) : Fresh(backlog[i]))'
    BY <2>8
  <2>12. \A d \in Clients :
           user'[d] = "absent" => pc'[d] = "none" /\ toServer'[d] = <<>> /\ toClient'[d] = <<>>
    BY <2>4, <2>6 DEF IInv, Shape, Arrivals
  <2>13. mpc' \in {"decide", "start", "refuse"} =>
           /\ Fresh(newClient)' /\ obj'[newClient'] = "live"
           /\ \A i \in 1..Len(backlog') : backlog'[i] # newClient'
    BY <2>1, <2>4, <2>6, <2>10 DEF IInv, Shape, Arrivals, Fresh
  <2>14. mpc' \in {"count", "greet"} /\ wsa' =>
           pc'[newClient'] = "command" /\ Quiet(newClient)' /\ obj'[newClient'] = "live"
    BY <2>4, <2>6, <2>10 DEF IInv, Shape, Arrivals
  <2>15. Arrivals'
    BY <2>9, <2>11, <2>12, <2>13, <2>14 DEF Arrivals
  <2> QED BY <1>1, <2>2, <2>15 DEF IInv
<1>3. CASE ~Connect(c)
  <2> DEFINE Hushed ==
        /\ user' \in [Clients -> UserStates]
        /\ DOMAIN toServer' = Clients /\ DOMAIN toClient' = Clients
        /\ \A d \in Clients : Quiet(d) => Quiet(d)'
        /\ \A d \in Clients : user'[d] = "absent" =>
              user[d] = "absent" /\ toServer'[d] = toServer[d] /\ toClient'[d] = toClient[d]
  <2>1. UNCHANGED <<backlog, pc, obj, mpc, newClient, wsa, connected, mapped, target>>
    BY <1>3 DEF ClientProgram, User, Kill, Read, ReadFails, CheckLoop, Leave, SendExit,
                TypeExit, Type
  <2>2. Hushed
    <3>1. CASE Read(c)
      <4>1. user[c] # "absent" /\ ~Quiet(c)
        BY <3>1 DEF Read, IInv, Arrivals, Quiet
      <4> QED BY <3>1, <4>1 DEF Read, IInv, Shape, Quiet
    <3>2. CASE ReadFails(c) \/ CheckLoop(c) \/ Leave(c)
      BY <3>2 DEF ReadFails, CheckLoop, Leave, Close, IInv, Shape, Quiet
    <3>3. CASE \E k \in Exits : SendExit(c, k)
      BY <3>3 DEF SendExit, SendToServer, IInv, Shape, Quiet
    <3>4. CASE \E k \in Typed[c] : Type(c, k)
      BY <3>4 DEF Type, SendToServer, IInv, Shape, Quiet
    <3>5. CASE TypeExit(c)
      BY <3>5 DEF TypeExit, IInv, Shape, Quiet
    <3>6. CASE Kill(c)
      BY <3>6 DEF Kill, Close, IInv, Shape, Quiet
    <3> QED BY <1>3, <3>1, <3>2, <3>3, <3>4, <3>5, <3>6 DEF ClientProgram, User
  <2>3. Shape'
    BY <2>1, <2>2 DEF IInv, Shape
  <2>4. \A i \in 1..Len(backlog) : backlog[i] \in Clients
    BY ElementOfSeq DEF IInv, Shape
  <2>5. (\A i \in 1..Len(backlog) : Fresh(backlog[i]))'
    BY <2>1, <2>2, <2>4 DEF IInv, Arrivals, Fresh
  <2>6. \A d \in Clients :
          user'[d] = "absent" => pc'[d] = "none" /\ toServer'[d] = <<>> /\ toClient'[d] = <<>>
    BY <2>1, <2>2 DEF IInv, Arrivals
  <2>7. newClient \in Clients
    BY DEF IInv, Shape
  <2>8. Fresh(newClient) => Fresh(newClient)'
    BY <2>1, <2>2, <2>7 DEF Fresh, Quiet
  <2>9. Quiet(newClient) => Quiet(newClient)'
    BY <2>1, <2>2, <2>7 DEF Quiet
  <2> HIDE DEF Hushed
  <2>10. Arrivals'
    BY <2>1, <2>5, <2>6, <2>8, <2>9 DEF IInv, Arrivals
  <2> QED BY <1>1, <2>3, <2>10 DEF IInv
<1> QED BY <1>2, <1>3

---------------------------------------------------------------------------
(* The steps of a ServeOneClient thread.                                    *)

\* A thread goes on, and touches the object, the stream or the entry of another started
\* client at most.  The client being greeted is only moved by a call that fails.
LEMMA ThreadArrivals ==
  ASSUME IInv, NEW c \in Clients, NEW d \in Clients,
         pc[c] # "none", pc[d] # "none", wsa' => wsa /\ Met(c) /\ Met(d),
         UNCHANGED <<user, backlog, mpc, newClient>>,
         NEW to \in {"command", "run", "decrement", "abandon", "ended", "undefined"},
         pc' = [pc EXCEPT ![c] = to],
         DOMAIN toServer' = Clients, DOMAIN toClient' = Clients,
         \A e \in Clients \ {c, d} :
           toServer'[e] \in {toServer[e], <<>>} /\ toClient'[e] = toClient[e] /\ obj'[e] = obj[e],
         obj' \in [Clients -> {"none", "live", "freed"}],
         connected' \in Int,
         mapped' \subseteq Clients, target' \in [Clients -> SUBSET Clients],
         Lent' \subseteq Lent \cup {c}
  PROVE  Shape' /\ Arrivals' /\ Borrowed'
<1> DEFINE S == {c, d}
<1>1. \A e \in Clients \ S : pc'[e] = pc[e] /\ (Quiet(e) => Quiet(e)')
  BY DEF IInv, Shape, Quiet
<1>2. Shape'
  BY DEF IInv, Shape
<1>3. \A i \in 1..Len(backlog) : backlog[i] \in Clients \ S
  BY ElementOfSeq DEF IInv, Shape, Arrivals, Fresh
<1>4. (\A i \in 1..Len(backlog) : Fresh(backlog[i]))'
  BY <1>1, <1>3 DEF IInv, Arrivals, Fresh
<1>5. \A e \in Clients :
        user'[e] = "absent" => pc'[e] = "none" /\ toServer'[e] = <<>> /\ toClient'[e] = <<>>
  BY <1>1 DEF IInv, Arrivals
<1>6. newClient \in Clients
  BY DEF IInv, Shape
<1>7. newClient \notin S => (Fresh(newClient) => Fresh(newClient)')
                              /\ (Quiet(newClient) => Quiet(newClient)')
  BY <1>1, <1>6 DEF Fresh, Quiet
<1>8. mpc \in {"decide", "start", "refuse"} => newClient \notin S
  BY DEF IInv, Arrivals, Fresh
<1>9. wsa' /\ mpc \in {"count", "greet"} => newClient \notin S
  BY DEF Met
<1>10. Arrivals'
  BY <1>1, <1>4, <1>5, <1>6, <1>7, <1>8, <1>9 DEF IInv, Arrivals
<1>11. \A e \in Clients : pc[e] # "none" => pc'[e] # "none"
  BY DEF IInv, Shape
<1>12. Borrowed'
  <2>1. \A e \in Lent' : e \in Clients /\ pc[e] # "none" /\ (wsa' => Met(e))
    BY DEF Lent, IInv, Borrowed, Met
  <2> QED BY <1>11, <2>1 DEF Borrowed, Met
<1> QED BY <1>2, <1>10, <1>12

\* A thread whose client the accept loop is greeting has not received anything.
LEMMA ThreadMet ==
  ASSUME IInv, NEW c \in Clients, pc[c] \notin {"none", "command"} \/ toServer[c] # <<>>
  PROVE  pc[c] # "none" => Met(c)
BY DEF IInv, Arrivals, Quiet, Met

\* A step that leaves the tables alone lends nothing.
LEMMA LentSame ==
  ASSUME UNCHANGED <<mapped, target>>
  PROVE  Lent' = Lent
BY DEF Lent

\* The commands a thread receives.
LEMMA ReceiveSteps ==
  ASSUME IInv, NEW c \in Clients, ReceiveCommand(c) \/ ReceiveCommandFails(c)
  PROVE  IInv'
<1> USE DEF netVars, mainVars, threadVars, tableVars, heapVars, clientVars, At, Goto
<1>2. ASSUME ReceiveCommand(c)
      PROVE  IInv'
  <2>1. Shape' /\ Arrivals' /\ Borrowed'
    <3>1. /\ pc' = [pc EXCEPT ![c] = "run"] /\ pc[c] = "command" /\ toServer[c] # <<>>
          /\ UNCHANGED <<user, backlog, mpc, newClient, toClient, obj, connected, wsa, mapped,
                         target>>
          /\ DOMAIN toServer' = Clients
          /\ \A d \in Clients \ {c} : toServer'[d] = toServer[d]
      BY <1>2 DEF ReceiveCommand, IInv, Shape
    <3>2. Met(c) /\ Lent' = Lent
      BY <3>1, ThreadMet, LentSame
    <3>3. /\ DOMAIN toClient' = Clients /\ obj' \in [Clients -> {"none", "live", "freed"}]
          /\ connected' \in Int /\ mapped' \subseteq Clients
          /\ target' \in [Clients -> SUBSET Clients]
      BY <3>1 DEF IInv, Shape
    <3> QED BY <3>1, <3>2, <3>3, ThreadArrivals
  <2>2. Served' = Served
    BY <1>2, ServedSame DEF ReceiveCommand, IInv, Serving
  <2>3. Objects'
    BY <1>2 DEF ReceiveCommand, IInv, Shape, Objects, MisuseBorrowedOrAfterFailure
  <2>4. Counted'
    BY <1>2, <2>2 DEF ReceiveCommand, IInv, Counted, CounterExact, Uncounted
  <2> QED BY <2>1, <2>3, <2>4 DEF IInv
<1>3. ASSUME ReceiveCommandFails(c)
      PROVE  IInv'
  <2>0. /\ pc' = [pc EXCEPT ![c] = "ended"] /\ pc[c] = "command" /\ ~wsa'
        /\ obj' = [obj EXCEPT ![c] = "freed"] /\ toServer' = [d \in Clients |-> <<>>]
        /\ UNCHANGED <<user, backlog, mpc, newClient, toClient, connected, mapped, target>>
    BY <1>3 DEF ReceiveCommandFails, Collapse, ServerFails
  <2>1. Shape' /\ Arrivals' /\ Borrowed'
    <3>1. Lent' = Lent
      BY <2>0, LentSame
    <3>2. /\ DOMAIN toClient' = Clients /\ obj' \in [Clients -> {"none", "live", "freed"}]
          /\ connected' \in Int /\ mapped' \subseteq Clients
          /\ target' \in [Clients -> SUBSET Clients]
          /\ \A d \in Clients \ {c} : obj'[d] = obj[d]
      BY <2>0 DEF IInv, Shape
    <3> QED BY <2>0, <3>1, <3>2, ThreadArrivals
  <2>2. Cardinality(Served') = Cardinality(Served) - 1
    BY <2>0, ServedLoses DEF IInv, Serving
  <2>3. Objects'
    BY <2>0 DEF Objects, MisuseBorrowedOrAfterFailure
  <2>4. Counted'
    BY <2>0, <2>2, ServedFinite DEF IInv, Shape, Counted, CounterExact, Uncounted
  <2> QED BY <2>1, <2>3, <2>4 DEF IInv
<1> QED BY <1>2, <1>3

\* A step within a command: if the server does not fail, one other client at most is
\* touched, and it has been greeted.
LEMMA CallStep ==
  ASSUME IInv, NEW c \in Clients, pc[c] = "run", pc' = [pc EXCEPT ![c] = "run"],
         NEW d \in Clients, pc[d] # "none", wsa' => Met(d) /\ wsa /\ UNCHANGED obj,
         UNCHANGED <<user, backlog, mpc, newClient, connected>>,
         misuse' = misuse \/ ~wsa',
         DOMAIN toServer' = Clients, DOMAIN toClient' = Clients,
         \A e \in Clients \ {c, d} : toServer'[e] \in {toServer[e], <<>>}
                                       /\ toClient'[e] = toClient[e] /\ obj'[e] = obj[e],
         obj' \in [Clients -> {"none", "live", "freed"}],
         mapped' \subseteq Clients, target' \in [Clients -> SUBSET Clients],
         Lent' \subseteq Lent \cup {c}
  PROVE  IInv'
<1>1. Met(c)
  BY ThreadMet
<1>2. Shape' /\ Arrivals' /\ Borrowed'
  <2>1. connected' \in Int
    BY DEF IInv, Shape
  <2> QED BY <1>1, <2>1, ThreadArrivals
<1>3. Served' = Served
  BY ServedSame DEF IInv, Serving
<1>4. Objects'
  BY DEF IInv, Shape, Objects, MisuseBorrowedOrAfterFailure
<1>5. Counted'
  BY <1>3 DEF IInv, Counted, CounterExact, Uncounted
<1> QED BY <1>2, <1>4, <1>5 DEF IInv

\* The calls on the thread's own client, and on gUsersMapping.
LEMMA OwnSteps ==
  ASSUME IInv, NEW c \in Clients,
         \/ ReceiveText(c) \/ SendText(c) \/ CallFails(c)
         \/ Insert(c) \/ Remove(c) \/ Lookup(c)
  PROVE  IInv'
<1> USE DEF netVars, mainVars, threadVars, tableVars, heapVars, clientVars, At, Calling, OwnCall
<1>1. pc[c] = "run" /\ pc' = [pc EXCEPT ![c] = "run"]
      /\ UNCHANGED <<user, backlog, mpc, newClient, connected>>
  BY DEF ReceiveText, SendText, CallFails, Insert, Remove, Lookup, IInv, Shape
<1>2. Met(c)
  BY <1>1, ThreadMet
<1>3. /\ obj \in [Clients -> {"none", "live", "freed"}]
      /\ DOMAIN toServer = Clients /\ DOMAIN toClient = Clients
      /\ mapped \subseteq Clients /\ target \in [Clients -> SUBSET Clients]
  BY DEF IInv, Shape
<1>4. CASE ReceiveText(c) \/ SendText(c)
  <2>1. /\ UNCHANGED <<obj, wsa, misuse, mapped, target>>
        /\ DOMAIN toServer' = Clients /\ DOMAIN toClient' = Clients
        /\ \A e \in Clients \ {c} : toServer'[e] = toServer[e] /\ toClient'[e] = toClient[e]
    BY <1>3, <1>4 DEF ReceiveText, SendText, Deliver
  <2>2. Lent' = Lent
    BY <2>1, LentSame
  <2> QED BY <1>1, <1>2, <1>3, <2>1, <2>2, CallStep
<1>5. CASE CallFails(c)
  <2>1. /\ obj' = [obj EXCEPT ![c] = "freed"] /\ ~wsa' /\ toServer' = [d \in Clients |-> <<>>]
        /\ UNCHANGED <<toClient, mapped, target>>
    BY <1>5 DEF CallFails, Collapse, ServerFails
  <2>2. Lent' = Lent
    BY <2>1, LentSame
  <2>3. obj' \in [Clients -> {"none", "live", "freed"}] /\ \A e \in Clients \ {c} : obj'[e] = obj[e]
    BY <1>3, <2>1
  <2> QED BY <1>1, <1>2, <1>3, <2>1, <2>2, <2>3, CallStep
<1>6. CASE Insert(c) \/ Remove(c) \/ Lookup(c)
  <2>1. UNCHANGED <<toServer, toClient, obj, wsa, misuse>>
    BY <1>6 DEF Insert, Remove, Lookup
  <2>2. mapped' \subseteq mapped \cup {c}
    BY <1>6 DEF Insert, Remove, Lookup
  <2>3. target' \in [Clients -> SUBSET Clients]
        /\ \A e \in Clients : target'[e] \subseteq target[e] \cup mapped
    BY <1>3, <1>6 DEF Insert, Remove, Lookup
  <2>4. mapped' \subseteq Clients /\ Lent' \subseteq Lent \cup {c}
    BY <1>3, <2>2, <2>3 DEF Lent
  <2> QED BY <1>1, <1>2, <1>3, <2>1, <2>3, <2>4, CallStep
<1> QED BY <1>4, <1>5, <1>6

\* The sends through another thread's client.
LEMMA ForwardSteps ==
  ASSUME IInv, NEW c \in Clients, NEW d \in Clients,
         Forward(c, d) \/ ForwardFails(c, d) \/ ForwardToFreed(c, d)
  PROVE  IInv'
<1> USE DEF netVars, mainVars, threadVars, tableVars, heapVars, clientVars, At, Goto, Calling,
            Forwarding
<1>1. /\ pc[c] = "run" /\ d \in target[c]
      /\ UNCHANGED <<user, backlog, mpc, newClient, connected, mapped>>
  BY DEF Forward, ForwardFails, ForwardToFreed
<1>2. /\ obj \in [Clients -> {"none", "live", "freed"}]
      /\ DOMAIN toServer = Clients /\ DOMAIN toClient = Clients
      /\ mapped \subseteq Clients /\ target \in [Clients -> SUBSET Clients]
      /\ pc = [pc EXCEPT ![c] = "run"]
  BY <1>1 DEF IInv, Shape
<1>3. Met(c) /\ Met(d)
  BY <1>1, ThreadMet DEF IInv, Borrowed, Lent
<1>4. target' \in [Clients -> SUBSET Clients] /\ Lent' \subseteq Lent
  <2>1. target' = [target EXCEPT ![c] = {}] \/ target' = target
    BY DEF Forward, ForwardFails, ForwardToFreed, ForwardDone
  <2>2. target' \in [Clients -> SUBSET Clients] /\ \A e \in Clients : target'[e] \subseteq target[e]
    BY <1>2, <2>1
  <2> QED BY <1>1, <2>2 DEF Lent
<1>5. pc[d] # "none"
  BY <1>3 DEF Met
<1>6. CASE Forward(c, d)
  <2>1. /\ UNCHANGED <<pc, toServer, obj, wsa, misuse>>
        /\ DOMAIN toClient' = Clients
        /\ \A e \in Clients \ {d} : toClient'[e] = toClient[e]
    BY <1>2, <1>6 DEF Forward, Deliver
  <2>2. wsa
    BY <1>6 DEF Forward
  <2> QED BY <1>1, <1>2, <1>3, <1>4, <1>5, <2>1, <2>2, CallStep
<1>7. CASE ForwardFails(c, d)
  <2>1. /\ obj' = [obj EXCEPT ![d] = "freed"] /\ ~wsa' /\ toServer' = [e \in Clients |-> <<>>]
        /\ UNCHANGED <<pc, toClient>>
    BY <1>7 DEF ForwardFails, Collapse, ServerFails
  <2>2. obj' \in [Clients -> {"none", "live", "freed"}] /\ \A e \in Clients \ {d} : obj'[e] = obj[e]
    BY <1>2, <2>1
  <2> QED BY <1>1, <1>2, <1>3, <1>4, <1>5, <2>1, <2>2, CallStep
<1>8. CASE ForwardToFreed(c, d)
  <2>1. UNCHANGED <<toClient, obj>>
    BY <1>8 DEF ForwardToFreed
  <2>2. CASE UNCHANGED pc /\ ServerFails
    <3>1. ~wsa' /\ toServer' = [e \in Clients |-> <<>>]
      BY <2>2 DEF ServerFails
    <3> QED BY <1>1, <1>2, <1>3, <1>4, <1>5, <2>1, <2>2, <3>1, CallStep
  <2>3. CASE Goto(c, "undefined") /\ misuse' = misuse \cup {"borrowed"} /\ UNCHANGED <<toServer, wsa>>
    <3>1. pc' = [pc EXCEPT ![c] = "undefined"]
      BY <2>3
    <3>2. connected' \in Int /\ mapped' \subseteq Clients
      BY <1>1, <1>2 DEF IInv, Shape
    <3>3. Shape' /\ Arrivals' /\ Borrowed'
      BY <1>1, <1>2, <1>3, <1>4, <2>1, <2>3, <3>1, <3>2, ThreadArrivals DEF Met
    <3>4. Served' = Served
      BY <1>1, <3>1, ServedSame DEF IInv, Serving
    <3>5. Objects'
      BY <2>1, <2>3, <3>1 DEF IInv, Shape, Objects, MisuseBorrowedOrAfterFailure
    <3>6. Counted'
      BY <1>1, <2>3, <3>4 DEF IInv, Counted, CounterExact, Uncounted
    <3> QED BY <3>3, <3>5, <3>6 DEF IInv
  <2> QED BY <1>8, <2>2, <2>3 DEF ForwardToFreed
<1> QED BY <1>6, <1>7, <1>8

\* The end of a command and of a thread, which frees its own object.
LEMMA EndSteps ==
  ASSUME IInv, NEW c \in Clients,
         UseFreedClient(c) \/ EndCommand(c) \/ Decrement(c) \/ AbandonAtEnd(c)
  PROVE  IInv'
<1> USE DEF netVars, mainVars, threadVars, tableVars, heapVars, clientVars, At, Goto, Calling,
            OwnCall
<1>1. /\ pc[c] \in {"run", "decrement", "abandon"}
      /\ UNCHANGED <<user, backlog, mpc, newClient, toServer, toClient, wsa, mapped, target>>
  BY DEF UseFreedClient, EndCommand, Decrement, AbandonAtEnd
<1>2. Met(c) /\ Lent' = Lent
  BY <1>1, ThreadMet, LentSame
<1>3. ASSUME NEW to \in {"command", "run", "decrement", "abandon", "ended", "undefined"},
             pc' = [pc EXCEPT ![c] = to], connected' \in Int,
             obj' \in [Clients -> {"none", "live", "freed"}],
             \A d \in Clients \ {c} : obj'[d] = obj[d]
      PROVE  Shape' /\ Arrivals' /\ Borrowed'
  <2>1. DOMAIN toServer' = Clients /\ DOMAIN toClient' = Clients
        /\ mapped' \subseteq Clients /\ target' \in [Clients -> SUBSET Clients]
    BY <1>1 DEF IInv, Shape
  <2> QED BY <1>1, <1>2, <1>3, <2>1, ThreadArrivals DEF Met
<1>4. obj \in [Clients -> {"none", "live", "freed"}] /\ connected \in Int
  BY DEF IInv, Shape
<1>6. ASSUME UseFreedClient(c) \/ (EndCommand(c) /\ ~exitted[c] /\ obj[c] = "freed")
      PROVE  IInv'
  <2>1. /\ pc' = [pc EXCEPT ![c] = "undefined"] /\ pc[c] = "run" /\ obj[c] = "freed"
        /\ UNCHANGED <<obj, connected>>
    BY <1>6 DEF UseFreedClient, EndCommand
  <2>2. ~wsa
    BY <2>1 DEF IInv, Objects
  <2>3. Shape' /\ Arrivals' /\ Borrowed'
    BY <1>3, <1>4, <2>1
  <2>4. Served' = Served
    BY <2>1, ServedSame DEF IInv, Serving
  <2>5. Objects'
    BY <1>1, <2>1, <2>2 DEF IInv, Shape, Objects, MisuseBorrowedOrAfterFailure
  <2>6. Counted'
    BY <1>1, <2>1, <2>4 DEF IInv, Counted, CounterExact, Uncounted
  <2> QED BY <2>3, <2>5, <2>6 DEF IInv
<1>7. ASSUME EndCommand(c), exitted[c] \/ obj[c] # "freed"
      PROVE  IInv'
  <2>1. PICK to \in {"decrement", "command"} : pc' = [pc EXCEPT ![c] = to]
    BY <1>7 DEF EndCommand
  <2>2. pc[c] = "run" /\ UNCHANGED <<obj, connected, misuse>>
    BY <1>7 DEF EndCommand
  <2>3. Shape' /\ Arrivals' /\ Borrowed'
    BY <1>3, <1>4, <2>1, <2>2
  <2>4. Served' = Served
    BY <2>1, <2>2, ServedSame DEF IInv, Serving
  <2>5. Objects'
    BY <1>1, <2>1, <2>2 DEF IInv, Shape, Objects, MisuseBorrowedOrAfterFailure
  <2>6. Counted'
    BY <1>1, <2>2, <2>4 DEF IInv, Counted, CounterExact, Uncounted
  <2> QED BY <2>3, <2>5, <2>6 DEF IInv
<1>8. ASSUME Decrement(c)
      PROVE  IInv'
  <2>1. /\ pc' = [pc EXCEPT ![c] = "abandon"] /\ pc[c] = "decrement"
        /\ UNCHANGED <<obj, misuse>> /\ connected' = connected - 1
    BY <1>8 DEF Decrement
  <2>2. Shape' /\ Arrivals' /\ Borrowed'
    BY <1>3, <1>4, <2>1
  <2>3. Cardinality(Served') = Cardinality(Served) - 1
    BY <2>1, ServedLoses DEF IInv, Serving
  <2>4. Objects'
    BY <1>1, <2>1 DEF IInv, Shape, Objects, MisuseBorrowedOrAfterFailure
  <2>5. Counted'
    BY <1>1, <2>1, <2>3, ServedFinite, ConnectionsAssumption
    DEF IInv, Shape, Counted, CounterExact, Uncounted
  <2> QED BY <2>2, <2>4, <2>5 DEF IInv
<1>9. ASSUME AbandonAtEnd(c)
      PROVE  IInv'
  <2>1. /\ pc' = [pc EXCEPT ![c] = "ended"] /\ pc[c] = "abandon"
        /\ obj' = [obj EXCEPT ![c] = "freed"] /\ connected' = connected
        /\ misuse' = misuse \cup (IF obj[c] = "freed" THEN {"client"} ELSE {})
    BY <1>9 DEF AbandonAtEnd
  <2>2. obj' \in [Clients -> {"none", "live", "freed"}] /\ \A d \in Clients \ {c} : obj'[d] = obj[d]
    BY <1>4, <2>1
  <2>3. Shape' /\ Arrivals' /\ Borrowed'
    BY <1>3, <1>4, <2>1, <2>2
  <2>4. Served' = Served
    BY <2>1 DEF IInv, Shape, Served
  <2>5. Objects'
    BY <1>1, <2>1 DEF IInv, Shape, Objects, MisuseBorrowedOrAfterFailure
  <2>6. Counted'
    BY <1>1, <2>1, <2>4 DEF IInv, Counted, CounterExact, Uncounted
  <2> QED BY <2>3, <2>5, <2>6 DEF IInv
<1> QED BY <1>6, <1>7, <1>8, <1>9

\* A thread keeps the invariant.
LEMMA ThreadSteps ==
  ASSUME IInv, NEW c \in Clients, ServeOneClient(c)
  PROVE  IInv'
BY ReceiveSteps, OwnSteps, ForwardSteps, EndSteps DEF ServeOneClient

---------------------------------------------------------------------------
(* The steps of the accept loop.                                            *)

\* A step of the accept loop that leaves the clients and threads alone.
LEMMA LoopArrivals ==
  ASSUME IInv, UNCHANGED <<user, backlog, newClient, toServer, toClient, pc, obj, wsa, mapped, target>>,
         \/ mpc = "decide" /\ mpc' \in {"start", "refuse"}
         \/ mpc = "count" /\ mpc' = "greet"
  PROVE  Arrivals' /\ Borrowed'
<1>1. (\A i \in 1..Len(backlog) : Fresh(backlog[i]))'
  BY DEF IInv, Arrivals, Fresh, Quiet
<1>2. (Fresh(newClient) <=> Fresh(newClient)') /\ (Quiet(newClient) <=> Quiet(newClient)')
  BY DEF Fresh, Quiet
<1>3. Arrivals'
  BY <1>1, <1>2 DEF IInv, Arrivals
<1>4. Borrowed'
  BY LentSame DEF IInv, Borrowed, Met
<1> QED BY <1>3, <1>4

\* A step that ends a round of the loop may say something to the client at hand, or
\* find that the server fails.
LEMMA AwaitArrivals ==
  ASSUME IInv, UNCHANGED <<user, backlog, newClient, pc, mapped, target>>, mpc' = "await",
         \A d \in Clients : toServer'[d] \in {toServer[d], <<>>},
         \A d \in Clients \ {newClient} : toClient'[d] = toClient[d],
         UNCHANGED toClient \/ mpc = "refuse" \/ (mpc = "greet" /\ wsa)
  PROVE  Arrivals' /\ Borrowed'
<1>1. \A i \in 1..Len(backlog) : backlog[i] \in Clients
  BY ElementOfSeq DEF IInv, Shape
<1> DEFINE Calm == \A d \in Clients :
        user[d] = "absent" => pc'[d] = "none" /\ toServer'[d] = <<>> /\ toClient'[d] = <<>>
<1>6. ASSUME (\A i \in 1..Len(backlog) : Fresh(backlog[i]))', Calm PROVE Arrivals'
  <2>1. \A i, j \in 1..Len(backlog) : backlog[i] = backlog[j] => i = j
    BY DEF IInv, Arrivals
  <2>2. mpc' \notin {"decide", "start", "refuse", "count", "greet"}
    OBVIOUS
  <2> QED BY <1>6, <2>1, <2>2 DEF Arrivals
<1>2. ASSUME UNCHANGED toClient PROVE Arrivals'
  <2>1. (\A i \in 1..Len(backlog) : Fresh(backlog[i]))'
    BY <1>1, <1>2 DEF IInv, Arrivals, Fresh, Quiet
  <2>2. Calm
    BY <1>2 DEF IInv, Arrivals
  <2> QED BY <1>6, <2>1, <2>2
<1>3. ASSUME mpc = "refuse" \/ (mpc = "greet" /\ wsa) PROVE Arrivals'
  <2>1. newClient \in Clients /\ user[newClient] # "absent"
    BY <1>3 DEF IInv, Shape, Arrivals, Fresh, Quiet
  <2>2. \A i \in 1..Len(backlog) : backlog[i] \in Clients \ {newClient}
    BY <1>1, <1>3 DEF IInv, Arrivals, Fresh
  <2>3. (\A i \in 1..Len(backlog) : Fresh(backlog[i]))'
    BY <2>2 DEF IInv, Arrivals, Fresh, Quiet
  <2>4. Calm
    BY <2>1 DEF IInv, Arrivals
  <2> QED BY <1>6, <2>3, <2>4
<1>4. Arrivals'
  BY <1>2, <1>3
<1>5. Borrowed'
  BY LentSame DEF IInv, Borrowed, Met
<1> QED BY <1>4, <1>5

\* Such a step neither counts nor starts a thread.
LEMMA LoopRests ==
  ASSUME IInv, UNCHANGED <<connected, pc>>, wsa' => wsa,
         mpc # "count", mpc' = "await"
  PROVE  Counted'
<1>1. Served' = Served
  BY DEF Served
<1> QED BY <1>1 DEF IInv, Counted, CounterExact, Uncounted

\* The accept loop admits a fresh client, below the limit.
LEMMA LoopSteps ==
  ASSUME IInv, AcceptLoop
  PROVE  IInv'
<1> USE DEF netVars, mainVars, threadVars, tableVars, heapVars, clientVars, Main
<1>1. ASSUME Accept
      PROVE  IInv'
  <2> DEFINE n == Head(backlog)
  <2>1. /\ backlog # <<>> /\ backlog \in Seq(Clients)
        /\ n \in Clients /\ n = backlog[1] /\ Len(backlog) \in Nat \ {0}
        /\ backlog' \in Seq(Clients) /\ Len(backlog') = Len(backlog) - 1
        /\ \A i \in 1..Len(backlog') : backlog'[i] = backlog[i + 1]
    BY <1>1, HeadTailProperties, LenProperties, EmptySeq DEF Accept, IInv, Shape
  <2>2. /\ newClient' = n /\ mpc' = "decide" /\ mpc = "await"
        /\ obj' = [obj EXCEPT ![n] = "live"]
        /\ UNCHANGED <<user, toServer, toClient, pc, connected, wsa, misuse, mapped, target>>
    BY <1>1 DEF Accept
  <2> HIDE DEF n
  <2>3. Shape'
    BY <2>1, <2>2 DEF IInv, Shape
  <2>4. \A d \in Clients : Fresh(d) <=> Fresh(d)'
    BY <2>2 DEF Fresh, Quiet
  <2>5. \A i \in 1..Len(backlog) : Fresh(backlog[i]) /\ backlog[i] \in Clients
    BY <2>1, ElementOfSeq DEF IInv, Arrivals
  <2>6. ASSUME NEW i \in 1..Len(backlog') PROVE Fresh(backlog[i])' /\ backlog'[i] # n
    <3>1. i + 1 \in 1..Len(backlog) /\ backlog'[i] = backlog[i + 1] /\ 1 \in 1..Len(backlog)
      BY <2>1
    <3>2. Fresh(backlog[i + 1])
      BY <2>5, <3>1
    <3>3. Fresh(backlog[i])'
      BY <2>2, <3>1, <3>2 DEF Fresh, Quiet
    <3>4. backlog[i + 1] # backlog[1]
      BY <3>1 DEF IInv, Arrivals
    <3> QED BY <2>1, <3>1, <3>3, <3>4
  <2>7. \A i, j \in 1..Len(backlog') : backlog'[i] = backlog'[j] => i = j
    <3> SUFFICES ASSUME NEW i \in 1..Len(backlog'), NEW j \in 1..Len(backlog'),
                        backlog'[i] = backlog'[j]
                 PROVE  i = j
      OBVIOUS
    <3>1. i + 1 \in 1..Len(backlog) /\ j + 1 \in 1..Len(backlog)
      BY <2>1
    <3>2. backlog[i + 1] = backlog[j + 1]
      BY <2>1
    <3>3. i + 1 = j + 1
      BY <3>1, <3>2 DEF IInv, Arrivals
    <3> QED BY <3>3
  <2>8. Fresh(newClient)' /\ obj'[newClient'] = "live"
    <3>1. Fresh(n)
      BY <2>1, <2>5
    <3> QED BY <2>1, <2>2, <3>1 DEF Fresh, Quiet, IInv, Shape
  <2>9. \A d \in Clients :
          user'[d] = "absent" => pc'[d] = "none" /\ toServer'[d] = <<>> /\ toClient'[d] = <<>>
    BY <2>2 DEF IInv, Arrivals
  <2>10. Arrivals'
    <3>1. (\A i \in 1..Len(backlog) : Fresh(backlog[i]))'
      BY <2>6
    <3>2. \A i \in 1..Len(backlog') : backlog'[i] # newClient'
      BY <2>2, <2>6
    <3> QED BY <2>2, <2>7, <2>8, <2>9, <3>1, <3>2 DEF Arrivals
  <2>11. Objects'
    BY <2>1, <2>2 DEF IInv, Shape, Objects, MisuseBorrowedOrAfterFailure
  <2>12. Served' = Served
    BY <2>2 DEF Served
  <2>13. Counted'
    BY <2>2, <2>12 DEF IInv, Counted, CounterExact, Uncounted
  <2>14. Borrowed'
    BY <2>2, LentSame DEF IInv, Borrowed, Met
  <2> QED BY <2>3, <2>10, <2>11, <2>13, <2>14 DEF IInv
<1>2. ASSUME Decide
      PROVE  IInv'
  <2>1. Shape' /\ Objects'
    BY <1>2 DEF Decide, IInv, Shape, Objects, MisuseBorrowedOrAfterFailure
  <2>2. Arrivals' /\ Borrowed'
    BY <1>2, LoopArrivals DEF Decide
  <2>3. Served' = Served
    BY <1>2 DEF Decide, Served
  <2>4. Counted'
    BY <1>2, <2>3, ConnectionsAssumption
    DEF Decide, IInv, Shape, Counted, CounterExact, Uncounted
  <2> QED BY <2>1, <2>2, <2>4 DEF IInv
<1>3. ASSUME StartThread
      PROVE  IInv'
  <2>1. /\ mpc = "start" /\ mpc' = "count"
        /\ pc' = [pc EXCEPT ![newClient] = "command"]
        /\ UNCHANGED <<user, toServer, toClient, backlog, newClient, connected, obj, wsa, misuse,
                       mapped, target>>
    BY <1>3 DEF StartThread
  <2>2. /\ newClient \in Clients /\ Fresh(newClient) /\ obj[newClient] = "live"
        /\ \A i \in 1..Len(backlog) : backlog[i] # newClient /\ backlog[i] \in Clients
    BY <2>1, ElementOfSeq DEF IInv, Shape, Arrivals
  <2>3. Shape'
    BY <2>1, <2>2 DEF IInv, Shape
  <2>4. (\A i \in 1..Len(backlog) : Fresh(backlog[i]))'
    BY <2>1, <2>2 DEF IInv, Shape, Arrivals, Fresh, Quiet
  <2>5. pc'[newClient'] = "command" /\ Quiet(newClient)' /\ obj'[newClient'] = "live"
    BY <2>1, <2>2 DEF IInv, Shape, Fresh, Quiet
  <2>6. \A d \in Clients :
          user'[d] = "absent" => pc'[d] = "none" /\ toServer'[d] = <<>> /\ toClient'[d] = <<>>
    BY <2>1, <2>2 DEF IInv, Shape, Arrivals, Fresh, Quiet
  <2>7. Arrivals'
    BY <2>1, <2>4, <2>5, <2>6 DEF IInv, Arrivals
  <2>8. Objects'
    BY <2>1, <2>2 DEF IInv, Shape, Objects, MisuseBorrowedOrAfterFailure
  <2>9. Cardinality(Served') = Cardinality(Served) + 1
    BY <2>1, <2>2, ServedGains DEF IInv, Fresh
  <2>10. Counted'
    BY <2>1, <2>9, ServedFinite, ConnectionsAssumption
    DEF IInv, Shape, Counted, CounterExact, Uncounted
  <2>11. Borrowed'
    <3>1. Lent' = Lent /\ newClient \notin Lent
      BY <2>1, <2>2, LentSame DEF IInv, Borrowed, Met, Fresh
    <3>2. \A d \in Lent : d \in Clients /\ pc[d] # "none"
      BY DEF Lent, IInv, Borrowed, Met
    <3> QED BY <2>1, <3>1, <3>2 DEF Borrowed, Met, IInv, Shape
  <2> QED BY <2>3, <2>7, <2>8, <2>10, <2>11 DEF IInv
<1>4. ASSUME Count
      PROVE  IInv'
  <2>1. Shape' /\ Objects'
    BY <1>4 DEF Count, IInv, Shape, Objects, MisuseBorrowedOrAfterFailure
  <2>2. Arrivals' /\ Borrowed'
    BY <1>4, LoopArrivals DEF Count
  <2>3. Served' = Served
    BY <1>4 DEF Count, Served
  <2>4. Counted'
    BY <1>4, <2>3, ServedFinite, ConnectionsAssumption
    DEF Count, IInv, Shape, Counted, CounterExact, Uncounted
  <2> QED BY <2>1, <2>2, <2>4 DEF IInv
<1>5. ASSUME Greet
      PROVE  IInv'
  <2>1. /\ mpc = "greet" /\ mpc' = "await"
        /\ UNCHANGED <<user, backlog, newClient, connected, pc, mapped, target>>
    BY <1>5 DEF Greet
  <2>2. newClient \in Clients /\ Served' = Served
    BY <2>1 DEF IInv, Shape, Served
  <2>3. CASE obj[newClient] = "freed" /\ UNCHANGED <<toServer, toClient, obj, wsa>>
    <3>1. ~wsa
      BY <2>1, <2>3 DEF IInv, Arrivals
    <3> QED BY <2>1, <2>2, <2>3, <3>1, LoopRests, AwaitArrivals
        DEF IInv, Shape, Objects, MisuseBorrowedOrAfterFailure
  <2>4. CASE wsa /\ Deliver(newClient, "welcome") /\ UNCHANGED <<toServer, heapVars>>
    <3>1. /\ DOMAIN toClient' = Clients
          /\ \A d \in Clients \ {newClient} : toClient'[d] = toClient[d]
      BY <2>2, <2>4 DEF Deliver, IInv, Shape
    <3>2. Objects'
      BY <2>1, <2>4 DEF IInv, Objects, MisuseBorrowedOrAfterFailure
    <3> QED BY <2>1, <2>4, <3>1, <3>2, LoopRests, AwaitArrivals DEF IInv, Shape
  <2>5. CASE Collapse(newClient) /\ UNCHANGED toClient
    <3>1. /\ ~wsa' /\ obj' = [obj EXCEPT ![newClient] = "freed"]
          /\ toServer' = [d \in Clients |-> <<>>]
      BY <2>5 DEF Collapse, ServerFails
    <3>2. Objects' /\ obj' \in [Clients -> {"none", "live", "freed"}]
      BY <3>1 DEF IInv, Shape, Objects, MisuseBorrowedOrAfterFailure
    <3> QED BY <2>1, <2>5, <3>1, <3>2, LoopRests, AwaitArrivals DEF IInv, Shape
  <2> QED BY <1>5, <2>3, <2>4, <2>5 DEF Greet
<1>6. ASSUME Refuse
      PROVE  IInv'
  <2>1. /\ mpc = "refuse" /\ mpc' = "await"
        /\ UNCHANGED <<user, backlog, newClient, connected, pc, mapped, target>>
        /\ obj' = [obj EXCEPT ![newClient] = "freed"]
        /\ UNCHANGED toServer \/ toServer' = [d \in Clients |-> <<>>]
    BY <1>6 DEF Refuse, ServerFails
  <2>2. newClient \in Clients /\ pc[newClient] = "none"
    BY <2>1 DEF IInv, Shape, Arrivals, Fresh
  <2>3. /\ DOMAIN toClient' = Clients
        /\ \A d \in Clients \ {newClient} : toClient'[d] = toClient[d]
    BY <1>6 DEF Refuse, Deliver, IInv, Shape
  <2>4. ~wsa' \/ (wsa /\ UNCHANGED <<wsa, misuse>>)
    BY <1>6 DEF Refuse, ServerFails
  <2>5. Objects'
    BY <2>1, <2>2, <2>4 DEF IInv, Shape, Objects, MisuseBorrowedOrAfterFailure
  <2> QED BY <2>1, <2>2, <2>3, <2>4, <2>5, LoopRests, AwaitArrivals DEF IInv, Shape
<1>7. ASSUME Cleanup
      PROVE  IInv'
  <2>1. /\ mpc' = "exited" /\ ~wsa' /\ backlog' = <<>> /\ connected' = 0
        /\ toServer' = [c \in Clients |-> <<>>]
        /\ obj' = [c \in Clients |-> "none"] /\ pc' = [c \in Clients |-> "none"]
        /\ target' = [c \in Clients |-> {}] /\ mapped' = {}
        /\ UNCHANGED <<user, toClient, newClient>>
    BY <1>7 DEF Cleanup, ServerFails
  <2>2. Shape'
    BY <2>1, EmptySeq DEF IInv, Shape
  <2>3. Arrivals'
    BY <2>1 DEF IInv, Arrivals
  <2>4. Borrowed'
    BY <2>1 DEF Borrowed, Lent
  <2>5. Objects'
    BY <2>1 DEF Objects, MisuseBorrowedOrAfterFailure
  <2>6. Served' = {}
    BY <2>1 DEF Served
  <2>7. Cardinality(Served') = 0
    BY <2>6, FS_EmptySet
  <2>8. Counted'
    BY <2>1, <2>7, ConnectionsAssumption DEF Counted, CounterExact, Uncounted
  <2> QED BY <2>2, <2>3, <2>4, <2>5, <2>8 DEF IInv
<1> QED BY <1>1, <1>2, <1>3, <1>4, <1>5, <1>6, <1>7 DEF AcceptLoop

---------------------------------------------------------------------------
(* The theorems.                                                            *)

\* The invariant is inductive.
THEOREM Inductive == Spec => []IInv
<1>1. Init => IInv
  BY InitInvariant
<1>2. IInv /\ [Next]_vars => IInv'
  <2> SUFFICES ASSUME IInv, [Next]_vars PROVE IInv'
    OBVIOUS
  <2>1. CASE UNCHANGED vars
    <3>1. Served' = Served
      BY <2>1 DEF vars, threadVars, Served
    <3>6. Borrowed'
      BY <2>1, LentSame DEF vars, mainVars, threadVars, tableVars, heapVars, IInv, Borrowed, Met
    <3>2. Counted'
      BY <2>1, <3>1 DEF vars, heapVars, mainVars, IInv, Counted, CounterExact, Uncounted
    <3>3. Objects'
      BY <2>1 DEF vars, heapVars, threadVars, IInv, Objects, MisuseBorrowedOrAfterFailure
    <3>4. Shape'
      BY <2>1 DEF vars, clientVars, netVars, mainVars, threadVars, tableVars, heapVars, IInv, Shape
    <3>5. Arrivals'
      BY <2>1
      DEF vars, clientVars, netVars, mainVars, threadVars, heapVars, IInv, Arrivals, Fresh, Quiet
    <3> QED BY <3>2, <3>3, <3>4, <3>5, <3>6 DEF IInv
  <2>2. CASE Next
    BY <2>2, ClientSteps, ThreadSteps, LoopSteps DEF Next
  <2> QED BY <2>1, <2>2
<1> QED BY <1>1, <1>2, PTL DEF Spec

\* No more clients are served than the server's argument allows (LimitRespected).
THEOREM LimitHolds == Spec => []LimitRespected
<1>1. IInv => LimitRespected
  BY ServedFinite, ConnectionsAssumption DEF IInv, Shape, Counted, Uncounted, LimitRespected
<1> QED BY <1>1, Inductive, PTL

\* Until a call fails the counter is the number of served clients (CounterExact).
THEOREM CounterCounts == Spec => []CounterExact
<1>1. IInv => CounterExact
  BY DEF IInv, Counted
<1> QED BY <1>1, Inductive, PTL

\* Until a call fails the only freed objects used are those of other clients that a msg
\* or broadcast has borrowed (MisuseBorrowedOrAfterFailure): no thread uses its own freed
\* client, and the accept loop greets none that has been freed.
THEOREM EarlyMisuseBorrowed == Spec => []MisuseBorrowedOrAfterFailure
<1>1. IInv => MisuseBorrowedOrAfterFailure
  BY DEF IInv, Objects
<1> QED BY <1>1, Inductive, PTL

---------------------------------------------------------------------------
(* Types: the commands and their texts keep in step.                        *)

Commands == {"echo", "register", "login", "logout", "list", "msg", "broadcast", "history",
             "exit", "exitLoggedIn", "other"}

Calls == {"recv", "send", "insert", "remove", "lookup", "forward"}

\* What is left of a handler's calls; a lookup is never the last one.
CallLists ==
  {calls \in Seq(Calls) : \A i \in 1..Len(calls) : calls[i] = "lookup" => i < Len(calls)}

\* They receive n texts first, and none later.
Leads(calls, n) ==
  n \in 0..Len(calls) /\ \A i \in 1..Len(calls) : calls[i] = "recv" <=> i <= n

\* On the way are the n texts that a handler has still to receive, and then whole
\* commands, each one with its texts; need[i] counts the texts expected behind item i.
InFrames(q, n) ==
  \E need \in [0..Len(q) -> Nat] :
    /\ need[0] = n /\ need[Len(q)] = 0
    /\ \A i \in 1..Len(q) :
         IF need[i - 1] > 0 THEN q[i] = "text" /\ need[i] = need[i - 1] - 1
         ELSE q[i] \in Commands /\ need[i] = Len(Texts[q[i]])

InStep ==
  wsa => \A c \in Clients \ skipped :
           /\ pc[c] \in {"none", "command"} => InFrames(toServer[c], 0)
           /\ pc[c] = "run" => \E n \in Nat : Leads(todo[c], n) /\ InFrames(toServer[c], n)

\* The accept loop counts a thread that has not run a command yet, and the counter
\* covers the others.
Started ==
  /\ connected >= 0
  /\ mpc = "count" =>
       pc[newClient] \in {"command", "ended"} /\ Cardinality(Served \ {newClient}) <= connected

Typing ==
  /\ reader \in [Clients -> {"recv", "check", "ended"}]
  /\ open \in [Clients -> BOOLEAN]
  /\ budget \in [Clients -> 0..MaxTyped]
  /\ toServer \in [Clients -> Seq(Commands \cup {"text"})]
  /\ toClient \in [Clients -> Seq({"welcome", "full", "reply"})]
  /\ mpc \in {"await", "decide", "start", "count", "greet", "refuse", "exited"}
  /\ todo \in [Clients -> CallLists]
  /\ exitted \in [Clients -> BOOLEAN]
  /\ server \in {"live", "freed"} /\ wsa \in BOOLEAN
  /\ misuse \subseteq {"client", "server", "borrowed"}
  /\ skipped \subseteq Clients
  /\ faults \in 0..MaxFaults

\* The commands are the ones that have a handler.
LEMMA CommandsHandled == DOMAIN Handler = Commands /\ DOMAIN Texts = Commands
BY DEF Handler, Texts, Commands

\* A command has at most three texts.
LEMMA CommandTexts ==
  ASSUME NEW k \in Commands
  PROVE  Texts[k] \in {<<>>, <<"text">>, <<"text", "text">>, <<"text", "text", "text">>}
BY DEF Commands, Texts

\* Sends may follow a series that looks nothing up any more.
LEMMA SendsFollow ==
  ASSUME NEW first \in CallLists, NEW n \in Nat, Leads(first, n), NEW kept \in Sends
  PROVE  first \o kept \in CallLists /\ Leads(first \o kept, n)
<1>1. PICK m \in 0..MaxFound : kept = [i \in 1..m |-> "send"]
  BY DEF Sends
<1>2. m \in Nat
  BY ConnectionsAssumption
<1>3. kept \in Seq(Calls) /\ Len(kept) = m /\ \A i \in 1..m : kept[i] = "send"
  BY <1>1, <1>2 DEF Calls
<1>4. first \in Seq(Calls) /\ Len(first) \in Nat
  BY LenProperties DEF CallLists
<1>5. /\ first \o kept \in Seq(Calls) /\ Len(first \o kept) = Len(first) + m
      /\ \A i \in 1..(Len(first) + m) :
           (first \o kept)[i] = IF i <= Len(first) THEN first[i] ELSE kept[i - Len(first)]
  BY <1>3, <1>4, ConcatProperties
<1>6. \A i \in 1..(Len(first) + m) :
        (first \o kept)[i] = IF i <= Len(first) THEN first[i] ELSE "send"
  BY <1>2, <1>3, <1>4, <1>5
<1>7. first \o kept \in CallLists
  <2>1. \A i \in 1..Len(first) : first[i] = "lookup" => i < Len(first)
    BY DEF CallLists
  <2>2. \A i \in 1..Len(first \o kept) :
          (first \o kept)[i] = "lookup" => i < Len(first \o kept)
    BY <1>2, <1>4, <1>5, <1>6, <2>1
  <2> QED BY <1>5, <2>2 DEF CallLists
<1>8. Leads(first \o kept, n)
  BY <1>2, <1>4, <1>5, <1>6 DEF Leads
<1> QED BY <1>7, <1>8

\* A broadcast looks the others up after it has received.
LEMMA BroadcastCalls ==
  ASSUME NEW calls \in ProcessBroadcast
  PROVE  calls \in CallLists /\ Leads(calls, 2)
<1>1. CASE calls = Recv(2)
  BY <1>1 DEF Recv, CallLists, Calls, Leads
<1>2. CASE calls # Recv(2)
  <2> DEFINE others(m) == [i \in 1..(2 * m) |-> IF i % 2 = 1 THEN "lookup" ELSE "forward"]
  <2>1. PICK m \in 0..MaxFound : calls = Recv(2) \o others(m) \o <<"send">>
    BY <1>2 DEF ProcessBroadcast
  <2>2. m \in Nat /\ 2 * m \in Nat
    BY ConnectionsAssumption
  <2>3. /\ others(m) \in Seq(Calls) /\ Len(others(m)) = 2 * m
        /\ \A i \in 1..(2 * m) : others(m)[i] = IF i % 2 = 1 THEN "lookup" ELSE "forward"
    BY <2>2 DEF Calls
  <2>4. /\ Recv(2) \in Seq(Calls) /\ Len(Recv(2)) = 2 /\ \A i \in 1..2 : Recv(2)[i] = "recv"
        /\ <<"send">> \in Seq(Calls) /\ Len(<<"send">>) = 1 /\ <<"send">>[1] = "send"
    BY DEF Recv, Calls
  <2> HIDE DEF others
  <2>5. PICK front : front = Recv(2) \o others(m)
    OBVIOUS
  <2>6. /\ front \in Seq(Calls) /\ Len(front) = 2 + 2 * m
        /\ \A i \in 1..(2 + 2 * m) : front[i] = IF i <= 2 THEN Recv(2)[i] ELSE others(m)[i - 2]
    <3>1. PICK looks : looks = others(m)
      OBVIOUS
    <3>2. looks \in Seq(Calls) /\ Len(looks) = 2 * m
      BY <2>3, <3>1
    <3>3. PICK texts : texts = Recv(2)
      OBVIOUS
    <3>4. texts \in Seq(Calls) /\ Len(texts) = 2
      BY <2>4, <3>3
    <3>5. /\ texts \o looks \in Seq(Calls) /\ Len(texts \o looks) = 2 + 2 * m
          /\ \A i \in 1..(2 + 2 * m) :
               (texts \o looks)[i] = IF i <= 2 THEN texts[i] ELSE looks[i - 2]
      <4>1. /\ texts \o looks \in Seq(Calls) /\ Len(texts \o looks) = Len(texts) + Len(looks)
            /\ \A i \in 1..(Len(texts) + Len(looks)) :
                 (texts \o looks)[i] = IF i <= Len(texts) THEN texts[i] ELSE looks[i - Len(texts)]
        BY <3>2, <3>4, ConcatProperties
      <4> QED BY <2>2, <3>2, <3>4, <4>1
    <3> QED BY <2>5, <3>1, <3>3, <3>5
  <2>7. /\ calls \in Seq(Calls) /\ Len(calls) = 3 + 2 * m
        /\ \A i \in 1..(3 + 2 * m) :
             calls[i] = IF i <= 2 + 2 * m THEN front[i] ELSE <<"send">>[i - (2 + 2 * m)]
    BY <2>1, <2>2, <2>4, <2>5, <2>6, ConcatProperties
  <2>8. \A i \in 1..2 : calls[i] = "recv"
    BY <2>2, <2>4, <2>6, <2>7
  <2>9. \A i \in 3..(2 + 2 * m) : calls[i] \in {"lookup", "forward"}
    <3> SUFFICES ASSUME NEW i \in 3..(2 + 2 * m) PROVE calls[i] \in {"lookup", "forward"}
      OBVIOUS
    <3>1. i \in 1..(3 + 2 * m) /\ i \in 1..(2 + 2 * m) /\ i - 2 \in 1..(2 * m) /\ ~ (i <= 2)
          /\ i <= 2 + 2 * m
      BY <2>2
    <3>2. calls[i] = others(m)[i - 2]
      BY <2>6, <2>7, <3>1
    <3> QED BY <2>3, <3>1, <3>2
  <2>10. calls[3 + 2 * m] = "send"
    BY <2>2, <2>4, <2>7
  <2>11. \A i \in 1..(3 + 2 * m) : i \in 1..2 \/ i \in 3..(2 + 2 * m) \/ i = 3 + 2 * m
    BY <2>2
  <2> QED BY <2>2, <2>7, <2>8, <2>9, <2>10, <2>11 DEF CallLists, Leads
<1> QED BY <1>1, <1>2

\* The series of a fixed length.
LEMMA FixedCalls ==
  /\ <<"send">> \in CallLists /\ Leads(<<"send">>, 0)
  /\ <<"recv", "send">> \in CallLists /\ Leads(<<"recv", "send">>, 1)
  /\ <<"recv", "remove", "send">> \in CallLists /\ Leads(<<"recv", "remove", "send">>, 1)
  /\ <<"recv", "recv", "send">> \in CallLists /\ Leads(<<"recv", "recv", "send">>, 2)
  /\ <<"recv", "recv", "recv", "send">> \in CallLists
  /\ Leads(<<"recv", "recv", "recv", "send">>, 3)
  /\ <<"recv", "recv", "recv", "lookup", "forward", "send">> \in CallLists
  /\ Leads(<<"recv", "recv", "recv", "lookup", "forward", "send">>, 3)
  /\ Recv(2) \in CallLists /\ Leads(Recv(2), 2)
  /\ Recv(3) \in CallLists /\ Leads(Recv(3), 3)
<1> USE DEF CallLists, Calls, Leads, Recv
<1>1. <<"send">> \in CallLists /\ Leads(<<"send">>, 0)
  OBVIOUS
<1>2. <<"recv", "send">> \in CallLists /\ Leads(<<"recv", "send">>, 1)
  OBVIOUS
<1>3. <<"recv", "remove", "send">> \in CallLists /\ Leads(<<"recv", "remove", "send">>, 1)
  OBVIOUS
<1>4. <<"recv", "recv", "send">> \in CallLists /\ Leads(<<"recv", "recv", "send">>, 2)
  OBVIOUS
<1>5. /\ <<"recv", "recv", "recv", "send">> \in CallLists
      /\ Leads(<<"recv", "recv", "recv", "send">>, 3)
  OBVIOUS
<1>6. /\ <<"recv", "recv", "recv", "lookup", "forward", "send">> \in CallLists
      /\ Leads(<<"recv", "recv", "recv", "lookup", "forward", "send">>, 3)
  OBVIOUS
<1>7. Recv(2) \in CallLists /\ Leads(Recv(2), 2)
  OBVIOUS
<1>8. Recv(3) \in CallLists /\ Leads(Recv(3), 3)
  OBVIOUS
<1> QED BY <1>1, <1>2, <1>3, <1>4, <1>5, <1>6, <1>7, <1>8

\* A handler receives the texts of its command, no more and no less, and does so first.
LEMMA CommandCalls ==
  ASSUME NEW k \in Commands, NEW calls \in Handler[k]
  PROVE  calls \in CallLists /\ Leads(calls, Len(Texts[k]))
<1>0. \A kept \in Sends : kept \in CallLists /\ Leads(kept, 0)
  <2>1. <<>> \in CallLists /\ Leads(<<>>, 0)
    BY EmptySeq DEF CallLists, Leads
  <2>2. \A kept \in Sends : <<>> \o kept = kept
    BY ConnectionsAssumption, ConcatEmptySeq DEF Sends
  <2> QED BY <2>1, <2>2, SendsFollow
<1>1. CASE k = "echo"
  <2>1. Len(Texts[k]) = 1 /\ calls \in ProcessEcho
    BY <1>1 DEF Handler, Texts
  <2> QED BY <2>1, FixedCalls DEF ProcessEcho
<1>2. CASE k = "register"
  <2>1. Len(Texts[k]) = 2 /\ calls \in RegisterClient
    BY <1>2 DEF Handler, Texts
  <2> QED BY <2>1, FixedCalls DEF RegisterClient
<1>3. CASE k = "login"
  <2>1. Len(Texts[k]) = 2 /\ calls \in LoginClient
    BY <1>3 DEF Handler, Texts
  <2>2. CASE calls = <<"recv", "recv", "send">>
    BY <2>1, <2>2, FixedCalls
  <2>3. ASSUME NEW kept \in Sends, calls = <<"recv", "recv", "insert", "send">> \o kept
        PROVE  calls \in CallLists /\ Leads(calls, Len(Texts[k]))
    <3>1. <<"recv", "recv", "insert", "send">> \in CallLists
          /\ Leads(<<"recv", "recv", "insert", "send">>, 2)
      BY DEF CallLists, Calls, Leads
    <3> QED BY <2>1, <2>3, <3>1, SendsFollow
  <2> QED BY <2>1, <2>2, <2>3 DEF LoginClient
<1>4. CASE k = "logout"
  <2>1. Len(Texts[k]) = 1 /\ calls \in LogoutClient
    BY <1>4 DEF Handler, Texts
  <2> QED BY <2>1, FixedCalls DEF LogoutClient
<1>5. CASE k = "list"
  BY <1>0, <1>5 DEF Handler, ListClients, Texts
<1>6. CASE k = "msg"
  <2>1. Len(Texts[k]) = 3 /\ calls \in ProcessMsg
    BY <1>6 DEF Handler, Texts
  <2> QED BY <2>1, FixedCalls DEF ProcessMsg
<1>7. CASE k = "broadcast"
  <2>1. Len(Texts[k]) = 2 /\ calls \in ProcessBroadcast
    BY <1>7 DEF Handler, Texts
  <2> QED BY <2>1, BroadcastCalls
<1>8. CASE k = "history"
  <2>1. Len(Texts[k]) = 3 /\ calls \in ProcessHistory
    BY <1>8 DEF Handler, Texts
  <2>2. PICK answer \in Sends : calls = Recv(3) \o answer
    BY <2>1 DEF ProcessHistory
  <2> QED BY <2>1, <2>2, FixedCalls, SendsFollow
<1>9. CASE k = "exit"
  <2>1. Len(Texts[k]) = 0 /\ calls \in SendExitToClient
    BY <1>9 DEF Handler, Texts
  <2> QED BY <2>1, FixedCalls DEF SendExitToClient
<1>10. CASE k = "exitLoggedIn"
  <2>1. Len(Texts[k]) = 1 /\ calls \in SendExitLoggedIn
    BY <1>10 DEF Handler, Texts
  <2> QED BY <2>1, FixedCalls DEF SendExitLoggedIn
<1>11. CASE k = "other"
  BY <1>11, EmptySeq DEF Handler, Texts, CallLists, Calls, Leads
<1> QED BY <1>1, <1>2, <1>3, <1>4, <1>5, <1>6, <1>7, <1>8, <1>9, <1>10, <1>11 DEF Commands

\* A call that is made leaves the others, and one text less if it receives.
LEMMA CallMade ==
  ASSUME NEW calls \in CallLists, calls # <<>>
  PROVE  /\ Tail(calls) \in CallLists
         /\ Head(calls) = "lookup" => Tail(Tail(calls)) \in CallLists
         /\ \A n \in Nat : Leads(calls, n) =>
              IF Head(calls) = "recv" THEN n > 0 /\ Leads(Tail(calls), n - 1)
              ELSE /\ n = 0 /\ Leads(Tail(calls), 0)
                   /\ Head(calls) = "lookup" => Leads(Tail(Tail(calls)), 0)
<1>1. /\ calls \in Seq(Calls) /\ Len(calls) \in Nat /\ Len(calls) > 0 /\ Head(calls) = calls[1]
      /\ Tail(calls) \in Seq(Calls) /\ Len(Tail(calls)) = Len(calls) - 1
      /\ \A i \in 1..(Len(calls) - 1) : Tail(calls)[i] = calls[i + 1]
  BY HeadTailProperties, EmptySeq, LenProperties DEF CallLists
<1>2. \A i \in 1..(Len(calls) - 1) : i + 1 \in 1..Len(calls)
  BY <1>1
<1>0. \A i \in 1..Len(calls) : calls[i] = "lookup" => i < Len(calls)
  BY DEF CallLists
<1>3. Tail(calls) \in CallLists
  <2>1. \A i \in 1..Len(Tail(calls)) : Tail(calls)[i] = "lookup" => i < Len(Tail(calls))
    BY <1>0, <1>1, <1>2
  <2> QED BY <1>1, <2>1 DEF CallLists
<1>4. ASSUME Head(calls) = "lookup"
      PROVE  /\ Tail(Tail(calls)) \in Seq(Calls) /\ Len(Tail(Tail(calls))) = Len(calls) - 2
             /\ \A i \in 1..(Len(calls) - 2) : Tail(Tail(calls))[i] = calls[i + 2]
  <2>1. 1 \in 1..Len(calls)
    BY <1>1
  <2>2. 1 < Len(calls)
    BY <1>1, <1>4, <2>1 DEF CallLists
  <2>3. Tail(calls) # <<>>
    <3>1. Len(Tail(calls)) > 0
      BY <1>1, <2>2
    <3> QED BY <3>1, EmptySeq
  <2>4. /\ Tail(Tail(calls)) \in Seq(Calls) /\ Len(Tail(Tail(calls))) = Len(Tail(calls)) - 1
        /\ \A i \in 1..(Len(Tail(calls)) - 1) : Tail(Tail(calls))[i] = Tail(calls)[i + 1]
    BY <1>1, <2>3, HeadTailProperties
  <2>5. \A i \in 1..(Len(calls) - 2) : i + 1 \in 1..(Len(calls) - 1) /\ (i + 1) + 1 = i + 2
    BY <1>1
  <2> QED BY <1>1, <2>4, <2>5
<1>5. Head(calls) = "lookup" => Tail(Tail(calls)) \in CallLists
  <2>1. \A i \in 1..(Len(calls) - 2) : i + 2 \in 1..Len(calls)
    BY <1>1
  <2> SUFFICES ASSUME Head(calls) = "lookup" PROVE Tail(Tail(calls)) \in CallLists
    OBVIOUS
  <2> DEFINE rest == Tail(Tail(calls))
  <2>2. /\ rest \in Seq(Calls) /\ Len(rest) = Len(calls) - 2
        /\ \A i \in 1..(Len(calls) - 2) : rest[i] = calls[i + 2]
    BY <1>4
  <2> HIDE DEF rest
  <2>3. \A i \in 1..Len(rest) : rest[i] = "lookup" => i < Len(rest)
    BY <1>0, <1>1, <2>1, <2>2
  <2>4. rest \in CallLists
    BY <2>2, <2>3 DEF CallLists
  <2> QED BY <2>4 DEF rest
<1>6. ASSUME NEW n \in Nat, Leads(calls, n)
      PROVE  IF Head(calls) = "recv" THEN n > 0 /\ Leads(Tail(calls), n - 1)
             ELSE /\ n = 0 /\ Leads(Tail(calls), 0)
                  /\ Head(calls) = "lookup" => Leads(Tail(Tail(calls)), 0)
  <2>1. n <= Len(calls) /\ \A i \in 1..Len(calls) : calls[i] = "recv" <=> i <= n
    BY <1>6 DEF Leads
  <2>2. 1 \in 1..Len(calls)
    BY <1>1
  <2>3. CASE calls[1] = "recv"
    <3>1. n > 0 /\ n - 1 \in 0..(Len(calls) - 1)
      BY <1>1, <2>1, <2>2, <2>3
    <3>2. \A i \in 1..(Len(calls) - 1) : Tail(calls)[i] = "recv" <=> i <= n - 1
      BY <1>1, <1>2, <2>1
    <3> QED BY <1>1, <2>3, <3>1, <3>2 DEF Leads
  <2>4. CASE calls[1] # "recv"
    <3>1. n = 0 /\ \A i \in 1..Len(calls) : calls[i] # "recv"
      BY <1>1, <2>1, <2>2, <2>4
    <3>2. Leads(Tail(calls), 0)
      BY <1>1, <1>2, <3>1 DEF Leads
    <3>3. Head(calls) = "lookup" => Leads(Tail(Tail(calls)), 0)
      <4> SUFFICES ASSUME Head(calls) = "lookup" PROVE Leads(Tail(Tail(calls)), 0)
        OBVIOUS
      <4>1. Tail(Tail(calls)) \in Seq(Calls)
        BY <1>4
      <4>2. Len(Tail(Tail(calls))) \in Nat
        BY <4>1, LenProperties
      <4>3. \A i \in 1..(Len(calls) - 2) : i + 2 \in 1..Len(calls) /\ ~ (i <= 0)
        BY <1>1
      <4> QED BY <1>4, <3>1, <4>2, <4>3 DEF Leads
    <3> QED BY <1>1, <2>4, <3>1, <3>2, <3>3
  <2> QED BY <2>3, <2>4
<1> QED BY <1>3, <1>5, <1>6

Items == Commands \cup {"text"}

\* Nothing on the way is in frames.
LEMMA NoFrames == InFrames(<<>>, 0)
<1>1. PICK need : need = [i \in 0..0 |-> 0]
  OBVIOUS
<1> QED BY <1>1 DEF InFrames

\* What is taken off is the text a handler expects, or a command, whose texts are next.
LEMMA FramesTaken ==
  ASSUME NEW q \in Seq(Items), q # <<>>, NEW n \in Nat, InFrames(q, n)
  PROVE  /\ n > 0 => Head(q) = "text" /\ InFrames(Tail(q), n - 1)
         /\ n = 0 => Head(q) \in Commands /\ InFrames(Tail(q), Len(Texts[Head(q)]))
<1>1. PICK need \in [0..Len(q) -> Nat] :
        /\ need[0] = n /\ need[Len(q)] = 0
        /\ \A i \in 1..Len(q) :
             IF need[i - 1] > 0 THEN q[i] = "text" /\ need[i] = need[i - 1] - 1
             ELSE q[i] \in Commands /\ need[i] = Len(Texts[q[i]])
  BY DEF InFrames
<1>2. /\ Len(q) \in Nat /\ Len(q) > 0 /\ Head(q) = q[1]
      /\ Len(Tail(q)) = Len(q) - 1 /\ \A i \in 1..(Len(q) - 1) : Tail(q)[i] = q[i + 1]
  BY HeadTailProperties, EmptySeq, LenProperties
<1>3. PICK rest : rest = [i \in 0..(Len(q) - 1) |-> need[i + 1]]
  OBVIOUS
<1>4. rest \in [0..Len(Tail(q)) -> Nat]
  <2>1. \A i \in 0..(Len(q) - 1) : i + 1 \in 0..Len(q)
    BY <1>2
  <2> QED BY <1>1, <1>2, <1>3, <2>1
<1>5. rest[Len(Tail(q))] = 0
  <2>1. Len(q) - 1 \in 0..(Len(q) - 1) /\ (Len(q) - 1) + 1 = Len(q)
    BY <1>2
  <2> QED BY <1>1, <1>2, <1>3, <2>1
<1>6. ASSUME NEW i \in 1..Len(Tail(q))
      PROVE  IF rest[i - 1] > 0 THEN Tail(q)[i] = "text" /\ rest[i] = rest[i - 1] - 1
             ELSE Tail(q)[i] \in Commands /\ rest[i] = Len(Texts[Tail(q)[i]])
  <2>1. i + 1 \in 1..Len(q) /\ i - 1 \in 0..(Len(q) - 1) /\ i \in 0..(Len(q) - 1)
        /\ (i + 1) - 1 = i /\ (i - 1) + 1 = i
    BY <1>2
  <2>2. rest[i - 1] = need[i] /\ rest[i] = need[i + 1] /\ Tail(q)[i] = q[i + 1]
    BY <1>2, <1>3, <2>1
  <2>3. IF need[i] > 0 THEN q[i + 1] = "text" /\ need[i + 1] = need[i] - 1
        ELSE q[i + 1] \in Commands /\ need[i + 1] = Len(Texts[q[i + 1]])
    BY <1>1, <2>1
  <2> QED BY <2>2, <2>3
<1>7. InFrames(Tail(q), rest[0])
  BY <1>4, <1>5, <1>6 DEF InFrames
<1>8. rest[0] = need[1] /\ 1 \in 1..Len(q)
  BY <1>2, <1>3
<1> QED BY <1>1, <1>2, <1>7, <1>8

\* A command that is sent with its texts comes behind the others.
LEMMA FramesSent ==
  ASSUME NEW q \in Seq(Items), NEW n \in Nat, InFrames(q, n), NEW k \in Commands
  PROVE  /\ <<k>> \o Texts[k] \in Seq(Items)
         /\ InFrames(q \o (<<k>> \o Texts[k]), n)
<1>1. PICK frame : frame = <<k>> \o Texts[k]
  OBVIOUS
<1>2. PICK L \in Nat : L = Len(Texts[k])
  <2>1. Len(Texts[k]) \in Nat
    <3>1. \/ Texts[k] = <<>> \/ Texts[k] = <<"text">> \/ Texts[k] = <<"text", "text">>
          \/ Texts[k] = <<"text", "text", "text">>
      BY CommandTexts
    <3>2. CASE Texts[k] = <<>>
      BY <3>2
    <3>3. CASE Texts[k] = <<"text">>
      BY <3>3
    <3>4. CASE Texts[k] = <<"text", "text">>
      BY <3>4
    <3>5. CASE Texts[k] = <<"text", "text", "text">>
      BY <3>5
    <3> QED BY <3>1, <3>2, <3>3, <3>4, <3>5
  <2> QED BY <2>1
<1>3. /\ frame \in Seq(Items) /\ Len(frame) = 1 + L /\ frame[1] = k
      /\ \A j \in 2..(1 + L) : frame[j] = "text"
  <2>1. CASE Texts[k] = <<>>
    BY <1>1, <1>2, <2>1 DEF Items
  <2>2. CASE Texts[k] = <<"text">>
    BY <1>1, <1>2, <2>2 DEF Items
  <2>3. CASE Texts[k] = <<"text", "text">>
    BY <1>1, <1>2, <2>3 DEF Items
  <2>4. CASE Texts[k] = <<"text", "text", "text">>
    BY <1>1, <1>2, <2>4 DEF Items
  <2> QED BY <2>1, <2>2, <2>3, <2>4, CommandTexts
<1>4. PICK need \in [0..Len(q) -> Nat] :
        /\ need[0] = n /\ need[Len(q)] = 0
        /\ \A i \in 1..Len(q) :
             IF need[i - 1] > 0 THEN q[i] = "text" /\ need[i] = need[i - 1] - 1
             ELSE q[i] \in Commands /\ need[i] = Len(Texts[q[i]])
  BY DEF InFrames
<1>5. PICK Q : Q = q \o frame
  OBVIOUS
<1>6. /\ Len(q) \in Nat /\ Len(Q) = Len(q) + 1 + L
      /\ \A i \in 1..(Len(q) + 1 + L) : Q[i] = IF i <= Len(q) THEN q[i] ELSE frame[i - Len(q)]
  <2>1. /\ Len(q \o frame) = Len(q) + Len(frame)
        /\ \A i \in 1..(Len(q) + Len(frame)) :
             (q \o frame)[i] = IF i <= Len(q) THEN q[i] ELSE frame[i - Len(q)]
    BY <1>3, ConcatProperties
  <2>2. Len(q) \in Nat
    BY LenProperties
  <2>3. Len(q) + Len(frame) = Len(q) + 1 + L
    BY <1>3, <2>2
  <2> QED BY <1>5, <2>1, <2>2, <2>3
<1>7. PICK all : all = [i \in 0..(Len(q) + 1 + L) |->
                          IF i <= Len(q) THEN need[i] ELSE L - (i - Len(q) - 1)]
  OBVIOUS
<1>8. all \in [0..Len(Q) -> Nat]
  <2>1. ASSUME NEW i \in 0..(Len(q) + 1 + L)
        PROVE  (IF i <= Len(q) THEN need[i] ELSE L - (i - Len(q) - 1)) \in Nat
    <3>1. CASE i <= Len(q)
      <4>1. i \in 0..Len(q)
        BY <1>6, <3>1
      <4> QED BY <3>1, <4>1
    <3>2. CASE ~ (i <= Len(q))
      BY <1>6, <3>2
    <3> QED BY <3>1, <3>2
  <2> QED BY <1>6, <1>7, <2>1
<1>9. all[0] = n /\ all[Len(Q)] = 0
  BY <1>4, <1>6, <1>7
<1>10. ASSUME NEW i \in 1..Len(Q)
       PROVE  IF all[i - 1] > 0 THEN Q[i] = "text" /\ all[i] = all[i - 1] - 1
              ELSE Q[i] \in Commands /\ all[i] = Len(Texts[Q[i]])
  <2>1. i - 1 \in 0..(Len(q) + 1 + L) /\ i \in 0..(Len(q) + 1 + L) /\ i \in 1..(Len(q) + 1 + L)
    BY <1>6
  <2>2. CASE i <= Len(q)
    <3>1. all[i - 1] = need[i - 1] /\ all[i] = need[i] /\ Q[i] = q[i] /\ i \in 1..Len(q)
      BY <1>6, <1>7, <2>1, <2>2
    <3> QED BY <1>4, <3>1
  <2>3. CASE i = Len(q) + 1
    <3>1. all[i - 1] = 0 /\ all[i] = L /\ Q[i] = k
      BY <1>3, <1>4, <1>6, <1>7, <2>1, <2>3
    <3> QED BY <1>2, <3>1
  <2>4. CASE i > Len(q) + 1
    <3>1. i - Len(q) \in 2..(1 + L) /\ ~ (i <= Len(q)) /\ ~ (i - 1 <= Len(q))
      BY <1>6, <2>1, <2>4
    <3>2. Q[i] = "text"
      BY <1>3, <1>6, <2>1, <3>1
    <3>3. all[i - 1] = L - ((i - 1) - Len(q) - 1) /\ all[i] = L - (i - Len(q) - 1)
      BY <1>7, <2>1, <3>1
    <3>4. all[i] = all[i - 1] - 1 /\ all[i - 1] > 0
      BY <1>6, <3>1, <3>3
    <3> QED BY <3>2, <3>4
  <2> QED BY <1>6, <2>1, <2>2, <2>3, <2>4
<1>11. InFrames(Q, n)
  BY <1>8, <1>9, <1>10 DEF InFrames
<1> QED BY <1>1, <1>3, <1>5, <1>11

---------------------------------------------------------------------------
(* The types are kept.                                                      *)

\* They hold before the first client.
LEMMA InitTypes == Init => Typing /\ Started /\ InStep
<1> SUFFICES ASSUME Init PROVE Typing /\ Started /\ InStep
  OBVIOUS
<1>1. <<>> \in Seq(Commands \cup {"text"}) /\ <<>> \in Seq({"welcome", "full", "reply"})
  BY EmptySeq
<1>2. Typing
  <2>1. <<>> \in CallLists
    BY EmptySeq DEF CallLists
  <2> QED BY <1>1, <2>1, ConnectionsAssumption DEF Init, Typing
<1>3. Started
  BY DEF Init, Started
<1>4. InStep
  BY NoFrames DEF Init, InStep
<1> QED BY <1>2, <1>3, <1>4

\* Commands arrive whole.
LEMMA SendTypes ==
  ASSUME Typing, InStep, NEW c \in Clients, NEW k \in Commands,
         SendToServer(c, <<k>> \o Texts[k]), UNCHANGED <<wsa, pc, todo, skipped>>
  PROVE  toServer' \in [Clients -> Seq(Items)] /\ InStep'
<1>1. toServer \in [Clients -> Seq(Items)]
  BY DEF Typing, Items
<1>2. toServer'[c] = toServer[c] \/ toServer'[c] = toServer[c] \o (<<k>> \o Texts[k])
  BY <1>1 DEF SendToServer
<1>3. <<k>> \o Texts[k] \in Seq(Items)
  <2>1. InFrames(<<>>, 0) /\ <<>> \in Seq(Items)
    BY NoFrames, EmptySeq
  <2> QED BY <2>1, FramesSent
<1>4. toServer'[c] \in Seq(Items)
  BY <1>1, <1>2, <1>3, ConcatProperties
<1>5. toServer' \in [Clients -> Seq(Items)] /\ \A d \in Clients \ {c} : toServer'[d] = toServer[d]
  BY <1>1, <1>4 DEF SendToServer
<1>6. ASSUME NEW n \in Nat, InFrames(toServer[c], n) PROVE InFrames(toServer'[c], n)
  BY <1>1, <1>2, <1>6, FramesSent
<1>8. InStep'
  BY <1>5, <1>6 DEF InStep
<1> QED BY <1>5, <1>8

\* The steps of the client program, of its user and of who ends it.
LEMMA ClientTypes ==
  ASSUME IInv, Typing, Started, InStep,
         NEW c \in Clients, ClientProgram(c) \/ User(c) \/ Kill(c)
  PROVE  Typing' /\ Started' /\ InStep'
<1>1. UNCHANGED <<mainVars, connected, threadVars, heapVars>>
  BY DEF ClientProgram, User, Kill, Connect, Read, ReadFails, CheckLoop, Type, TypeExit,
         SendExit, Leave
<1>2. Started'
  BY <1>1 DEF Started, Served, mainVars, threadVars
<1>3. ASSUME toServer' = toServer PROVE InStep'
  BY <1>1, <1>3 DEF InStep, threadVars, tableVars, heapVars
<1>4. ASSUME NEW k \in Commands, SendToServer(c, <<k>> \o Texts[k])
      PROVE  toServer' \in [Clients -> Seq(Commands \cup {"text"})] /\ InStep'
  BY <1>1, <1>4, SendTypes DEF threadVars, tableVars, heapVars, Items
<1>5. /\ mpc' = mpc /\ todo' = todo /\ exitted' = exitted /\ server' = server /\ wsa' = wsa
      /\ misuse' = misuse /\ skipped' = skipped
  BY <1>1 DEF mainVars, threadVars, tableVars, heapVars
<1>6. CASE Connect(c) \/ ReadFails(c) \/ CheckLoop(c) \/ TypeExit(c) \/ Leave(c)
  <2>1. /\ UNCHANGED <<toServer, faults>>
        /\ toClient' = toClient \/ toClient' = [toClient EXCEPT ![c] = <<>>]
        /\ budget' = budget \/ budget' = [budget EXCEPT ![c] = 0]
        /\ reader' = reader \/ \E r \in {"recv", "ended"} : reader' = [reader EXCEPT ![c] = r]
        /\ open' = open \/ \E b \in BOOLEAN : open' = [open EXCEPT ![c] = b]
    BY <1>6 DEF Connect, ReadFails, CheckLoop, TypeExit, Leave, Close, netVars
  <2>2. /\ reader' \in [Clients -> {"recv", "check", "ended"}] /\ open' \in [Clients -> BOOLEAN]
        /\ budget' \in [Clients -> 0..MaxTyped]
        /\ toClient' \in [Clients -> Seq({"welcome", "full", "reply"})]
    <3>0. /\ reader \in [Clients -> {"recv", "check", "ended"}] /\ open \in [Clients -> BOOLEAN]
          /\ budget \in [Clients -> 0..MaxTyped] /\ 0 \in 0..MaxTyped
          /\ toClient \in [Clients -> Seq({"welcome", "full", "reply"})]
          /\ <<>> \in Seq({"welcome", "full", "reply"})
      BY EmptySeq, ConnectionsAssumption DEF Typing
    <3>1. ASSUME NEW r \in {"recv", "ended"}, reader' = [reader EXCEPT ![c] = r]
          PROVE  reader' \in [Clients -> {"recv", "check", "ended"}]
      BY <3>0, <3>1
    <3>2. ASSUME NEW b \in BOOLEAN, open' = [open EXCEPT ![c] = b]
          PROVE  open' \in [Clients -> BOOLEAN]
      BY <3>0, <3>2
    <3>3. budget' \in [Clients -> 0..MaxTyped]
      BY <2>1, <3>0
    <3>4. toClient' \in [Clients -> Seq({"welcome", "full", "reply"})]
      BY <2>1, <3>0
    <3> QED BY <2>1, <3>0, <3>1, <3>2, <3>3, <3>4
  <2> QED BY <1>2, <1>3, <1>5, <2>1, <2>2 DEF Typing
<1>7. CASE Read(c)
  <2>1. /\ UNCHANGED <<toServer, open, budget, faults>> /\ toClient[c] # <<>>
        /\ reader' = [reader EXCEPT ![c] = "check"]
        /\ toClient' = [toClient EXCEPT ![c] = Tail(toClient[c])]
    BY <1>7 DEF Read, Typing
  <2>2. Tail(toClient[c]) \in Seq({"welcome", "full", "reply"})
    BY <2>1, HeadTailProperties DEF Typing
  <2> QED BY <1>2, <1>3, <1>5, <2>1, <2>2 DEF Typing
<1>8. ASSUME NEW k \in Typed[c], Type(c, k) PROVE Typing' /\ Started' /\ InStep'
  <2>1. /\ budget[c] > 0 /\ budget' = [budget EXCEPT ![c] = budget[c] - 1]
        /\ SendToServer(c, <<k>> \o Texts[k])
        /\ UNCHANGED <<reader, open, toClient, faults>>
    BY <1>8 DEF Type, Typing
  <2>2. k \in Commands
    BY ConnectionsAssumption, CommandsHandled
  <2>3. budget' \in [Clients -> 0..MaxTyped]
    BY <2>1, ConnectionsAssumption DEF Typing
  <2> QED BY <1>2, <1>4, <1>5, <2>1, <2>2, <2>3 DEF Typing
<1>9. ASSUME NEW k \in Exits, SendExit(c, k) PROVE Typing' /\ Started' /\ InStep'
  <2>1. SendToServer(c, <<k>> \o Texts[k]) /\ UNCHANGED <<reader, open, budget, toClient, faults>>
    BY <1>9 DEF SendExit
  <2>2. k \in Commands
    BY DEF Exits, Commands
  <2> QED BY <1>2, <1>4, <1>5, <2>1, <2>2 DEF Typing
<1>10. CASE Kill(c)
  <2>1. /\ UNCHANGED toServer /\ toClient' = [toClient EXCEPT ![c] = <<>>]
        /\ budget' = [budget EXCEPT ![c] = 0]
        /\ open' = [open EXCEPT ![c] = FALSE] /\ reader' = [reader EXCEPT ![c] = "ended"]
        /\ faults < MaxFaults /\ faults' = faults + 1
    BY <1>10 DEF Kill, Close, Fault
  <2>2. /\ faults' \in 0..MaxFaults /\ budget' \in [Clients -> 0..MaxTyped]
        /\ open' \in [Clients -> BOOLEAN] /\ reader' \in [Clients -> {"recv", "check", "ended"}]
        /\ toClient' \in [Clients -> Seq({"welcome", "full", "reply"})]
    BY <2>1, EmptySeq, ConnectionsAssumption DEF Typing
  <2> QED BY <1>2, <1>3, <1>5, <2>1, <2>2 DEF Typing
<1> QED BY <1>6, <1>7, <1>8, <1>9, <1>10 DEF ClientProgram, User

\* Where the set of served clients and the counter stay, so does Started.
LEMMA SameStarted ==
  ASSUME Started, UNCHANGED <<mainVars, connected>>, Served' = Served,
         mpc = "count" => pc'[newClient] \in {"command", "ended"}
  PROVE  Started'
BY DEF Started, mainVars

\* Only the calls of thread c change.
LEMMA ThreadStep ==
  ASSUME InStep, NEW c \in Clients, skipped \subseteq skipped',
         wsa' => /\ wsa
                 /\ \A d \in Clients \ {c} :
                      pc'[d] = pc[d] /\ todo'[d] = todo[d] /\ toServer'[d] = toServer[d],
         wsa' /\ c \notin skipped' =>
           /\ pc'[c] \in {"none", "command"} => InFrames(toServer'[c], 0)
           /\ pc'[c] = "run" => \E n \in Nat : Leads(todo'[c], n) /\ InFrames(toServer'[c], n)
  PROVE  InStep'
BY DEF InStep

\* A failed call leaves nothing to be in step.
LEMMA CollapseTypes ==
  ASSUME Typing, NEW c \in Clients, Collapse(c)
  PROVE  /\ ~ wsa' /\ InStep'
         /\ server' \in {"live", "freed"} /\ wsa' \in BOOLEAN
         /\ misuse' \subseteq {"client", "server", "borrowed"}
         /\ toServer' \in [Clients -> Seq(Items)]
BY EmptySeq DEF Collapse, ServerFails, InStep, Typing

\* At most one more thing goes wrong.
LEMMA FaultTypes ==
  ASSUME Typing, NEW kind, UNCHANGED faults \/ Fault(kind)
  PROVE  faults' \in 0..MaxFaults
BY ConnectionsAssumption DEF Typing, Fault

\* A thread that goes on with its command keeps its place, and is not the one that the
\* accept loop has not counted.
LEMMA RunStarted ==
  ASSUME IInv, Started, NEW c \in Clients, NEW to \in Serving, pc[c] = "run",
         pc' = [pc EXCEPT ![c] = to], UNCHANGED <<mpc, newClient, connected>>
  PROVE  Started'
<1>1. Served' = Served
  BY ServedSame DEF IInv, Serving
<1>2. mpc = "count" => newClient # c
  BY DEF Started
<1> QED BY <1>1, <1>2, SameStarted DEF Started, mainVars, IInv, Shape

\* A call that receives nothing leaves the thread in step.
LEMMA CallInStep ==
  ASSUME Typing, InStep, NEW c \in Clients, pc[c] = "run",
         todo[c] # <<>>, Head(todo[c]) # "recv",
         UNCHANGED <<toServer, wsa, skipped, pc>>,
         NEW rest, rest = Tail(todo[c])
                     \/ (Head(todo[c]) = "lookup" /\ rest = Tail(Tail(todo[c]))),
         todo' = [todo EXCEPT ![c] = rest]
  PROVE  todo' \in [Clients -> CallLists] /\ InStep'
<1>1. todo[c] \in CallLists /\ todo \in [Clients -> CallLists]
  BY DEF Typing
<1>2. rest \in CallLists
  BY <1>1, CallMade
<1>3. \A n \in Nat : Leads(todo[c], n) => n = 0 /\ Leads(rest, 0)
  BY <1>1, CallMade
<1>4. InStep'
  <2>1. wsa' /\ c \notin skipped' => \E n \in Nat : Leads(todo'[c], n) /\ InFrames(toServer'[c], n)
    BY <1>1, <1>3 DEF InStep
  <2> QED BY <1>1, <2>1, ThreadStep
<1> QED BY <1>1, <1>2, <1>4

\* A text that is delivered is one of the server's.
LEMMA DeliverTypes ==
  ASSUME Typing, NEW c \in Clients, NEW text \in {"welcome", "full", "reply"}, Deliver(c, text)
  PROVE  toClient' \in [Clients -> Seq({"welcome", "full", "reply"})]
<1>1. Append(toClient[c], text) \in Seq({"welcome", "full", "reply"})
  BY AppendProperties DEF Typing
<1> QED BY <1>1 DEF Deliver, Typing

\* A thread takes a command off, with the calls of its handler, or fails.
LEMMA ReceiveTypes ==
  ASSUME IInv, Typing, Started, InStep, NEW c \in Clients,
         ReceiveCommand(c) \/ ReceiveCommandFails(c)
  PROVE  Typing' /\ Started' /\ InStep'
<1>1. CASE ReceiveCommand(c)
  <2> DEFINE q == toServer[c]
  <2>1. /\ pc[c] = "command" /\ wsa /\ q # <<>>
        /\ pc' = [pc EXCEPT ![c] = "run"]
        /\ toServer' = [toServer EXCEPT ![c] = Tail(q)]
        /\ UNCHANGED <<reader, open, budget, toClient, mpc, newClient, connected, server, wsa,
                       misuse>>
    BY <1>1 DEF ReceiveCommand, At, Goto, clientVars, mainVars, heapVars, Typing
  <2>2. PICK k \in TypeFound(c) :
          /\ exitted' = [exitted EXCEPT ![c] = k \in Exits]
          /\ \/ /\ \E calls \in Handler[k] : todo' = [todo EXCEPT ![c] = calls]
                /\ UNCHANGED <<skipped, faults>>
             \/ /\ Fault("memory")
                /\ todo' = [todo EXCEPT ![c] = <<>>]
                /\ skipped' = skipped \cup {c}
    BY <1>1 DEF ReceiveCommand
  <2>3. q \in Seq(Items)
    BY DEF Typing, Items
  <2>4. Head(q) \in Items /\ Tail(q) \in Seq(Items)
    BY <2>1, <2>3, HeadTailProperties
  <2>5. k \in Commands
    BY <2>4, ConnectionsAssumption, CommandsHandled DEF TypeFound, Items
  <2>6. /\ \/ todo' = [todo EXCEPT ![c] = <<>>] /\ c \in skipped'
           \/ \E calls \in Handler[k] : todo' = [todo EXCEPT ![c] = calls] /\ skipped' = skipped
        /\ skipped \subseteq skipped' /\ skipped' \subseteq skipped \cup {c}
        /\ faults' \in 0..MaxFaults
    BY <2>2, FaultTypes DEF Typing
  <2>7. PICK calls \in CallLists :
          /\ todo' = [todo EXCEPT ![c] = calls]
          /\ c \notin skipped' => Leads(calls, Len(Texts[k])) /\ skipped' = skipped
    <3>1. <<>> \in CallLists
      BY EmptySeq DEF CallLists
    <3> QED BY <2>5, <2>6, <3>1, CommandCalls
  <2>8. c \notin skipped' => InFrames(Tail(q), Len(Texts[k])) /\ Len(Texts[k]) \in Nat
    <3> SUFFICES ASSUME c \notin skipped' PROVE InFrames(Tail(q), Len(Texts[k]))
                                                  /\ Len(Texts[k]) \in Nat
      OBVIOUS
    <3>1. InFrames(q, 0)
      BY <2>1, <2>6 DEF InStep
    <3>2. Head(q) \in Commands /\ InFrames(Tail(q), Len(Texts[Head(q)]))
      BY <2>1, <2>3, <3>1, FramesTaken
    <3>3. k = Head(q)
      BY <3>2 DEF TypeFound, Commands
    <3>4. Len(Texts[k]) \in Nat
      BY <2>5, CommandTexts
    <3> QED BY <3>2, <3>3, <3>4
  <2> HIDE DEF q
  <2>9. Typing'
    BY <2>1, <2>2, <2>4, <2>6, <2>7 DEF Typing, Items
  <2>10. InStep'
    <3>1. pc'[c] = "run" /\ todo'[c] = calls /\ toServer'[c] = Tail(q)
      BY <2>1, <2>7 DEF IInv, Shape, Typing
    <3>2. \A d \in Clients \ {c} : pc'[d] = pc[d] /\ todo'[d] = todo[d] /\ toServer'[d] = toServer[d]
      BY <2>1, <2>7 DEF IInv, Shape, Typing
    <3>3. c \notin skipped' =>
            \E n \in Nat : Leads(todo'[c], n) /\ InFrames(toServer'[c], n)
      BY <2>7, <2>8, <3>1
    <3> QED BY <2>1, <2>6, <3>1, <3>2, <3>3, ThreadStep
  <2>11. mpc = "count" => c # newClient
    BY <2>1 DEF IInv, Arrivals, Quiet, q
  <2>12. Started'
    <3>1. Served' = Served
      BY <2>1, ServedSame DEF IInv, Serving
    <3> QED BY <2>1, <2>11, <3>1, SameStarted DEF IInv, Shape, Started, mainVars
  <2> QED BY <2>9, <2>10, <2>12
<1>2. CASE ReceiveCommandFails(c)
  <2>1. /\ pc[c] = "command" /\ pc' = [pc EXCEPT ![c] = "ended"] /\ Collapse(c)
        /\ UNCHANGED <<reader, open, budget, toClient, mpc, newClient, connected, todo, exitted,
                       skipped, faults>>
    BY <1>2 DEF ReceiveCommandFails, At, Goto, clientVars, mainVars, tableVars
  <2>2. Typing' /\ InStep'
    BY <2>1, CollapseTypes DEF Typing, Items
  <2>3. Started'
    <3>1. Served' = Served \ {c} /\ pc \in [Clients -> {"none", "command", "run", "decrement",
                                                         "abandon", "ended", "undefined"}]
      BY <2>1 DEF Served, IInv, Shape
    <3>2. Served' \ {newClient} \in SUBSET (Served \ {newClient})
      BY <3>1
    <3>3. IsFiniteSet(Served \ {newClient})
      BY ServedFinite, FS_RemoveElement
    <3>4. /\ Cardinality(Served' \ {newClient}) <= Cardinality(Served \ {newClient})
          /\ Cardinality(Served' \ {newClient}) \in Nat /\ Cardinality(Served \ {newClient}) \in Nat
      BY <3>2, <3>3, FS_Subset, FS_CardinalityType
    <3> QED BY <2>1, <3>1, <3>4 DEF Started, IInv, Shape
  <2> QED BY <2>2, <2>3
<1> QED BY <1>1, <1>2

\* The calls of a handler.
LEMMA CallTypes ==
  ASSUME IInv, Typing, Started, InStep, NEW c \in Clients,
         \/ ReceiveText(c) \/ SendText(c) \/ CallFails(c)
         \/ Insert(c) \/ Remove(c) \/ Lookup(c)
         \/ \E d \in Clients : Forward(c, d) \/ ForwardFails(c, d)
  PROVE  Typing' /\ Started' /\ InStep'
<1> USE DEF Calling, At, CallDone, clientVars, mainVars, heapVars, tableVars, Forwarding,
            ForwardDone, OwnCall
<1>1. /\ pc[c] = "run" /\ todo[c] # <<>>
      /\ UNCHANGED <<reader, open, budget, pc, mpc, newClient, connected, exitted, skipped>>
  BY DEF ReceiveText, SendText, CallFails, Insert, Remove, Lookup, Forward, ForwardFails
<1>2. Started'
  <2>1. pc' = [pc EXCEPT ![c] = "run"]
    BY <1>1 DEF IInv, Shape
  <2> QED BY <1>1, <2>1, RunStarted DEF Serving
<1>3. todo[c] \in CallLists /\ todo \in [Clients -> CallLists] /\ Tail(todo[c]) \in CallLists
  BY <1>1, CallMade DEF Typing
<1>4. CASE ReceiveText(c)
  <2> DEFINE q == toServer[c]
  <2>1. /\ Head(todo[c]) = "recv" /\ wsa /\ q # <<>>
        /\ toServer' = [toServer EXCEPT ![c] = Tail(q)]
        /\ todo' = [todo EXCEPT ![c] = Tail(todo[c])]
        /\ UNCHANGED <<toClient, server, wsa, misuse, faults>>
    BY <1>3, <1>4 DEF ReceiveText, Typing
  <2>2. q \in Seq(Items) /\ Tail(q) \in Seq(Items)
    BY <2>1, HeadTailProperties DEF Typing, Items
  <2>3. c \notin skipped =>
          \E n \in Nat : Leads(Tail(todo[c]), n) /\ InFrames(Tail(q), n)
    <3> SUFFICES ASSUME c \notin skipped
                 PROVE  \E n \in Nat : Leads(Tail(todo[c]), n) /\ InFrames(Tail(q), n)
      OBVIOUS
    <3>1. PICK n \in Nat : Leads(todo[c], n) /\ InFrames(q, n)
      BY <1>1, <2>1 DEF InStep
    <3>2. n > 0 /\ Leads(Tail(todo[c]), n - 1)
      BY <1>1, <1>3, <2>1, <3>1, CallMade
    <3>3. InFrames(Tail(q), n - 1)
      BY <2>1, <2>2, <3>1, <3>2, FramesTaken
    <3>4. n - 1 \in Nat
      BY <3>2
    <3> QED BY <3>2, <3>3, <3>4
  <2> HIDE DEF q
  <2>4. Typing'
    BY <1>1, <1>3, <2>1, <2>2 DEF Typing, Items
  <2>5. InStep'
    <3>1. toServer'[c] = Tail(q) /\ todo'[c] = Tail(todo[c])
      BY <1>3, <2>1 DEF Typing
    <3>2. \A d \in Clients \ {c} : todo'[d] = todo[d] /\ toServer'[d] = toServer[d]
      BY <1>3, <2>1 DEF Typing
    <3> QED BY <1>1, <2>1, <2>3, <3>1, <3>2, ThreadStep
  <2> QED BY <1>2, <2>4, <2>5
<1>5. CASE \/ SendText(c) \/ Insert(c) \/ Remove(c) \/ Lookup(c)
           \/ \E d \in Clients : Forward(c, d)
  <2>1. /\ Head(todo[c]) # "recv"
        /\ UNCHANGED <<toServer, server, wsa, misuse, faults>>
        /\ UNCHANGED toClient \/ \E d \in Clients : Deliver(d, "reply")
    BY <1>5 DEF SendText, Insert, Remove, Lookup, Forward, netVars
  <2>2. PICK rest :
          /\ rest = Tail(todo[c]) \/ (Head(todo[c]) = "lookup" /\ rest = Tail(Tail(todo[c])))
          /\ todo' = [todo EXCEPT ![c] = rest]
    BY <1>3, <1>5 DEF SendText, Insert, Remove, Lookup, Forward
  <2>3. todo' \in [Clients -> CallLists] /\ InStep'
    BY <1>1, <2>1, <2>2, CallInStep
  <2>4. toClient' \in [Clients -> Seq({"welcome", "full", "reply"})]
    BY <2>1, DeliverTypes DEF Typing
  <2>5. Typing'
    BY <1>1, <2>1, <2>3, <2>4 DEF Typing
  <2> QED BY <1>2, <2>3, <2>5
<1>6. CASE CallFails(c) \/ \E d \in Clients : ForwardFails(c, d)
  <2>1. PICK d \in Clients : Collapse(d)
    BY <1>6 DEF CallFails, ForwardFails
  <2>2. /\ todo' = [todo EXCEPT ![c] = Tail(todo[c])] /\ UNCHANGED toClient
        /\ UNCHANGED faults \/ Fault("memory")
    BY <1>3, <1>6 DEF CallFails, ForwardFails, CallMayFail
  <2>3. faults' \in 0..MaxFaults
    BY <2>2, FaultTypes
  <2>4. todo' \in [Clients -> CallLists]
    BY <1>3, <2>2
  <2>5. Typing' /\ InStep'
    BY <1>1, <2>1, <2>2, <2>3, <2>4, CollapseTypes DEF Typing, Items
  <2> QED BY <1>2, <2>5
<1> QED BY <1>4, <1>5, <1>6

\* The ends of a call and of a command, which may leave the thread's behaviour undefined.
LEMMA RunTypes ==
  ASSUME IInv, Typing, Started, InStep, NEW c \in Clients,
         \/ UseFreedClient(c) \/ EndCommand(c) \/ \E d \in Clients : ForwardToFreed(c, d)
  PROVE  Typing' /\ Started' /\ InStep'
<1> USE DEF Calling, At, Goto, CallDone, clientVars, netVars, mainVars, tableVars, Forwarding,
            ForwardDone, OwnCall
<1>1. /\ pc[c] = "run" /\ UNCHANGED <<reader, open, budget, toClient, mpc, newClient, connected,
                                     exitted, skipped, faults>>
      /\ misuse' \subseteq {"client", "server", "borrowed"}
  BY DEF UseFreedClient, EndCommand, ForwardToFreed, Typing
<1>2. PICK to \in Serving : pc' = [pc EXCEPT ![c] = to]
  <2>1. pc = [pc EXCEPT ![c] = "run"]
    BY <1>1 DEF IInv, Shape
  <2> QED BY <2>1 DEF UseFreedClient, EndCommand, ForwardToFreed, Serving
<1>3. Started'
  BY <1>1, <1>2, RunStarted
<1>4. todo \in [Clients -> CallLists] /\ pc'[c] = to /\ \A d \in Clients \ {c} : pc'[d] = pc[d]
  BY <1>2 DEF Typing, IInv, Shape
<1>5. CASE UNCHANGED <<toServer, todo, server, wsa>> /\ to # "run" /\ (to = "command" => todo[c] = <<>>)
  <2>1. Typing'
    BY <1>1, <1>5 DEF Typing
  <2>2. wsa /\ c \notin skipped /\ to = "command" => InFrames(toServer[c], 0)
    <3>1. \A n \in Nat : Leads(<<>>, n) => n = 0
      BY DEF Leads
    <3> QED BY <1>1, <1>5, <3>1 DEF InStep
  <2>3. to # "none"
    BY DEF Serving
  <2>4. InStep'
    BY <1>1, <1>4, <1>5, <2>2, <2>3, ThreadStep
  <2> QED BY <1>3, <2>1, <2>4
<1>6. CASE ServerFails /\ todo' = [todo EXCEPT ![c] = Tail(todo[c])] /\ todo[c] # <<>>
  <2>1. Tail(todo[c]) \in CallLists
    BY <1>4, <1>6, CallMade
  <2>2. todo' \in [Clients -> CallLists]
    BY <1>4, <1>6, <2>1
  <2>3. server' = "freed" /\ wsa' = FALSE /\ toServer' \in [Clients -> Seq(Commands \cup {"text"})]
    BY <1>6, EmptySeq DEF ServerFails
  <2>4. Typing'
    BY <1>1, <2>2, <2>3 DEF Typing
  <2> QED BY <1>3, <2>3, <2>4 DEF InStep
<1>7. CASE UseFreedClient(c) \/ EndCommand(c)
  <2>1. UNCHANGED <<toServer, todo, server, wsa>>
    BY <1>7 DEF UseFreedClient, EndCommand
  <2>2. pc' \in {[pc EXCEPT ![c] = "undefined"], [pc EXCEPT ![c] = "decrement"]}
          \/ (pc' = [pc EXCEPT ![c] = "command"] /\ todo[c] = <<>>)
    BY <1>7 DEF UseFreedClient, EndCommand
  <2>3. to \in {"undefined", "decrement"} \/ (to = "command" /\ todo[c] = <<>>)
    BY <1>4, <2>2 DEF IInv, Shape
  <2> QED BY <1>5, <2>1, <2>3
<1>8. CASE \E d \in Clients : ForwardToFreed(c, d)
  <2>1. \/ ServerFails /\ todo' = [todo EXCEPT ![c] = Tail(todo[c])] /\ todo[c] # <<>>
        \/ UNCHANGED <<toServer, todo, server, wsa>> /\ pc' = [pc EXCEPT ![c] = "undefined"]
    BY <1>4, <1>8 DEF ForwardToFreed
  <2>2. pc' = [pc EXCEPT ![c] = "undefined"] => to = "undefined"
    BY <1>4 DEF IInv, Shape
  <2> QED BY <1>5, <1>6, <2>1, <2>2
<1> QED BY <1>7, <1>8

\* A thread that ends takes its client off the counter, which has counted it.
LEMMA EndTypes ==
  ASSUME IInv, Typing, Started, InStep, NEW c \in Clients, Decrement(c) \/ AbandonAtEnd(c)
  PROVE  Typing' /\ Started' /\ InStep'
<1>1. /\ UNCHANGED <<reader, open, budget, toServer, toClient, mpc, newClient, todo, exitted,
                     skipped, server, wsa, faults>>
      /\ misuse' \subseteq misuse \cup {"client"}
  BY DEF Decrement, AbandonAtEnd, clientVars, netVars, mainVars, tableVars, heapVars
<1>2. PICK to \in {"abandon", "ended"} : pc' = [pc EXCEPT ![c] = to]
  BY DEF Decrement, AbandonAtEnd, Goto
<1>3. pc[c] \in {"decrement", "abandon"}
  BY DEF Decrement, AbandonAtEnd, At
<1>4. pc \in [Clients -> {"none", "command", "run", "decrement", "abandon", "ended", "undefined"}]
  BY DEF IInv, Shape
<1>5. Typing'
  BY <1>1 DEF Typing
<1>6. InStep'
  BY <1>1, <1>2, <1>4, ThreadStep
<1>7. mpc = "count" => newClient # c /\ pc'[newClient] \in {"command", "ended"}
  BY <1>2, <1>3, <1>4 DEF Started, IInv, Shape
<1>8. CASE AbandonAtEnd(c)
  <2>1. pc[c] = "abandon" /\ connected' = connected /\ Served' = Served
    BY <1>4, <1>8 DEF AbandonAtEnd, At, Goto, Served
  <2>2. Started'
    BY <1>1, <1>7, <2>1, SameStarted DEF mainVars
  <2> QED BY <1>5, <1>6, <2>2
<1>9. CASE Decrement(c)
  <2>1. c \in Served /\ connected' = connected - 1 /\ Served' = Served \ {c}
    BY <1>4, <1>9 DEF Decrement, At, Goto, Served
  <2>2. connected \in Int /\ connected >= 0
    BY DEF IInv, Shape, Started
  <2>3. CASE mpc = "count"
    <3> DEFINE others == Served \ {newClient}
    <3>1. c \in others /\ Served' \ {newClient} = others \ {c} /\ IsFiniteSet(others)
      BY <1>7, <2>1, <2>3, ServedFinite, FS_RemoveElement
    <3>2. Cardinality(others \ {c}) = Cardinality(others) - 1
      BY <3>1, FS_RemoveElement
    <3>3. Cardinality(others) \in Nat /\ Cardinality(others \ {c}) \in Nat
      BY <3>1, FS_RemoveElement, FS_CardinalityType
    <3>4. Cardinality(others) <= connected
      BY <2>3 DEF Started
    <3> HIDE DEF others
    <3>5. connected' >= 0 /\ Cardinality(others \ {c}) <= connected'
      BY <2>1, <2>2, <3>2, <3>3, <3>4
    <3>6. Started'
      BY <1>1, <1>7, <2>3, <3>1, <3>5 DEF Started
    <3> QED BY <1>5, <1>6, <3>6
  <2>4. CASE mpc # "count"
    <3>1. Cardinality(Served) <= connected
      BY <2>2, <2>4, ServedFinite DEF IInv, Counted, Uncounted
    <3>2. Cardinality(Served \ {c}) = Cardinality(Served) - 1 /\ Cardinality(Served \ {c}) \in Nat
      BY <2>1, ServedFinite, FS_RemoveElement, FS_CardinalityType
    <3>3. connected' >= 0
      BY <2>1, <2>2, <3>1, <3>2, ServedFinite
    <3>4. Started'
      BY <1>1, <2>4, <3>3 DEF Started
    <3> QED BY <1>5, <1>6, <3>4
  <2> QED BY <2>3, <2>4
<1> QED BY <1>8, <1>9

\* The accept loop.
LEMMA LoopTypes ==
  ASSUME IInv, Typing, Started, InStep, AcceptLoop
  PROVE  Typing' /\ Started' /\ InStep'
<1> USE DEF clientVars, netVars, mainVars, threadVars, tableVars, heapVars, Main
<1>1. UNCHANGED <<reader, open, budget, skipped>>
  BY DEF AcceptLoop, Accept, Decide, StartThread, Count, Greet, Refuse, Cleanup
<1>2. ASSUME UNCHANGED <<pc, todo>>, wsa' => wsa /\ UNCHANGED toServer PROVE InStep'
  BY <1>1, <1>2 DEF InStep
<1>3. ASSUME UNCHANGED connected \/ connected' = 0, mpc' # "count" PROVE Started'
  BY <1>3 DEF Started
<1>4. CASE Accept \/ Decide
  <2>1. /\ UNCHANGED <<toServer, toClient, connected, pc, todo, exitted, server, wsa, misuse, faults>>
        /\ mpc' \in {"decide", "start", "refuse"}
    BY <1>4 DEF Accept, Decide
  <2>2. Typing'
    BY <1>1, <2>1 DEF Typing
  <2> QED BY <1>2, <1>3, <2>1, <2>2
<1>5. CASE StartThread
  <2>1. /\ mpc = "start" /\ mpc' = "count" /\ pc' = [pc EXCEPT ![newClient] = "command"]
        /\ UNCHANGED <<toServer, toClient, newClient, connected, todo, exitted, server, wsa, misuse,
                       faults>>
    BY <1>5 DEF StartThread
  <2>2. newClient \in Clients /\ pc[newClient] = "none"
        /\ pc \in [Clients -> {"none", "command", "run", "decrement", "abandon", "ended", "undefined"}]
    BY <2>1 DEF IInv, Shape, Arrivals, Fresh
  <2>3. Typing'
    BY <1>1, <2>1 DEF Typing
  <2>4. InStep'
    <3>1. pc'[newClient] = "command" /\ \A d \in Clients \ {newClient} : pc'[d] = pc[d]
      BY <2>1, <2>2
    <3>2. wsa /\ newClient \notin skipped => InFrames(toServer[newClient], 0)
      BY <2>2 DEF InStep
    <3> QED BY <1>1, <2>1, <2>2, <3>1, <3>2, ThreadStep
  <2>5. Served' \ {newClient} = Served
    BY <2>1, <2>2 DEF Served
  <2>6. Cardinality(Served) <= connected /\ connected >= 0
    BY <2>1, ServedFinite DEF IInv, Shape, Counted, Uncounted, Started
  <2>7. Started'
    BY <2>1, <2>2, <2>5, <2>6 DEF Started
  <2> QED BY <2>3, <2>4, <2>7
<1>6. CASE Count
  <2>1. /\ mpc' = "greet" /\ connected' = connected + 1
        /\ UNCHANGED <<toServer, toClient, pc, todo, exitted, server, wsa, misuse, faults>>
    BY <1>6 DEF Count
  <2>2. Typing'
    BY <1>1, <2>1 DEF Typing
  <2>3. Started'
    BY <2>1 DEF Started, IInv, Shape
  <2> QED BY <1>2, <2>1, <2>2, <2>3
<1>7. CASE Greet \/ Refuse
  <2>1. mpc' = "await" /\ UNCHANGED <<connected, pc, todo, exitted>> /\ newClient \in Clients
    BY <1>7 DEF Greet, Refuse, IInv, Shape
  <2>2. toClient' \in [Clients -> Seq({"welcome", "full", "reply"})]
    <3>1. UNCHANGED toClient \/ Deliver(newClient, "welcome") \/ Deliver(newClient, "full")
      BY <1>7 DEF Greet, Refuse
    <3>2. CASE Deliver(newClient, "welcome")
      BY <2>1, <3>2, DeliverTypes
    <3>3. CASE Deliver(newClient, "full")
      BY <2>1, <3>3, DeliverTypes
    <3> QED BY <3>1, <3>2, <3>3 DEF Typing
  <2>3. /\ server' \in {"live", "freed"} /\ wsa' \in BOOLEAN /\ (wsa' => wsa /\ UNCHANGED toServer)
        /\ misuse' \subseteq {"client", "server", "borrowed"}
        /\ toServer' \in [Clients -> Seq(Items)]
    <3>1. /\ \/ UNCHANGED <<server, wsa, toServer>>
             \/ server' = "freed" /\ wsa' = FALSE /\ toServer' = [c \in Clients |-> <<>>]
          /\ misuse' \subseteq misuse \cup {"client", "server"}
      <4>1. CASE Greet
        BY <4>1 DEF Greet, Collapse, ServerFails
      <4>2. CASE Refuse
        BY <4>2 DEF Refuse, ServerFails
      <4> QED BY <1>7, <4>1, <4>2
    <3>2. toServer' \in [Clients -> Seq(Items)]
      <4>1. toServer \in [Clients -> Seq(Items)] /\ <<>> \in Seq(Items)
        BY EmptySeq DEF Typing, Items
      <4>2. CASE UNCHANGED toServer
        BY <4>1, <4>2
      <4>3. CASE toServer' = [c \in Clients |-> <<>>]
        BY <4>1, <4>3
      <4> QED BY <3>1, <4>2, <4>3
    <3>3. misuse' \subseteq {"client", "server", "borrowed"}
      BY <3>1 DEF Typing
    <3>4. server' \in {"live", "freed"} /\ wsa' \in BOOLEAN /\ (wsa' => wsa /\ UNCHANGED toServer)
      <4>1. CASE UNCHANGED <<server, wsa, toServer>>
        BY <4>1 DEF Typing
      <4>2. CASE server' = "freed" /\ wsa' = FALSE
        BY <4>2
      <4> QED BY <3>1, <4>1, <4>2
    <3> QED BY <3>2, <3>3, <3>4
  <2>4. faults' \in 0..MaxFaults
    <3>1. UNCHANGED faults \/ Fault("memory")
      BY <1>7 DEF Greet, Refuse, CallMayFail
    <3> QED BY <3>1, FaultTypes
  <2>5. Typing'
    BY <1>1, <2>1, <2>2, <2>3, <2>4 DEF Typing, Items
  <2> QED BY <1>2, <1>3, <2>1, <2>3, <2>5
<1>8. CASE Cleanup
  <2>1. /\ mpc' = "exited" /\ server' = "freed" /\ wsa' = FALSE /\ connected' = 0
        /\ toServer' = [c \in Clients |-> <<>>] /\ todo' = [c \in Clients |-> <<>>]
        /\ exitted' = [c \in Clients |-> FALSE]
        /\ UNCHANGED toClient
        /\ misuse' \subseteq misuse \cup {"server"}
    BY <1>8 DEF Cleanup, ServerFails
  <2>2. faults' \in 0..MaxFaults
    <3>1. UNCHANGED faults \/ Fault("memory") \/ Fault("thread")
      BY <1>8 DEF Cleanup
    <3> QED BY <3>1, FaultTypes
  <2>3. <<>> \in CallLists /\ <<>> \in Seq(Commands \cup {"text"})
    BY EmptySeq DEF CallLists
  <2>4. Typing'
    BY <1>1, <2>1, <2>2, <2>3 DEF Typing
  <2>5. InStep'
    BY <2>1 DEF InStep
  <2> QED BY <1>3, <2>1, <2>4, <2>5
<1> QED BY <1>4, <1>5, <1>6, <1>7, <1>8 DEF AcceptLoop

\* The types hold in every state.
LEMMA TypesHold == Spec => [](Typing /\ Started /\ InStep)
<1>1. IInv /\ (Typing /\ Started /\ InStep) /\ [Next]_vars => (Typing /\ Started /\ InStep)'
  <2> SUFFICES ASSUME IInv, Typing, Started, InStep, [Next]_vars
               PROVE  Typing' /\ Started' /\ InStep'
    OBVIOUS
  <2>1. CASE UNCHANGED vars
    <3>1. Typing'
      BY <2>1 DEF vars, clientVars, netVars, mainVars, threadVars, tableVars, heapVars, Typing
    <3>2. Served' = Served
      BY <2>1 DEF vars, threadVars, Served
    <3>3. Started'
      BY <2>1, <3>2 DEF vars, mainVars, threadVars, Started
    <3>4. InStep'
      BY <2>1 DEF vars, netVars, threadVars, tableVars, heapVars, InStep
    <3> QED BY <3>1, <3>3, <3>4
  <2>2. ASSUME NEW c \in Clients, ServeOneClient(c) PROVE Typing' /\ Started' /\ InStep'
    BY <2>2, ReceiveTypes, CallTypes, RunTypes, EndTypes DEF ServeOneClient
  <2>3. CASE Next
    BY <2>2, <2>3, ClientTypes, LoopTypes DEF Next
  <2> QED BY <2>1, <2>3
<1> QED BY <1>1, InitTypes, Inductive, PTL DEF Spec

\* Every variable has its type (TypeOK): the counter stays between zero and the
\* limit, and the calls of a thread are those of a command that has a handler.
THEOREM TypeCorrect == Spec => []TypeOK
<1>1. IInv /\ (Typing /\ Started /\ InStep) => TypeOK
  <2> SUFFICES ASSUME IInv, Typing, Started PROVE TypeOK
    OBVIOUS
  <2>1. connected \in 0..Limit
    BY ConnectionsAssumption DEF IInv, Shape, Counted, Uncounted, Started
  <2>2. todo \in [Clients -> Seq({"recv", "send", "insert", "remove", "lookup", "forward"})]
    BY DEF Typing, CallLists, Calls
  <2>3. toServer \in [Clients -> Seq(DOMAIN Handler \cup {"text"})]
    BY CommandsHandled DEF Typing
  <2> QED BY <2>1, <2>2, <2>3 DEF IInv, Shape, UserStates, Typing, TypeOK
<1> QED BY <1>1, TypesHold, Inductive, PTL

\* Until a call fails a thread that waits for a command finds no text of an earlier
\* one, whichever of the commands its client has typed, unless one of its handlers had
\* no memory for its texts (CommandsInStep).
THEOREM CommandsFound == Spec => []CommandsInStep
<1>1. Typing /\ InStep => CommandsInStep
  <2> SUFFICES ASSUME Typing, InStep, wsa,
                      NEW c \in Clients \ skipped, pc[c] = "command", toServer[c] # <<>>
               PROVE  Head(toServer[c]) # "text"
    BY DEF CommandsInStep
  <2>1. toServer[c] \in Seq(Items) /\ InFrames(toServer[c], 0)
    BY DEF Typing, InStep, Items
  <2>2. Head(toServer[c]) \in Commands
    BY <2>1, FramesTaken
  <2> QED BY <2>2 DEF Commands
<1> QED BY <1>1, TypesHold, PTL
=============================================================================
