---------------------------- MODULE SessionsProofs ----------------------------
(***************************************************************************)
(* What holds of the sessions for any set of clients and users and any       *)
(* number of commands: the types, whether users await their answers or not,  *)
(* and, where they do, that a client and the table agree.                    *)
(***************************************************************************)
EXTENDS Sessions, SequenceTheorems, FiniteSetTheorems, TLAPS

---------------------------------------------------------------------------
(* The types, and the commands that are not answered.                       *)

Exits == {"exit", "exitLoggedIn"}

\* The places of a handler, with the commands it may be serving there.
ServedAt ==
  [command |-> Ops, credentials |-> {"login"}, find |-> {"login"}, insert |-> {"login"},
   remove |-> {"logout", "exitLoggedIn"}, list |-> {"list"}, self |-> {"msg"},
   lookup |-> {"msg", "broadcast"}, deliver |-> {"msg", "broadcast"},
   history |-> {"history"}, below |-> {"historyBelow"},
   answer |-> {"login", "logout", "msg", "broadcast", "history"}, bye |-> Exits, abandon |-> Exits,
   ended |-> Exits]

Shape ==
  /\ TypeOK
  /\ pc \in [Clients -> DOMAIN ServedAt]
  /\ IsFiniteSet(sessions)
  /\ \A c \in Clients :
       /\ req[c].op \in ServedAt[pc[c]]
       /\ lastOp[c] = "login" => logged[c] = 0
       /\ req[c].op = "login" => req[c].user \in Users
       /\ \A r \in ToSet(toServer[c]) : r.op = "login" => r.user \in Users

\* The handler serves a command that it has still to answer.
Working(c) == pc[c] \notin {"command", "list", "below", "abandon", "ended"}

\* How many elements of a sequence are in a set.
Hits(q, P) == Cardinality({i \in 1..Len(q) : q[i] \in P})

Questions == {r \in Requests : r.op \notin Unawaited}
AnswerTexts == {text \in Texts : Answers(text)}

\* Every awaited command that was not seen answered is in one place.
Counted ==
  \A c \in Clients :
    asked[c] = Hits(toServer[c], Questions) + (IF Working(c) THEN 1 ELSE 0)
                 + Hits(toClient[c], AnswerTexts)

TInv == Shape /\ Counted

---------------------------------------------------------------------------
(* Where users await their answers.                                         *)

\* A command of this kind is under way, from its typing to its answer.
Pend(c, op) ==
  \/ \E r \in ToSet(toServer[c]) : r.op = op
  \/ Working(c) /\ req[c].op = op
  \/ \E text \in ToSet(toClient[c]) : text.to = op

Waited == \A c \in Clients : asked[c] <= 1

\* What the client remembers of the command under way.
MatchedAt(c) ==
  /\ lastOp[c] = "login" => Pend(c, "login")
  /\ Pend(c, "login") /\ c \notin overtaken => lastOp[c] = "login"
  /\ Pend(c, "login") \/ Pend(c, "logout") \/ Pend(c, "exit") => logged[c] = 0
  /\ on[c] = "on" => ~ Pend(c, "exit") /\ ~ Pend(c, "exitLoggedIn")
  /\ on[c] # "on" => ~ Pend(c, "login") /\ ~ Pend(c, "logout")
  /\ \A text \in ToSet(toClient[c]) : text.says = "Success" => Answers(text)

\* An exit is the last command, and what a login or a logout is about.
AddressedAt(c) ==
  /\ \A i \in 1..Len(toServer[c]) : toServer[c][i].op \in Exits => i = Len(toServer[c])
  /\ req[c].op \in Exits => toServer[c] = <<>> /\ on[c] # "on"
  /\ req[c].op = "exit" => logged[c] = 0
  /\ \A r \in ToSet(toServer[c]) :
       r.op \in {"login", "logout", "exitLoggedIn"} => r.user = name[c]
  /\ Working(c) /\ req[c].op \in {"login", "logout", "exitLoggedIn"} => req[c].user = name[c]
  /\ pc[c] \in {"credentials", "find", "insert"} => answer[c] = "Success"
  /\ obj[c] = "live" <=> pc[c] # "ended"

Matched == \A c \in Clients : MatchedAt(c)
Addressed == \A c \in Clients : AddressedAt(c)

\* The session was inserted, and the client has not read so.
Entered(c) ==
  \/ pc[c] = "answer" /\ req[c].op = "login" /\ answer[c] = "Success"
  \/ \E text \in ToSet(toClient[c]) : text.says = "Success" /\ text.to = "login"

\* The client has asked for the removal of the session, and it was not removed.
Leaving(c) ==
  \/ \E r \in ToSet(toServer[c]) : r.op \in {"logout", "exitLoggedIn"}
  \/ pc[c] = "remove"

\* Whether the client should have a session, under its name.
In(c) ==
  \/ Entered(c) \/ Leaving(c)
  \/ logged[c] = 1 /\ ~ (req[c].op = "exitLoggedIn" /\ pc[c] \in {"bye", "abandon", "ended"})

Kept ==
  /\ \A s, t \in sessions : s[1] = t[1] /\ s[1] \notin disputed => s = t
  /\ \A c \in Clients, u \in Users \ disputed :
       In(c) /\ name[c] = u => <<u, c>> \in sessions
  /\ \A c \in Clients \ overtaken, u \in Users \ disputed :
       <<u, c>> \in sessions => In(c) /\ name[c] = u

PInv == Waited /\ Matched /\ Addressed /\ Kept

---------------------------------------------------------------------------
(* Lemmas about queues.                                                     *)

\* Appending an element adds it to the set of a sequence.
LEMMA SetOfAppend ==
  ASSUME NEW S, NEW q \in Seq(S), NEW x \in S
  PROVE  ToSet(Append(q, x)) = ToSet(q) \cup {x}
<1>1. /\ Len(q) \in Nat /\ DOMAIN q = 1..Len(q)
      /\ DOMAIN Append(q, x) = 1..(Len(q) + 1)
      /\ \A i \in 1..Len(q) : Append(q, x)[i] = q[i]
      /\ Append(q, x)[Len(q) + 1] = x
  BY AppendProperties, LenProperties
<1>2. ASSUME NEW y \in ToSet(Append(q, x)) PROVE y \in ToSet(q) \cup {x}
  <2>1. PICK i \in 1..(Len(q) + 1) : Append(q, x)[i] = y
    BY <1>1, <1>2 DEF ToSet
  <2> QED BY <1>1, <2>1 DEF ToSet
<1>3. x \in ToSet(Append(q, x))
  <2>1. Len(q) + 1 \in 1..(Len(q) + 1)
    BY <1>1
  <2> QED BY <1>1, <2>1 DEF ToSet
<1>4. ASSUME NEW y \in ToSet(q) PROVE y \in ToSet(Append(q, x))
  <2>1. PICK i \in 1..Len(q) : q[i] = y
    BY <1>1, <1>4 DEF ToSet
  <2>2. i \in 1..(Len(q) + 1) /\ Append(q, x)[i] = y
    BY <1>1, <2>1
  <2> QED BY <1>1, <2>2 DEF ToSet
<1> QED BY <1>2, <1>3, <1>4

\* The set of two sequences after each other is that of both.
LEMMA SetOfConcat ==
  ASSUME NEW S, NEW q \in Seq(S), NEW t \in Seq(S)
  PROVE  ToSet(q \o t) = ToSet(q) \cup ToSet(t)
<1>1. /\ Len(q) \in Nat /\ Len(t) \in Nat
      /\ DOMAIN q = 1..Len(q) /\ DOMAIN t = 1..Len(t)
      /\ DOMAIN (q \o t) = 1..(Len(q) + Len(t))
      /\ \A i \in 1..(Len(q) + Len(t)) :
           (q \o t)[i] = IF i <= Len(q) THEN q[i] ELSE t[i - Len(q)]
  <2>1. q \o t \in Seq(S) /\ Len(q \o t) = Len(q) + Len(t)
    BY ConcatProperties
  <2> QED BY <2>1, ConcatProperties, LenProperties
<1>2. ToSet(q \o t) \subseteq ToSet(q) \cup ToSet(t)
  BY <1>1 DEF ToSet
<1>3. ToSet(q) \subseteq ToSet(q \o t)
  BY <1>1 DEF ToSet
<1>4. ASSUME NEW i \in 1..Len(t) PROVE t[i] \in ToSet(q \o t)
  <2>1. Len(q) + i \in 1..(Len(q) + Len(t)) /\ (q \o t)[Len(q) + i] = t[i]
    BY <1>1
  <2> QED BY <1>1, <2>1 DEF ToSet
<1> QED BY <1>1, <1>2, <1>3, <1>4 DEF ToSet

\* The set of a sequence is its head and the set of its tail.
LEMMA SetOfTail ==
  ASSUME NEW S, NEW q \in Seq(S), q # <<>>
  PROVE  /\ Head(q) \in S /\ Tail(q) \in Seq(S)
         /\ ToSet(q) = {Head(q)} \cup ToSet(Tail(q))
<1>1. /\ Len(q) \in Nat \ {0} /\ DOMAIN q = 1..Len(q)
      /\ DOMAIN Tail(q) = 1..(Len(q) - 1)
      /\ \A i \in 1..(Len(q) - 1) : Tail(q)[i] = q[i + 1]
      /\ Head(q) = q[1] /\ Head(q) \in S /\ Tail(q) \in Seq(S)
  BY HeadTailProperties, EmptySeq, LenProperties
<1>2. ASSUME NEW i \in 1..Len(q) PROVE q[i] \in {Head(q)} \cup ToSet(Tail(q))
  <2>1. CASE i = 1
    BY <1>1, <2>1
  <2>2. CASE i # 1
    <3>1. i - 1 \in 1..(Len(q) - 1) /\ Tail(q)[i - 1] = q[i]
      BY <1>1, <2>2
    <3> QED BY <1>1, <3>1 DEF ToSet
  <2> QED BY <2>1, <2>2
<1>3. ASSUME NEW i \in 1..(Len(q) - 1) PROVE Tail(q)[i] \in ToSet(q)
  <2>1. i + 1 \in 1..Len(q) /\ q[i + 1] = Tail(q)[i]
    BY <1>1
  <2> QED BY <1>1, <2>1 DEF ToSet
<1>4. Head(q) \in ToSet(q)
  <2>1. 1 \in 1..Len(q)
    BY <1>1
  <2> QED BY <1>1, <2>1 DEF ToSet
<1>5. ToSet(q) = {q[i] : i \in 1..Len(q)} /\ ToSet(Tail(q)) = {Tail(q)[i] : i \in 1..(Len(q) - 1)}
  BY <1>1 DEF ToSet
<1> QED BY <1>1, <1>2, <1>3, <1>4, <1>5

\* The hits are finitely many, none in an empty sequence.
LEMMA HitsType ==
  ASSUME NEW S, NEW q \in Seq(S), NEW P
  PROVE  /\ IsFiniteSet({i \in 1..Len(q) : q[i] \in P}) /\ Hits(q, P) \in Nat
         /\ Hits(<<>>, P) = 0
<1> DEFINE I == {i \in 1..Len(q) : q[i] \in P}
<1>1. Len(q) \in Nat
  BY LenProperties
<1>2. IsFiniteSet(1..Len(q)) /\ I \in SUBSET (1..Len(q))
  BY <1>1, FS_Interval
<1>3. IsFiniteSet(I)
  BY <1>2, FS_Subset
<1>4. {i \in 1..Len(<<>>) : <<>>[i] \in P} = {}
  <2>1. Len(<<>>) = 0
    BY EmptySeq
  <2> QED BY <2>1
<1> QED BY <1>3, <1>4, FS_CardinalityType, FS_EmptySet DEF Hits

\* Where there is no hit, no element is one; with one hit at most, hits are equal.
LEMMA HitsFew ==
  ASSUME NEW S, NEW q \in Seq(S), NEW P
  PROVE  /\ Hits(q, P) = 0 => ToSet(q) \cap P = {}
         /\ Hits(q, P) <= 1 => \A x, y \in ToSet(q) \cap P : x = y
<1> DEFINE I == {i \in 1..Len(q) : q[i] \in P}
<1>1. IsFiniteSet(I) /\ Hits(q, P) = Cardinality(I) /\ Hits(q, P) \in Nat
  BY HitsType DEF Hits
<1>2. \A x \in ToSet(q) \cap P : \E i \in I : q[i] = x
  <2>1. DOMAIN q = 1..Len(q)
    BY LenProperties
  <2> QED BY <2>1 DEF ToSet
<1> HIDE DEF I
<1>3. ASSUME Hits(q, P) = 0 PROVE ToSet(q) \cap P = {}
  <2>1. I = {}
    BY <1>1, <1>3, FS_EmptySet
  <2> QED BY <1>2, <2>1
<1>4. ASSUME Hits(q, P) <= 1, NEW x \in ToSet(q) \cap P, NEW y \in ToSet(q) \cap P
      PROVE  x = y
  <2>1. Cardinality(I) \in {0, 1}
    BY <1>1, <1>4
  <2>2. I = {} \/ \E i : I = {i}
    BY <1>1, <2>1, FS_EmptySet, FS_Singleton
  <2> QED BY <1>2, <2>2
<1> QED BY <1>3, <1>4

\* What is appended counts when it is a hit.
LEMMA HitsAppend ==
  ASSUME NEW S, NEW q \in Seq(S), NEW x \in S, NEW P
  PROVE  Hits(Append(q, x), P) = Hits(q, P) + (IF x \in P THEN 1 ELSE 0)
<1> DEFINE I == {i \in 1..Len(q) : q[i] \in P}
           J == {i \in 1..(Len(q) + 1) : Append(q, x)[i] \in P}
<1>1. /\ Len(q) \in Nat /\ Len(Append(q, x)) = Len(q) + 1
      /\ \A i \in 1..Len(q) : Append(q, x)[i] = q[i]
      /\ Append(q, x)[Len(q) + 1] = x
  BY AppendProperties, LenProperties
<1>2. IsFiniteSet(I) /\ Hits(q, P) = Cardinality(I) /\ Cardinality(I) \in Nat
  BY HitsType DEF Hits
<1>3. Hits(Append(q, x), P) = Cardinality(J)
  BY <1>1 DEF Hits
<1>4. J = IF x \in P THEN I \cup {Len(q) + 1} ELSE I
  BY <1>1
<1>5. Len(q) + 1 \notin I
  BY <1>1
<1> HIDE DEF I, J
<1>6. Cardinality(I \cup {Len(q) + 1}) = Cardinality(I) + 1
  BY <1>2, <1>5, FS_AddElement
<1>7. CASE x \in P
  BY <1>2, <1>3, <1>4, <1>6, <1>7
<1>8. CASE x \notin P
  BY <1>2, <1>3, <1>4, <1>8
<1> QED BY <1>7, <1>8

\* A sequence without hits adds none.
LEMMA HitsConcat ==
  ASSUME NEW S, NEW q \in Seq(S), NEW t \in Seq(S), NEW P, ToSet(t) \cap P = {}
  PROVE  Hits(q \o t, P) = Hits(q, P)
<1>1. /\ Len(q) \in Nat /\ Len(t) \in Nat /\ DOMAIN t = 1..Len(t)
      /\ Len(q \o t) = Len(q) + Len(t)
      /\ \A i \in 1..(Len(q) + Len(t)) :
           (q \o t)[i] = IF i <= Len(q) THEN q[i] ELSE t[i - Len(q)]
  BY ConcatProperties, LenProperties
<1>2. \A i \in 1..Len(t) : t[i] \notin P
  BY <1>1 DEF ToSet
<1>3. {i \in 1..Len(q \o t) : (q \o t)[i] \in P} = {i \in 1..Len(q) : q[i] \in P}
  BY <1>1, <1>2
<1> QED BY <1>3 DEF Hits

\* What is taken from the front counts no more.
LEMMA HitsTail ==
  ASSUME NEW S, NEW q \in Seq(S), q # <<>>, NEW P
  PROVE  Hits(q, P) = Hits(Tail(q), P) + (IF Head(q) \in P THEN 1 ELSE 0)
<1> DEFINE I == {i \in 1..(Len(q) - 1) : Tail(q)[i] \in P}
           K == {i \in 2..Len(q) : q[i] \in P}
           J == {i \in 1..Len(q) : q[i] \in P}
           f == [i \in I |-> i + 1]
<1>1. /\ Len(q) \in Nat \ {0} /\ Len(Tail(q)) = Len(q) - 1
      /\ \A i \in 1..(Len(q) - 1) : Tail(q)[i] = q[i + 1]
      /\ Head(q) = q[1] /\ Tail(q) \in Seq(S)
  BY HeadTailProperties, EmptySeq
<1>2. IsFiniteSet(I) /\ Hits(Tail(q), P) = Cardinality(I) /\ Cardinality(I) \in Nat
  BY <1>1, HitsType DEF Hits
<1>3. Hits(q, P) = Cardinality(J)
  BY DEF Hits
<1>4. \A i \in I : i + 1 \in K
  BY <1>1
<1>5. \A k \in K : k - 1 \in I
  BY <1>1
<1>6. I \subseteq Int /\ K \subseteq Int
  BY <1>1
<1>7. J = (IF Head(q) \in P THEN K \cup {1} ELSE K) /\ 1 \notin K
  BY <1>1
<1> HIDE DEF I, J, K
<1>8. f \in Bijection(I, K)
  <2>1. f \in [I -> K]
    BY <1>4
  <2>2. \A a, b \in I : f[a] = f[b] => a = b
    BY <1>6
  <2>3. \A k \in K : \E a \in I : f[a] = k
    <3>1. ASSUME NEW k \in K PROVE \E a \in I : f[a] = k
      <4>1. k - 1 \in I /\ (k - 1) + 1 = k
        BY <1>5, <1>6
      <4>2. f[k - 1] = k
        BY <4>1
      <4> QED BY <4>1, <4>2
    <3> QED BY <3>1
  <2> HIDE DEF f
  <2> QED BY <2>1, <2>2, <2>3 DEF Bijection, Injection, Surjection, IsInjective
<1>9. IsFiniteSet(K) /\ Cardinality(K) = Cardinality(I)
  BY <1>2, <1>8, FS_Bijection DEF ExistsBijection
<1>10. Cardinality(K \cup {1}) = Cardinality(K) + 1
  BY <1>7, <1>9, FS_AddElement
<1>11. CASE Head(q) \in P
  BY <1>2, <1>3, <1>7, <1>9, <1>10, <1>11
<1>12. CASE Head(q) \notin P
  BY <1>2, <1>3, <1>7, <1>9, <1>12
<1> QED BY <1>11, <1>12

---------------------------------------------------------------------------
(* The types.                                                               *)

\* The places of a handler.
LEMMA PlacesAre ==
  DOMAIN ServedAt = {"command", "credentials", "find", "insert", "remove", "list", "self",
                     "lookup", "deliver", "history", "below", "answer", "bye", "abandon", "ended"}
BY DEF ServedAt

\* Nothing is typed or under way at first.
LEMMA InitTypes == Init => TInv
<1> SUFFICES ASSUME Init PROVE TInv
  OBVIOUS
<1>1. TypeOK
  <2>1. <<>> \in Seq(Requests) /\ <<>> \in Seq(Texts)
    BY EmptySeq
  <2>2. [op |-> "list", from |-> NoUser, user |-> NoUser] \in Requests
    BY DEF Requests, Ops
  <2> QED BY <2>1, <2>2, SessionsAssumption DEF Init, TypeOK, Request
<1>2. Shape
  <2>1. \A c \in Clients : ToSet(toServer[c]) = {}
    BY DEF Init, ToSet
  <2>2. \A c \in Clients : pc[c] = "command" /\ req[c].op = "list" /\ lastOp[c] = "none"
    BY DEF Init, Request
  <2>3. "command" \in DOMAIN ServedAt /\ "list" \in ServedAt["command"]
    BY DEF ServedAt, Ops
  <2>4. pc \in [Clients -> DOMAIN ServedAt]
    BY <2>3 DEF Init
  <2>5. IsFiniteSet(sessions)
    BY FS_EmptySet DEF Init
  <2> QED BY <1>1, <2>1, <2>2, <2>3, <2>4, <2>5 DEF Shape
<1>3. Counted
  <2>1. \A c \in Clients : /\ Hits(toServer[c], Questions) = 0 /\ Hits(toClient[c], AnswerTexts) = 0
                           /\ asked[c] = 0 /\ ~ Working(c)
    <3>1. <<>> \in Seq({})
      BY EmptySeq
    <3>2. Hits(<<>>, Questions) = 0 /\ Hits(<<>>, AnswerTexts) = 0
      BY <3>1, HitsType
    <3> QED BY <3>2 DEF Init, Working
  <2> QED BY <2>1 DEF Counted
<1> QED BY <1>2, <1>3 DEF TInv

\* A command that was typed waits in the queue, and is counted.
LEMMA Asks ==
  ASSUME TInv, NEW c \in Clients, NEW r \in Requests,
         toServer' = [toServer EXCEPT ![c] = Append(@, r)],
         asked' = [asked EXCEPT ![c] = IF r.op \in Unawaited THEN @ ELSE @ + 1],
         UNCHANGED <<toClient, pc>>
  PROVE  /\ Counted' /\ asked' \in [Clients -> Nat] /\ toServer' \in [Clients -> Seq(Requests)]
         /\ \A d \in Clients :
              ToSet(toServer'[d]) = IF d = c THEN ToSet(toServer[c]) \cup {r}
                                    ELSE ToSet(toServer[d])
<1>1. /\ asked \in [Clients -> Nat] /\ toServer \in [Clients -> Seq(Requests)]
      /\ toServer[c] \in Seq(Requests) /\ toClient \in [Clients -> Seq(Texts)]
  BY DEF TInv, Shape, TypeOK
<1>2. /\ Append(toServer[c], r) \in Seq(Requests)
      /\ ToSet(Append(toServer[c], r)) = ToSet(toServer[c]) \cup {r}
  BY <1>1, SetOfAppend, AppendProperties
<1>3. Hits(Append(toServer[c], r), Questions)
        = Hits(toServer[c], Questions) + (IF r.op \notin Unawaited THEN 1 ELSE 0)
  <2>1. r \in Questions <=> r.op \notin Unawaited
    BY DEF Questions
  <2> QED BY <1>1, <2>1, HitsAppend
<1>4. /\ toServer' \in [Clients -> Seq(Requests)] /\ asked' \in [Clients -> Nat]
      /\ toServer'[c] = Append(toServer[c], r)
      /\ \A d \in Clients : d # c => toServer'[d] = toServer[d] /\ asked'[d] = asked[d]
      /\ asked'[c] = IF r.op \in Unawaited THEN asked[c] ELSE asked[c] + 1
  BY <1>1, <1>2
<1>5. \A d \in Clients : /\ Hits(toServer[d], Questions) \in Nat
                         /\ Hits(toClient[d], AnswerTexts) \in Nat
  BY <1>1, HitsType
<1>6. \A d \in Clients : (Working(d)' <=> Working(d)) /\ toClient'[d] = toClient[d]
  BY DEF Working
<1>7. ASSUME NEW d \in Clients
      PROVE  asked'[d] = Hits(toServer'[d], Questions) + (IF Working(d)' THEN 1 ELSE 0)
                           + Hits(toClient'[d], AnswerTexts)
  <2>1. asked[d] = Hits(toServer[d], Questions) + (IF Working(d) THEN 1 ELSE 0)
                     + Hits(toClient[d], AnswerTexts)
    BY DEF TInv, Counted
  <2>2. CASE d = c
    <3>1. CASE r.op \in Unawaited
      BY <1>3, <1>4, <1>5, <1>6, <2>1, <2>2, <3>1
    <3>2. CASE r.op \notin Unawaited
      <4>1. /\ Hits(toServer'[c], Questions) = Hits(toServer[c], Questions) + 1
            /\ asked'[c] = asked[c] + 1
        BY <1>3, <1>4, <3>2
      <4>2. /\ Hits(toClient'[c], AnswerTexts) = Hits(toClient[c], AnswerTexts)
            /\ (IF Working(c)' THEN 1 ELSE 0) = (IF Working(c) THEN 1 ELSE 0)
        BY <1>6
      <4>3. /\ Hits(toServer[c], Questions) \in Nat /\ Hits(toClient[c], AnswerTexts) \in Nat
            /\ (IF Working(c) THEN 1 ELSE 0) \in Nat
        BY <1>5
      <4> HIDE DEF Hits
      <4>4. asked'[c] = Hits(toServer'[c], Questions) + (IF Working(c)' THEN 1 ELSE 0)
                          + Hits(toClient'[c], AnswerTexts)
        BY <2>1, <2>2, <4>1, <4>2, <4>3
      <4> QED BY <2>2, <4>4
    <3> QED BY <3>1, <3>2
  <2>3. CASE d # c
    BY <1>4, <1>6, <2>1, <2>3
  <2> QED BY <2>2, <2>3
<1>8. Counted'
  BY <1>7 DEF Counted, Questions, AnswerTexts
<1> QED BY <1>2, <1>4, <1>8

\* The client's commands keep the types.
LEMMA UserTypes ==
  ASSUME TInv, NEW c \in Clients, User(c)
  PROVE  TInv'
<1>1. /\ TypeOK /\ NoUser \notin Users /\ name[c] \in Users \cup {NoUser}
      /\ Commands \subseteq Ops \ Exits
      /\ logged[c] \in 0..1
      /\ MaxTyped \in [Clients -> Nat]
  BY SessionsAssumption DEF TInv, Shape, TypeOK, Ops, Exits
<1>2. ASSUME NEW r \in Requests, Typing(c, r)
      PROVE  /\ Counted' /\ asked' \in [Clients -> Nat]
             /\ toServer' \in [Clients -> Seq(Requests)]
             /\ typed' \in [Clients -> Nat] /\ \A d \in Clients : typed'[d] <= MaxTyped[d]
             /\ \A d \in Clients :
                  ToSet(toServer'[d]) = IF d = c THEN ToSet(toServer[c]) \cup {r}
                                        ELSE ToSet(toServer[d])
             /\ UNCHANGED <<on, deaf, toClient, serverVars, overtaken>>
  <2>1. UNCHANGED <<toClient, pc>>
    BY <1>2 DEF Typing, serverVars
  <2>2. /\ toServer' = [toServer EXCEPT ![c] = Append(@, r)]
        /\ asked' = [asked EXCEPT ![c] = IF r.op \in Unawaited THEN @ ELSE @ + 1]
        /\ typed' = [typed EXCEPT ![c] = @ + 1] /\ typed[c] < MaxTyped[c]
        /\ UNCHANGED <<on, deaf, toClient, serverVars, overtaken>>
    BY <1>2 DEF Typing
  <2>3. typed' \in [Clients -> Nat] /\ \A d \in Clients : typed'[d] <= MaxTyped[d]
    BY <1>1, <2>2 DEF TypeOK
  <2> QED BY <2>1, <2>2, <2>3, Asks
<1>3. ASSUME NEW r \in Requests, Typing(c, r),
             r.op = "login" => r.user \in Users,
             logged' \in [Clients -> 0..1], name' \in [Clients -> Users \cup {NoUser}],
             lastOp' \in [Clients -> {"login", "none"}],
             \A d \in Clients : lastOp'[d] = "login" => logged'[d] = 0
      PROVE  TInv'
  <2>1. TypeOK'
    BY <1>1, <1>2, <1>3 DEF TypeOK, serverVars, handlerVars, historyVars
  <2>2. /\ pc' = pc /\ req' = req /\ sessions' = sessions
    BY <1>2, <1>3 DEF serverVars, handlerVars, historyVars
  <2>3. Shape'
    BY <1>2, <1>3, <2>1, <2>2 DEF TInv, Shape
  <2> QED BY <1>2, <1>3, <2>3 DEF TInv
<1>4. ASSUME NEW u \in Users, TypeLogin(c, u) PROVE TInv'
  <2>1. Request("login", NoUser, u) \in Requests /\ Request("login", NoUser, u).user = u
    BY DEF Request, Requests, Ops
  <2> QED BY <1>1, <1>3, <1>4, <2>1 DEF TypeLogin, TypeOK, TInv, Shape
<1>5. CASE TypeLogout(c)
  <2>1. Request("logout", NoUser, name[c]) \in Requests /\ Request("logout", NoUser, name[c]).op = "logout"
    BY <1>1 DEF Request, Requests, Ops
  <2>2. /\ logged \in [Clients -> 0..1] /\ logged[c] = 1
        /\ logged' = [logged EXCEPT ![c] = @ - 1] /\ UNCHANGED <<lastOp, name>>
        /\ \A d \in Clients : lastOp[d] = "login" => logged[d] = 0
    BY <1>1, <1>5 DEF TypeLogout, TypeOK, TInv, Shape
  <2>3. /\ logged' \in [Clients -> 0..1]
        /\ \A d \in Clients : lastOp'[d] = "login" => logged'[d] = 0
    BY <2>2
  <2>4. name' \in [Clients -> Users \cup {NoUser}] /\ lastOp' \in [Clients -> {"login", "none"}]
    BY <1>1, <2>2 DEF TypeOK
  <2>5. Typing(c, Request("logout", NoUser, name[c]))
    BY <1>5 DEF TypeLogout
  <2> QED BY <1>3, <2>1, <2>3, <2>4, <2>5
<1>6. CASE TypeList(c)
  <2>1. Request("list", NoUser, NoUser) \in Requests /\ Request("list", NoUser, NoUser).op = "list"
    BY <1>1 DEF Request, Requests, Ops
  <2> QED BY <1>1, <1>3, <1>6, <2>1 DEF TypeList, TypeOK, TInv, Shape
<1>7. CASE TypeMessage(c)
  <2>1. ASSUME NEW u \in Users
        PROVE  Request("msg", name[c], u) \in Requests /\ Request("msg", name[c], u).op = "msg"
    BY <1>1 DEF Request, Requests, Ops
  <2>2. Request("broadcast", name[c], NoUser) \in Requests /\ Request("broadcast", name[c], NoUser).op = "broadcast"
    BY <1>1 DEF Request, Requests, Ops
  <2> QED BY <1>1, <1>3, <1>7, <2>1, <2>2 DEF TypeMessage, TypeOK, TInv, Shape
<1>9. CASE TypeHistory(c)
  <2>1. ASSUME NEW op \in {"history", "historyBelow"}
        PROVE  Request(op, name[c], NoUser) \in Requests /\ Request(op, name[c], NoUser).op = op
    BY <1>1 DEF Request, Requests, Ops
  <2> QED BY <1>1, <1>3, <1>9, <2>1 DEF TypeHistory, TypeOK, TInv, Shape
<1>8. CASE TypeExit(c)
  <2>1. PICK r \in Requests : /\ r.op \in {"exit", "exitLoggedIn"}
                              /\ toServer' = [toServer EXCEPT ![c] = Append(@, r)]
    <3>1. /\ Request("exitLoggedIn", NoUser, name[c]) \in Requests
          /\ Request("exit", NoUser, NoUser) \in Requests
          /\ Request("exitLoggedIn", NoUser, name[c]).op = "exitLoggedIn"
          /\ Request("exit", NoUser, NoUser).op = "exit"
      BY <1>1 DEF Request, Requests, Ops
    <3> QED BY <1>8, <3>1 DEF TypeExit
  <2>2. /\ asked' = [asked EXCEPT ![c] = IF r.op \in Unawaited THEN @ ELSE @ + 1]
        /\ UNCHANGED <<toClient, pc>>
    BY <1>8, <2>1 DEF TypeExit, serverVars, Unawaited
  <2>3. /\ Counted' /\ asked' \in [Clients -> Nat] /\ toServer' \in [Clients -> Seq(Requests)]
        /\ \A d \in Clients :
             ToSet(toServer'[d]) = IF d = c THEN ToSet(toServer[c]) \cup {r}
                                   ELSE ToSet(toServer[d])
    BY <2>1, <2>2, Asks
  <2>4. /\ on' = [on EXCEPT ![c] = IF c \in deaf THEN "left" ELSE "exiting"]
        /\ UNCHANGED <<logged, name, lastOp, typed, deaf, toClient, overtaken>>
        /\ UNCHANGED <<sessions, obj, pc, req, targets, target, answer, disputed>>
    BY <1>8 DEF TypeExit, serverVars, handlerVars, historyVars
  <2>5. TypeOK'
    BY <1>1, <2>3, <2>4 DEF TypeOK
  <2>6. Shape'
    BY <2>1, <2>3, <2>4, <2>5 DEF TInv, Shape
  <2> QED BY <2>3, <2>6 DEF TInv
<1> QED BY <1>4, <1>5, <1>6, <1>7, <1>8, <1>9 DEF User

\* Reading takes the first text, and an answer is no longer awaited.
LEMMA Reads ==
  ASSUME TInv, NEW c \in Clients, NEW text \in Texts, Reading(c, text)
  PROVE  /\ Counted' /\ asked' \in [Clients -> Nat] /\ toClient' \in [Clients -> Seq(Texts)]
         /\ text \in ToSet(toClient[c])
         /\ ToSet(toClient[c]) = {text} \cup ToSet(toClient'[c])
         /\ \A d \in Clients : d # c => toClient'[d] = toClient[d] /\ asked'[d] = asked[d]
         /\ asked'[c] = IF Answers(text) THEN asked[c] - 1 ELSE asked[c]
         /\ Answers(text) => asked[c] > 0
         /\ UNCHANGED <<name, typed, toServer, sessions, obj, pc, req, targets, target, answer,
                        disputed, misuse>>
<1>1. /\ asked \in [Clients -> Nat] /\ toClient \in [Clients -> Seq(Texts)]
      /\ toClient[c] \in Seq(Texts) /\ toClient[c] # <<>> /\ text = Head(toClient[c])
      /\ toClient' = [toClient EXCEPT ![c] = Tail(@)]
      /\ asked' = [asked EXCEPT ![c] = IF Answers(text) THEN @ - 1 ELSE @]
      /\ toServer \in [Clients -> Seq(Requests)]
  BY DEF Reading, TInv, Shape, TypeOK
<1>2. UNCHANGED <<name, typed, toServer, sessions, obj, pc, req, targets, target, answer,
                  disputed, misuse>>
  BY DEF Reading, serverVars, handlerVars, historyVars
<1>3. /\ Tail(toClient[c]) \in Seq(Texts)
      /\ ToSet(toClient[c]) = {text} \cup ToSet(Tail(toClient[c]))
  BY <1>1, SetOfTail
<1>4. Hits(toClient[c], AnswerTexts)
        = Hits(Tail(toClient[c]), AnswerTexts) + (IF Answers(text) THEN 1 ELSE 0)
  <2>1. text \in AnswerTexts <=> Answers(text)
    BY DEF AnswerTexts
  <2> QED BY <1>1, <2>1, HitsTail
<1>5. /\ toClient'[c] = Tail(toClient[c])
      /\ asked'[c] = IF Answers(text) THEN asked[c] - 1 ELSE asked[c]
      /\ \A d \in Clients : d # c => toClient'[d] = toClient[d] /\ asked'[d] = asked[d]
      /\ toClient' \in [Clients -> Seq(Texts)]
  BY <1>1, <1>3
<1>6. /\ \A d \in Clients : Hits(toServer[d], Questions) \in Nat
      /\ Hits(Tail(toClient[c]), AnswerTexts) \in Nat
  BY <1>1, <1>3, HitsType
<1>7. \A d \in Clients : (IF Working(d)' THEN 1 ELSE 0) = (IF Working(d) THEN 1 ELSE 0)
  BY <1>2 DEF Working
<1>8. \A d \in Clients :
        asked[d] = Hits(toServer[d], Questions) + (IF Working(d) THEN 1 ELSE 0)
                     + Hits(toClient[d], AnswerTexts)
  BY DEF TInv, Counted
<1>9. Answers(text) => asked[c] > 0
  <2> HIDE DEF Hits
  <2>1. (IF Working(c) THEN 1 ELSE 0) \in Nat
    OBVIOUS
  <2> QED BY <1>4, <1>6, <1>8, <2>1
<1>10. asked' \in [Clients -> Nat]
  BY <1>1, <1>9
<1>11. ASSUME NEW d \in Clients
       PROVE  asked'[d] = Hits(toServer'[d], Questions) + (IF Working(d)' THEN 1 ELSE 0)
                            + Hits(toClient'[d], AnswerTexts)
  <2>1. CASE d = c
    <3>1. Hits(toServer'[c], Questions) = Hits(toServer[c], Questions)
      BY <1>2
    <3>2. Hits(toClient'[c], AnswerTexts) = Hits(Tail(toClient[c]), AnswerTexts)
      BY <1>5
    <3>3. (IF Working(c) THEN 1 ELSE 0) \in Nat
      OBVIOUS
    <3> HIDE DEF Hits
    <3>4. CASE Answers(text)
      <4>1. /\ asked'[c] = asked[c] - 1
            /\ Hits(toClient[c], AnswerTexts) = Hits(Tail(toClient[c]), AnswerTexts) + 1
        BY <1>4, <1>5, <3>4
      <4>2. asked'[c] = Hits(toServer'[c], Questions) + (IF Working(c)' THEN 1 ELSE 0)
                          + Hits(toClient'[c], AnswerTexts)
        BY <1>6, <1>7, <1>8, <3>1, <3>2, <3>3, <4>1
      <4> QED BY <2>1, <4>2
    <3>5. CASE ~ Answers(text)
      <4>1. /\ asked'[c] = asked[c]
            /\ Hits(toClient[c], AnswerTexts) = Hits(Tail(toClient[c]), AnswerTexts)
        BY <1>4, <1>5, <1>6, <3>5
      <4>2. asked'[c] = Hits(toServer'[c], Questions) + (IF Working(c)' THEN 1 ELSE 0)
                          + Hits(toClient'[c], AnswerTexts)
        BY <1>6, <1>7, <1>8, <3>1, <3>2, <3>3, <4>1
      <4> QED BY <2>1, <4>2
    <3> QED BY <3>4, <3>5
  <2>2. CASE d # c
    BY <1>2, <1>5, <1>7, <1>8, <2>2
  <2> QED BY <2>1, <2>2
<1>12. Counted'
  BY <1>11 DEF Counted, Questions, AnswerTexts
<1>13. text \in ToSet(toClient[c])
  BY <1>3
<1> QED BY <1>2, <1>3, <1>5, <1>9, <1>10, <1>12, <1>13

\* FromServer keeps the types.
LEMMA ReadTypes ==
  ASSUME TInv, NEW c \in Clients, Read(c)
  PROVE  TInv'
<1>1. PICK text \in Texts :
        /\ Reading(c, text)
        /\ IF lastOp[c] = "login" /\ text.to \notin {"exit", "exitLoggedIn"}
           THEN /\ logged' = [logged EXCEPT ![c] = IF text.says = "Success" THEN @ + 1 ELSE @]
                /\ lastOp' = [lastOp EXCEPT ![c] = "none"]
           ELSE UNCHANGED <<logged, lastOp>>
  BY DEF Read
<1>2. /\ Counted' /\ asked' \in [Clients -> Nat] /\ toClient' \in [Clients -> Seq(Texts)]
      /\ UNCHANGED <<name, typed, toServer, sessions, obj, pc, req, targets, target, answer,
                     disputed, misuse>>
  BY <1>1, Reads
<1>3. /\ TypeOK /\ \A d \in Clients : lastOp[d] = "login" => logged[d] = 0
  BY DEF TInv, Shape
<1>4. /\ on' \in [Clients -> {"on", "exiting", "left"}]
      /\ overtaken' \subseteq Clients /\ deaf' \subseteq Clients
  BY <1>1, <1>3 DEF Reading, TypeOK
<1>5. /\ logged' \in [Clients -> 0..1] /\ lastOp' \in [Clients -> {"login", "none"}]
      /\ \A d \in Clients : lastOp'[d] = "login" => logged'[d] = 0
  <2>1. logged \in [Clients -> 0..1] /\ lastOp \in [Clients -> {"login", "none"}]
    BY <1>3 DEF TypeOK
  <2>2. CASE lastOp[c] = "login" /\ text.to \notin {"exit", "exitLoggedIn"}
    <3>1. /\ logged' = [logged EXCEPT ![c] = IF text.says = "Success" THEN @ + 1 ELSE @]
          /\ lastOp' = [lastOp EXCEPT ![c] = "none"]
      BY <1>1, <2>2
    <3>2. logged[c] = 0 /\ lastOp'[c] = "none"
      BY <1>3, <2>1, <2>2, <3>1
    <3>3. logged' \in [Clients -> 0..1]
      BY <2>1, <3>1, <3>2
    <3> QED BY <1>3, <2>1, <3>1, <3>2, <3>3
  <2>3. CASE ~ (lastOp[c] = "login" /\ text.to \notin {"exit", "exitLoggedIn"})
    BY <1>1, <1>3, <2>1, <2>3
  <2> QED BY <2>2, <2>3
<1>6. TypeOK'
  BY <1>2, <1>3, <1>4, <1>5 DEF TypeOK
<1>7. Shape'
  BY <1>2, <1>5, <1>6 DEF TInv, Shape
<1> QED BY <1>2, <1>7 DEF TInv

\* Texts that are sent come behind those under way.
LEMMA Says ==
  ASSUME toClient \in [Clients -> Seq(Texts)], NEW d \in Clients, NEW texts \in Seq(Texts),
         Say(d, texts)
  PROVE  /\ toClient' \in [Clients -> Seq(Texts)]
         /\ \A e \in Clients :
              ToSet(toClient'[e]) = IF e = d THEN ToSet(toClient[d]) \cup ToSet(texts)
                                    ELSE ToSet(toClient[e])
         /\ ToSet(texts) \cap AnswerTexts = {} =>
              \A e \in Clients : Hits(toClient'[e], AnswerTexts) = Hits(toClient[e], AnswerTexts)
<1>1. toClient' = [toClient EXCEPT ![d] = @ \o texts] /\ toClient[d] \in Seq(Texts)
  BY DEF Say
<1>2. toClient[d] \o texts \in Seq(Texts)
  BY <1>1, ConcatProperties
<1>3. /\ toClient' \in [Clients -> Seq(Texts)] /\ toClient'[d] = toClient[d] \o texts
      /\ \A e \in Clients : e # d => toClient'[e] = toClient[e]
  BY <1>1, <1>2
<1>4. ToSet(toClient[d] \o texts) = ToSet(toClient[d]) \cup ToSet(texts)
  BY <1>1, SetOfConcat
<1>5. ToSet(texts) \cap AnswerTexts = {} =>
        Hits(toClient[d] \o texts, AnswerTexts) = Hits(toClient[d], AnswerTexts)
  BY <1>1, HitsConcat
<1>6. ASSUME NEW e \in Clients
      PROVE  /\ ToSet(toClient'[e]) = IF e = d THEN ToSet(toClient[d]) \cup ToSet(texts)
                                      ELSE ToSet(toClient[e])
             /\ ToSet(texts) \cap AnswerTexts = {} =>
                  Hits(toClient'[e], AnswerTexts) = Hits(toClient[e], AnswerTexts)
  <2>1. CASE e = d
    BY <1>3, <1>4, <1>5, <2>1
  <2>2. CASE e # d
    BY <1>3, <2>2
  <2> QED BY <2>1, <2>2
<1> QED BY <1>3, <1>6

\* An answer that is sent ends the handler's work, and is counted in its place.
LEMMA AnswerCounted ==
  ASSUME TInv, NEW c \in Clients, NEW text \in Texts, Answers(text), Say(c, <<text>>),
         Working(c), ~ Working(c)', \A d \in Clients : d # c => (Working(d)' <=> Working(d)),
         UNCHANGED <<asked, toServer>>
  PROVE  /\ Counted' /\ toClient' \in [Clients -> Seq(Texts)]
         /\ \A d \in Clients :
              ToSet(toClient'[d]) = IF d = c THEN ToSet(toClient[c]) \cup {text}
                                    ELSE ToSet(toClient[d])
<1>1. /\ toClient \in [Clients -> Seq(Texts)] /\ toClient[c] \in Seq(Texts)
      /\ toServer \in [Clients -> Seq(Requests)]
      /\ asked \in [Clients -> Nat]
  BY DEF TInv, Shape, TypeOK
<1>2. <<text>> \in Seq(Texts) /\ ToSet(<<text>>) = {text}
  BY DEF ToSet
<1>3. /\ toClient' \in [Clients -> Seq(Texts)]
      /\ \A d \in Clients :
           ToSet(toClient'[d]) = IF d = c THEN ToSet(toClient[c]) \cup {text}
                                 ELSE ToSet(toClient[d])
  BY <1>1, <1>2, Says
<1>4. /\ toClient'[c] = Append(toClient[c], text)
      /\ \A d \in Clients : d # c => toClient'[d] = toClient[d]
  <2>1. toClient[c] \o <<text>> = Append(toClient[c], text)
    BY <1>1, AppendIsConcat
  <2> QED BY <1>1, <2>1 DEF Say
<1>5. Hits(toClient'[c], AnswerTexts) = Hits(toClient[c], AnswerTexts) + 1
  <2>1. text \in AnswerTexts
    BY DEF AnswerTexts
  <2> QED BY <1>1, <1>4, <2>1, HitsAppend
<1>6. \A d \in Clients : Hits(toServer[d], Questions) \in Nat /\ Hits(toClient[d], AnswerTexts) \in Nat
  BY <1>1, HitsType
<1>7. \A d \in Clients :
        asked[d] = Hits(toServer[d], Questions) + (IF Working(d) THEN 1 ELSE 0)
                     + Hits(toClient[d], AnswerTexts)
  BY DEF TInv, Counted
<1>8. ASSUME NEW d \in Clients
      PROVE  asked'[d] = Hits(toServer'[d], Questions) + (IF Working(d)' THEN 1 ELSE 0)
                           + Hits(toClient'[d], AnswerTexts)
  <2>1. CASE d = c
    <3>1. Hits(toServer'[c], Questions) = Hits(toServer[c], Questions) /\ asked'[c] = asked[c]
      OBVIOUS
    <3>2. (IF Working(c) THEN 1 ELSE 0) = 1 /\ (IF Working(c)' THEN 1 ELSE 0) = 0
      OBVIOUS
    <3> HIDE DEF Hits
    <3>3. asked'[c] = Hits(toServer'[c], Questions) + (IF Working(c)' THEN 1 ELSE 0)
                        + Hits(toClient'[c], AnswerTexts)
      BY <1>5, <1>6, <1>7, <3>1, <3>2
    <3> QED BY <2>1, <3>3
  <2>2. CASE d # c
    BY <1>4, <1>7, <2>2
  <2> QED BY <2>1, <2>2
<1>9. Counted'
  BY <1>8 DEF Counted, Questions, AnswerTexts
<1> QED BY <1>3, <1>9

\* A handler that goes on with its work changes nothing of what is awaited.
LEMMA QuietCounted ==
  ASSUME TInv, UNCHANGED <<asked, toServer>>,
         \A d \in Clients : Working(d)' <=> Working(d),
         \A d \in Clients : Hits(toClient'[d], AnswerTexts) = Hits(toClient[d], AnswerTexts)
  PROVE  Counted'
<1>1. \A d \in Clients :
        asked[d] = Hits(toServer[d], Questions) + (IF Working(d) THEN 1 ELSE 0)
                     + Hits(toClient[d], AnswerTexts)
  BY DEF TInv, Counted
<1>2. \A d \in Clients :
        asked'[d] = Hits(toServer'[d], Questions) + (IF Working(d)' THEN 1 ELSE 0)
                     + Hits(toClient'[d], AnswerTexts)
  BY <1>1
<1> QED BY <1>2 DEF Counted, Questions, AnswerTexts

\* What a handler receives is counted as its work.
LEMMA ReceiveTypes ==
  ASSUME TInv, NEW c \in Clients, Receive(c)
  PROVE  /\ TInv'
         /\ req'[c] \in ToSet(toServer[c]) /\ req'[c] = Head(toServer[c])
         /\ ToSet(toServer[c]) = {req'[c]} \cup ToSet(toServer'[c])
         /\ \A d \in Clients : d # c => toServer'[d] = toServer[d]
         /\ Working(c)' <=> req'[c].op \notin Unawaited
<1> DEFINE r == Head(toServer[c])
<1>1. /\ toServer \in [Clients -> Seq(Requests)] /\ toServer[c] \in Seq(Requests)
      /\ toServer[c] # <<>> /\ toServer' = [toServer EXCEPT ![c] = Tail(@)]
      /\ pc[c] = "command" /\ pc' = [pc EXCEPT ![c] = Entry[r.op]]
      /\ req' = [req EXCEPT ![c] = r]
      /\ targets' = [targets EXCEPT ![c] =
                       IF r.op = "broadcast" THEN Users \ {r.from} ELSE {r.user} \ {NoUser}]
      /\ answer' = [answer EXCEPT ![c] = "Success"]
      /\ UNCHANGED <<on, logged, name, lastOp, asked, typed, deaf, toClient, sessions, obj, target,
                     overtaken, disputed, misuse>>
      /\ asked \in [Clients -> Nat] /\ toClient \in [Clients -> Seq(Texts)]
      /\ TypeOK /\ pc \in [Clients -> DOMAIN ServedAt]
  BY DEF Receive, Goto, TInv, Shape, TypeOK, clientVars, historyVars
<1>2. /\ r \in Requests /\ Tail(toServer[c]) \in Seq(Requests)
      /\ ToSet(toServer[c]) = {r} \cup ToSet(Tail(toServer[c]))
  BY <1>1, SetOfTail
<1>3. Hits(toServer[c], Questions)
        = Hits(Tail(toServer[c]), Questions) + (IF r.op \notin Unawaited THEN 1 ELSE 0)
  <2>1. r \in Questions <=> r.op \notin Unawaited
    BY <1>2 DEF Questions
  <2> QED BY <1>1, <2>1, HitsTail
<1>4. r.op \in Ops /\ r.user \in Users \cup {NoUser} /\ r.from \in Users \cup {NoUser}
  BY <1>2 DEF Requests
<1>5. /\ toServer'[c] = Tail(toServer[c]) /\ req'[c] = r /\ pc'[c] = Entry[r.op]
      /\ \A d \in Clients : d # c =>
           toServer'[d] = toServer[d] /\ req'[d] = req[d] /\ pc'[d] = pc[d]
      /\ toServer' \in [Clients -> Seq(Requests)]
  <2>1. req \in [Clients -> Requests]
    BY <1>1 DEF TypeOK
  <2> QED BY <1>1, <1>2, <2>1
<1>6. /\ Entry[r.op] \in DOMAIN ServedAt /\ r.op \in ServedAt[Entry[r.op]]
      /\ Entry[r.op] \notin {"command", "abandon", "ended"}
      /\ Entry[r.op] \in {"list", "below"} <=> r.op \in Unawaited
  BY <1>4 DEF Entry, ServedAt, Ops, Exits, Unawaited
<1>7. ~ Working(c) /\ (Working(c)' <=> r.op \notin Unawaited)
  BY <1>1, <1>5, <1>6 DEF Working
<1>8. TypeOK'
  <2>1. targets' \in [Clients -> SUBSET Users]
    BY <1>1, <1>4 DEF TypeOK
  <2>2. req' \in [Clients -> Requests] /\ answer' \in [Clients -> {"Success", "Error", "other", "nothing"}]
    BY <1>1, <1>2 DEF TypeOK
  <2> QED BY <1>1, <1>5, <2>1, <2>2 DEF TypeOK
<1>9. Shape'
  <2>1. pc' \in [Clients -> DOMAIN ServedAt]
    BY <1>1, <1>6
  <2>2. IsFiniteSet(sessions)'
    BY <1>1 DEF TInv, Shape
  <2>3. r.op = "login" => r.user \in Users
    BY <1>2 DEF TInv, Shape
  <2>4. \A d \in Clients : ToSet(toServer'[d]) \subseteq ToSet(toServer[d])
    BY <1>2, <1>5
  <2>5. \A d \in Clients : req'[d].op \in ServedAt[pc'[d]]
    BY <1>5, <1>6 DEF TInv, Shape
  <2>6. \A d \in Clients : lastOp'[d] = "login" => logged'[d] = 0
    BY <1>1 DEF TInv, Shape
  <2>7. \A d \in Clients : req'[d].op = "login" => req'[d].user \in Users
    BY <1>5, <2>3 DEF TInv, Shape
  <2>8. \A d \in Clients : \A q \in ToSet(toServer'[d]) : q.op = "login" => q.user \in Users
    BY <2>4 DEF TInv, Shape
  <2> HIDE DEF r
  <2> QED BY <1>8, <2>1, <2>2, <2>5, <2>6, <2>7, <2>8 DEF Shape
<1>10. Counted'
  <2>1. \A d \in Clients :
          asked[d] = Hits(toServer[d], Questions) + (IF Working(d) THEN 1 ELSE 0)
                       + Hits(toClient[d], AnswerTexts)
    BY DEF TInv, Counted
  <2>2. Hits(Tail(toServer[c]), Questions) \in Nat /\ Hits(toClient[c], AnswerTexts) \in Nat
    BY <1>1, <1>2, HitsType
  <2>3. asked'[c] = Hits(toServer'[c], Questions) + (IF Working(c)' THEN 1 ELSE 0)
                      + Hits(toClient'[c], AnswerTexts)
    <3>1. /\ Hits(toServer'[c], Questions) = Hits(Tail(toServer[c]), Questions)
          /\ Hits(toClient'[c], AnswerTexts) = Hits(toClient[c], AnswerTexts)
          /\ asked'[c] = asked[c] /\ (IF Working(c) THEN 1 ELSE 0) = 0
      BY <1>1, <1>5, <1>7
    <3>2. (IF Working(c)' THEN 1 ELSE 0) = (IF r.op \notin Unawaited THEN 1 ELSE 0)
      BY <1>7
    <3>3. (IF r.op \notin Unawaited THEN 1 ELSE 0) \in Nat
      OBVIOUS
    <3> HIDE DEF Hits, r
    <3> QED BY <1>3, <2>1, <2>2, <3>1, <3>2, <3>3
  <2>4. ASSUME NEW d \in Clients, d # c
        PROVE  asked'[d] = Hits(toServer'[d], Questions) + (IF Working(d)' THEN 1 ELSE 0)
                             + Hits(toClient'[d], AnswerTexts)
    <3>1. /\ asked'[d] = asked[d] /\ toServer'[d] = toServer[d] /\ toClient'[d] = toClient[d]
          /\ (IF Working(d)' THEN 1 ELSE 0) = (IF Working(d) THEN 1 ELSE 0)
      BY <1>1, <1>5, <2>4 DEF Working
    <3> QED BY <2>1, <3>1
  <2> HIDE DEF Hits
  <2>5. \A d \in Clients :
          asked'[d] = Hits(toServer'[d], Questions) + (IF Working(d)' THEN 1 ELSE 0)
                        + Hits(toClient'[d], AnswerTexts)
    BY <2>3, <2>4
  <2> QED BY <2>5 DEF Counted, Questions, AnswerTexts
<1> QED BY <1>2, <1>5, <1>7, <1>9, <1>10 DEF TInv

\* What the handler's step leaves of the other variables' types.
LEMMA GoesOn ==
  ASSUME TInv, NEW c \in Clients, NEW from, NEW to, Goto(c, from, to),
         to \in DOMAIN ServedAt, req[c].op \in ServedAt[to],
         UNCHANGED <<clientVars, toServer, req>>, TypeOK', IsFiniteSet(sessions')
  PROVE  /\ Shape'
         /\ pc[c] = from /\ pc'[c] = to /\ \A d \in Clients : d # c => pc'[d] = pc[d]
         /\ \A d \in Clients : d # c => (Working(d)' <=> Working(d))
         /\ Working(c) <=> from \notin {"command", "list", "below", "abandon", "ended"}
         /\ Working(c)' <=> to \notin {"command", "list", "below", "abandon", "ended"}
<1>1. pc \in [Clients -> DOMAIN ServedAt]
  BY DEF TInv, Shape
<1>2. /\ pc[c] = from /\ pc'[c] = to /\ \A d \in Clients : d # c => pc'[d] = pc[d]
      /\ pc' \in [Clients -> DOMAIN ServedAt]
  BY <1>1 DEF Goto
<1>3. \A d \in Clients : req'[d].op \in ServedAt[pc'[d]]
  BY <1>2 DEF TInv, Shape
<1>4. Shape'
  BY <1>2, <1>3 DEF TInv, Shape, clientVars
<1>5. /\ \A d \in Clients : d # c => (Working(d)' <=> Working(d))
      /\ Working(c) <=> from \notin {"command", "list", "below", "abandon", "ended"}
      /\ Working(c)' <=> to \notin {"command", "list", "below", "abandon", "ended"}
  BY <1>2 DEF Working
<1> QED BY <1>2, <1>4, <1>5

\* The steps of a login, and the others that send nothing.
LEMMA SilentTypes ==
  ASSUME TInv, NEW c \in Clients,
         \/ CheckCredentials(c) \/ FindSession(c) \/ InsertSession(c) \/ RemoveSession(c)
         \/ CheckSelf(c) \/ (\E u \in Users : Lookup(c, u)) \/ LookupsDone(c) \/ History(c)
  PROVE  /\ TInv' /\ \A d \in Clients : Working(d)' <=> Working(d)
         /\ UNCHANGED <<clientVars, toServer, toClient, obj, req, overtaken, misuse>>
         /\ \A d \in Clients : d # c => pc'[d] = pc[d] /\ answer'[d] = answer[d]
<1>1. TypeOK /\ IsFiniteSet(sessions) /\ pc \in [Clients -> DOMAIN ServedAt]
      /\ req[c].op \in ServedAt[pc[c]] /\ (req[c].op = "login" => req[c].user \in Users)
  BY DEF TInv, Shape
<1>2. UNCHANGED <<clientVars, toServer, toClient, obj, req, overtaken, misuse>>
  BY DEF CheckCredentials, FindSession, InsertSession, RemoveSession, CheckSelf, Lookup,
         LookupsDone, History, handlerVars, historyVars
<1>3. PICK to \in {"find", "answer", "insert", "bye", "lookup", "deliver"} :
        /\ Goto(c, pc[c], to) /\ req[c].op \in ServedAt[to]
        /\ pc[c] \in {"credentials", "find", "insert", "remove", "self", "lookup", "history"}
  BY <1>1 DEF CheckCredentials, FindSession, InsertSession, RemoveSession, CheckSelf, Lookup,
              LookupsDone, History, Conclude, Goto, ServedAt, Exits
<1>4. targets' \in [Clients -> SUBSET Users] /\ target' \in [Clients -> Clients]
  <2>1. CASE \E u \in Users : Lookup(c, u)
    <3>1. PICK u \in Users : Lookup(c, u)
      BY <2>1
    <3>2. \A s \in SessionsOf(u) : s[2] \in Clients
      BY <1>1 DEF SessionsOf, TypeOK
    <3> QED BY <1>1, <3>1, <3>2 DEF Lookup, TypeOK
  <2>2. CASE ~ \E u \in Users : Lookup(c, u)
    <3>1. UNCHANGED <<targets, target>>
      BY <2>2 DEF CheckCredentials, FindSession, InsertSession, RemoveSession, CheckSelf,
                  LookupsDone, History, handlerVars
    <3> QED BY <1>1, <3>1 DEF TypeOK
  <2> QED BY <2>1, <2>2
<1>5. /\ answer' \in [Clients -> {"Success", "Error", "other", "nothing"}]
      /\ \A d \in Clients : d # c => answer'[d] = answer[d]
  <2>1. answer' = answer \/ \E text \in {"Error", "other", "nothing"} :
          answer' = [answer EXCEPT ![c] = text]
    BY DEF CheckCredentials, FindSession, InsertSession, RemoveSession, CheckSelf, Lookup,
           LookupsDone, History, Conclude, handlerVars
  <2>2. CASE answer' = answer
    BY <1>1, <2>2 DEF TypeOK
  <2>3. ASSUME NEW text \in {"Error", "other", "nothing"}, answer' = [answer EXCEPT ![c] = text]
        PROVE  /\ answer' \in [Clients -> {"Success", "Error", "other", "nothing"}]
               /\ \A d \in Clients : d # c => answer'[d] = answer[d]
    BY <1>1, <2>3 DEF TypeOK
  <2> QED BY <2>1, <2>2, <2>3
<1>6. sessions' \subseteq Users \X Clients /\ IsFiniteSet(sessions') /\ disputed' \subseteq Users
  <2>1. CASE InsertSession(c)
    <3>1. req[c].op = "login"
      BY <1>1, <2>1 DEF InsertSession, Goto, ServedAt
    <3>2. IsFiniteSet(sessions \cup {<<req[c].user, c>>})
      BY <1>1, FS_AddElement
    <3> QED BY <1>1, <2>1, <3>1, <3>2 DEF InsertSession, TypeOK
  <2>2. CASE RemoveSession(c)
    <3>1. sessions' \in SUBSET sessions /\ disputed' = disputed
      BY <2>2 DEF RemoveSession, historyVars
    <3>2. IsFiniteSet(sessions')
      BY <1>1, <3>1, FS_Subset
    <3> QED BY <1>1, <3>1, <3>2 DEF TypeOK
  <2>3. CASE ~ InsertSession(c) /\ ~ RemoveSession(c)
    <3>1. UNCHANGED <<sessions, disputed>>
      BY <2>3 DEF CheckCredentials, FindSession, CheckSelf, Lookup, LookupsDone, History, historyVars
    <3> QED BY <1>1, <3>1 DEF TypeOK
  <2> QED BY <2>1, <2>2, <2>3
<1>7. TypeOK'
  BY <1>1, <1>2, <1>4, <1>5, <1>6 DEF TypeOK, clientVars
<1>8. /\ Shape'
      /\ \A d \in Clients : d # c => pc'[d] = pc[d]
      /\ \A d \in Clients : Working(d)' <=> Working(d)
  <2>1. to \in DOMAIN ServedAt
    BY <1>3, PlacesAre
  <2> QED BY <1>2, <1>3, <1>6, <1>7, <2>1, GoesOn
<1>9. Counted'
  <2>1. \A d \in Clients : Hits(toClient'[d], AnswerTexts) = Hits(toClient[d], AnswerTexts)
    BY <1>2
  <2>2. UNCHANGED <<asked, toServer>>
    BY <1>2 DEF clientVars
  <2> QED BY <1>8, <2>1, <2>2, QuietCounted
<1> QED BY <1>2, <1>5, <1>8, <1>9 DEF TInv

\* A message, a list or a history below zero sends texts that answer nothing.
LEMMA MessageTypes ==
  ASSUME TInv, NEW c \in Clients, Deliver(c) \/ List(c) \/ HistoryBelow(c)
  PROVE  /\ TInv' /\ \A d \in Clients : Working(d)' <=> Working(d)
         /\ UNCHANGED <<clientVars, toServer, obj, req, answer, sessions, disputed, overtaken>>
         /\ \A d \in Clients : d # c => pc'[d] = pc[d]
         /\ pc[c] \in {"deliver", "list", "below"} /\ pc'[c] \in {"lookup", "command"}
         /\ \A d \in Clients : \A text \in ToSet(toClient'[d]) :
              text \in ToSet(toClient[d]) \/ (text.to \in {"message", "list", "historyBelow"} /\ text.says = "other")
         /\ \A d \in Clients : ToSet(toClient[d]) \subseteq ToSet(toClient'[d])
<1>1. TypeOK /\ IsFiniteSet(sessions) /\ pc \in [Clients -> DOMAIN ServedAt]
      /\ req[c].op \in ServedAt[pc[c]] /\ toClient \in [Clients -> Seq(Texts)]
      /\ target[c] \in Clients
  BY DEF TInv, Shape, TypeOK
<1>2. UNCHANGED <<clientVars, toServer, obj, req, answer, sessions, disputed, overtaken,
                  targets, target>>
  BY DEF Deliver, List, HistoryBelow, handlerVars, historyVars
<1>3. \/ toClient' = toClient
      \/ \E d \in Clients, texts \in Seq(Texts) :
           /\ Say(d, texts)
           /\ \A text \in ToSet(texts) : text.to \in {"message", "list", "historyBelow"} /\ text.says = "other"
  <2>1. CASE Deliver(c)
    <3>1. [says |-> "other", to |-> "message"] \in Texts
      BY DEF Texts
    <3>2. /\ <<[says |-> "other", to |-> "message"]>> \in Seq(Texts)
          /\ ToSet(<<[says |-> "other", to |-> "message"]>>) = {[says |-> "other", to |-> "message"]}
      BY <3>1 DEF ToSet
    <3>3. \A text \in ToSet(<<[says |-> "other", to |-> "message"]>>) :
            text.to \in {"message", "list", "historyBelow"} /\ text.says = "other"
      BY <3>2
    <3>4. toClient' = toClient \/ Say(target[c], <<[says |-> "other", to |-> "message"]>>)
      BY <2>1 DEF Deliver
    <3> QED BY <1>1, <3>2, <3>3, <3>4
  <2>2. CASE List(c)
    <3> DEFINE texts == [i \in 1..Cardinality(sessions) |-> [says |-> "other", to |-> "list"]]
    <3>1. [says |-> "other", to |-> "list"] \in Texts
      BY DEF Texts, Ops
    <3>2. Cardinality(sessions) \in Nat
      BY <1>1, FS_CardinalityType
    <3>3. texts \in Seq(Texts)
      BY <3>1, <3>2
    <3>4. \A text \in ToSet(texts) : text.to \in {"message", "list", "historyBelow"} /\ text.says = "other"
      BY DEF ToSet
    <3>5. Say(c, texts)
      BY <2>2 DEF List
    <3> HIDE DEF texts
    <3> QED BY <3>3, <3>4, <3>5
  <2>3. CASE HistoryBelow(c)
    <3> DEFINE text == [says |-> "other", to |-> "historyBelow"]
    <3>1. text \in Texts
      BY DEF Texts, Ops
    <3>2. <<text>> \in Seq(Texts) /\ ToSet(<<text>>) = {text}
      BY <3>1 DEF ToSet
    <3>3. \A t \in ToSet(<<text>>) : t.to \in {"message", "list", "historyBelow"} /\ t.says = "other"
      BY <3>2
    <3>4. toClient' = toClient \/ Say(c, <<text>>)
      BY <2>3 DEF HistoryBelow
    <3> HIDE DEF text
    <3> QED BY <3>2, <3>3, <3>4
  <2> QED BY <2>1, <2>2, <2>3
<1>4. /\ toClient' \in [Clients -> Seq(Texts)]
      /\ \A d \in Clients : Hits(toClient'[d], AnswerTexts) = Hits(toClient[d], AnswerTexts)
      /\ \A d \in Clients : \A text \in ToSet(toClient'[d]) :
           text \in ToSet(toClient[d]) \/ (text.to \in {"message", "list", "historyBelow"} /\ text.says = "other")
      /\ \A d \in Clients : ToSet(toClient[d]) \subseteq ToSet(toClient'[d])
  <2>1. CASE toClient' = toClient
    <3>1. \A d \in Clients : toClient'[d] = toClient[d]
      BY <2>1
    <3>2. \A d \in Clients : Hits(toClient'[d], AnswerTexts) = Hits(toClient[d], AnswerTexts)
      BY <3>1
    <3> QED BY <1>1, <2>1, <3>2
  <2>2. CASE toClient' # toClient
    <3>1. PICK e \in Clients, texts \in Seq(Texts) :
            /\ Say(e, texts)
            /\ \A text \in ToSet(texts) : text.to \in {"message", "list", "historyBelow"} /\ text.says = "other"
      BY <1>3, <2>2
    <3>2. ToSet(texts) \cap AnswerTexts = {}
      BY <3>1 DEF AnswerTexts, Answers, Unawaited
    <3>3. /\ toClient' \in [Clients -> Seq(Texts)]
          /\ \A d \in Clients :
               ToSet(toClient'[d]) = IF d = e THEN ToSet(toClient[e]) \cup ToSet(texts)
                                     ELSE ToSet(toClient[d])
          /\ \A d \in Clients : Hits(toClient'[d], AnswerTexts) = Hits(toClient[d], AnswerTexts)
      BY <1>1, <3>1, <3>2, Says
    <3>4. \A d \in Clients : ToSet(toClient[d]) \subseteq ToSet(toClient'[d])
      BY <3>3
    <3>5. \A d \in Clients : \A text \in ToSet(toClient'[d]) :
            text \in ToSet(toClient[d]) \/ (text.to \in {"message", "list", "historyBelow"} /\ text.says = "other")
      BY <3>1, <3>3
    <3> QED BY <3>3, <3>4, <3>5
  <2> QED BY <2>1, <2>2
<1>5. TypeOK'
  BY <1>1, <1>2, <1>4 DEF TypeOK, clientVars
<1>6. PICK to \in {"lookup", "command"} :
        /\ Goto(c, pc[c], to) /\ req[c].op \in ServedAt[to]
        /\ to = "command" <=> pc[c] \in {"list", "below"}
        /\ pc[c] \in {"deliver", "list", "below"}
  BY <1>1 DEF Deliver, List, HistoryBelow, Goto, ServedAt, Ops
<1>7. /\ Shape' /\ pc'[c] = to
      /\ \A d \in Clients : d # c => pc'[d] = pc[d]
      /\ \A d \in Clients : Working(d)' <=> Working(d)
  <2>1. to \in DOMAIN ServedAt /\ IsFiniteSet(sessions')
    BY <1>1, <1>2, <1>6, PlacesAre
  <2> QED BY <1>2, <1>5, <1>6, <2>1, GoesOn
<1>8. Counted'
  <2>1. UNCHANGED <<asked, toServer>>
    BY <1>2 DEF clientVars
  <2> QED BY <1>4, <1>7, <2>1, QuietCounted
<1> QED BY <1>2, <1>4, <1>6, <1>7, <1>8 DEF TInv

\* The answer, to an exit as well, is counted until it is read.
LEMMA AnswerTypes ==
  ASSUME TInv, NEW c \in Clients, Answer(c) \/ Bye(c)
  PROVE  /\ TInv'
         /\ UNCHANGED <<clientVars, toServer, obj, req, answer, sessions, disputed, overtaken>>
         /\ \A d \in Clients : d # c => pc'[d] = pc[d]
         /\ Working(c) /\ ~ Working(c)'
         /\ \E text \in Texts :
              /\ text.to = req[c].op /\ Answers(text)
              /\ text.says = IF pc[c] = "answer" THEN answer[c] ELSE "other"
              /\ \A d \in Clients :
                   ToSet(toClient'[d]) = IF d = c THEN ToSet(toClient[c]) \cup {text}
                                         ELSE ToSet(toClient[d])
         /\ \/ pc[c] = "answer" /\ pc'[c] = "command"
            \/ pc[c] = "bye" /\ pc'[c] = "abandon"
<1>1. TypeOK /\ IsFiniteSet(sessions) /\ pc \in [Clients -> DOMAIN ServedAt]
      /\ req[c].op \in ServedAt[pc[c]] /\ req[c] \in Requests /\ answer[c] \in {"Success", "Error", "other", "nothing"}
  BY DEF TInv, Shape, TypeOK
<1>2. UNCHANGED <<clientVars, toServer, obj, req, answer, sessions, disputed, overtaken,
                  targets, target>>
  BY DEF Answer, Bye, handlerVars, historyVars
<1>3. PICK text \in Texts :
        /\ text.to = req[c].op /\ Answers(text) /\ Say(c, <<text>>)
        /\ text.says = IF pc[c] = "answer" THEN answer[c] ELSE "other"
  <2>1. CASE Answer(c)
    <3>1. pc[c] = "answer" /\ req[c].op \in {"login", "logout", "msg", "broadcast", "history"}
      BY <1>1, <2>1 DEF Answer, Goto, ServedAt
    <3>2. [says |-> answer[c], to |-> req[c].op] \in Texts
      BY <1>1, <3>1 DEF Texts, Ops
    <3> QED BY <2>1, <3>1, <3>2 DEF Answer, Answers, Unawaited
  <2>2. CASE Bye(c)
    <3>1. pc[c] = "bye" /\ req[c].op \in {"exit", "exitLoggedIn"}
      BY <1>1, <2>2 DEF Bye, Goto, ServedAt, Exits
    <3>2. [says |-> "other", to |-> req[c].op] \in Texts
      BY <3>1 DEF Texts, Ops
    <3> QED BY <2>2, <3>1, <3>2 DEF Bye, Answers, Unawaited
  <2> QED BY <2>1, <2>2
<1>4. PICK to \in {"command", "abandon"} :
        /\ Goto(c, pc[c], to) /\ req[c].op \in ServedAt[to]
        /\ \/ pc[c] = "answer" /\ to = "command"
           \/ pc[c] = "bye" /\ to = "abandon"
  BY <1>1 DEF Answer, Bye, Goto, ServedAt, Exits, Ops
<1>5. \A d \in Clients : d # c => pc'[d] = pc[d]
  BY <1>1, <1>4 DEF Goto
<1>6. pc'[c] = to /\ Working(c) /\ ~ Working(c)'
      /\ \A d \in Clients : d # c => (Working(d)' <=> Working(d))
  BY <1>1, <1>4, <1>5 DEF Working, Goto
<1>7. UNCHANGED <<asked, toServer>>
  BY <1>2 DEF clientVars
<1>8. /\ Counted' /\ toClient' \in [Clients -> Seq(Texts)]
      /\ \A d \in Clients :
           ToSet(toClient'[d]) = IF d = c THEN ToSet(toClient[c]) \cup {text}
                                 ELSE ToSet(toClient[d])
  BY <1>3, <1>6, <1>7, AnswerCounted
<1>9. TypeOK'
  BY <1>1, <1>2, <1>8 DEF TypeOK, clientVars
<1>10. Shape'
  <2>1. to \in DOMAIN ServedAt /\ IsFiniteSet(sessions')
    BY <1>1, <1>2, <1>4, PlacesAre
  <2> QED BY <1>2, <1>4, <1>9, <2>1, GoesOn
<1> QED BY <1>2, <1>3, <1>4, <1>5, <1>6, <1>8, <1>10 DEF TInv

\* The end of a connection.
LEMMA AbandonTypes ==
  ASSUME TInv, NEW c \in Clients, Abandon(c)
  PROVE  /\ TInv' /\ \A d \in Clients : Working(d)' <=> Working(d)
         /\ UNCHANGED <<clientVars, toServer, toClient, req, answer, sessions, disputed,
                        overtaken>>
         /\ \A d \in Clients : d # c => pc'[d] = pc[d] /\ obj'[d] = obj[d]
         /\ pc[c] = "abandon" /\ pc'[c] = "ended" /\ obj'[c] = "freed"
<1>1. TypeOK /\ IsFiniteSet(sessions) /\ pc \in [Clients -> DOMAIN ServedAt]
      /\ req[c].op \in ServedAt[pc[c]]
  BY DEF TInv, Shape
<1>2. /\ UNCHANGED <<clientVars, toServer, toClient, req, answer, sessions, disputed, overtaken,
                     targets, target>>
      /\ obj' = [obj EXCEPT ![c] = "freed"]
      /\ Goto(c, "abandon", "ended")
  BY DEF Abandon, handlerVars, historyVars
<1>3. TypeOK'
  BY <1>1, <1>2 DEF TypeOK, clientVars
<1>4. /\ Shape' /\ pc[c] = "abandon" /\ pc'[c] = "ended"
      /\ \A d \in Clients : d # c => pc'[d] = pc[d]
      /\ \A d \in Clients : Working(d)' <=> Working(d)
  <2>1. "ended" \in DOMAIN ServedAt /\ IsFiniteSet(sessions') /\ pc[c] = "abandon"
    BY <1>1, <1>2, PlacesAre DEF Goto
  <2>2. req[c].op \in ServedAt["ended"]
    BY <1>1, <2>1 DEF ServedAt
  <2> QED BY <1>2, <1>3, <2>1, <2>2, GoesOn
<1>5. Counted'
  <2>1. \A d \in Clients : Hits(toClient'[d], AnswerTexts) = Hits(toClient[d], AnswerTexts)
    BY <1>2
  <2>2. UNCHANGED <<asked, toServer>>
    BY <1>2 DEF clientVars
  <2> QED BY <1>4, <2>1, <2>2, QuietCounted
<1>6. obj'[c] = "freed" /\ \A d \in Clients : d # c => obj'[d] = obj[d]
  BY <1>1, <1>2 DEF TypeOK
<1> QED BY <1>2, <1>4, <1>5, <1>6 DEF TInv

\* Every step keeps the types and the count.
LEMMA NextTypes == TInv /\ [Next]_vars => TInv'
<1> SUFFICES ASSUME TInv, [Next]_vars PROVE TInv'
  OBVIOUS
<1>1. ASSUME NEW c \in Clients, Handler(c) PROVE TInv'
  <2>1. CASE Receive(c)
    BY <2>1, ReceiveTypes
  <2>2. CASE Deliver(c) \/ List(c) \/ HistoryBelow(c)
    BY <2>2, MessageTypes
  <2>3. CASE Answer(c) \/ Bye(c)
    BY <2>3, AnswerTypes
  <2>4. CASE Abandon(c)
    BY <2>4, AbandonTypes
  <2>5. CASE \/ CheckCredentials(c) \/ FindSession(c) \/ InsertSession(c) \/ RemoveSession(c)
             \/ CheckSelf(c) \/ (\E u \in Users : Lookup(c, u)) \/ LookupsDone(c) \/ History(c)
    BY <2>5, SilentTypes
  <2> QED BY <1>1, <2>1, <2>2, <2>3, <2>4, <2>5 DEF Handler
<1>2. CASE UNCHANGED vars
  <2>1. UNCHANGED <<asked, toServer>>
    BY <1>2 DEF vars, clientVars
  <2>2. Shape'
    BY <1>2 DEF TInv, Shape, TypeOK, vars, clientVars, handlerVars, historyVars
  <2>3. \A d \in Clients : Working(d)' <=> Working(d)
    BY <1>2 DEF Working, vars
  <2>4. \A d \in Clients : Hits(toClient'[d], AnswerTexts) = Hits(toClient[d], AnswerTexts)
    BY <1>2 DEF vars
  <2> QED BY <2>1, <2>2, <2>3, <2>4, QuietCounted DEF TInv
<1> QED BY <1>1, <1>2, UserTypes, ReadTypes DEF Next, Rest

\* The types, and the count of the awaited answers, hold in every state.
LEMMA TypesHold == Spec => []TInv
BY InitTypes, NextTypes, PTL DEF Spec

\* Every variable has its type, whether users await their answers or not: gLogged is 0
\* or 1, and no more answers come than commands were typed.
THEOREM TypeCorrect == Spec => []TypeOK
<1>1. TInv => TypeOK
  BY DEF TInv, Shape
<1> QED BY <1>1, TypesHold, PTL

---------------------------------------------------------------------------
(* Users who await their answers.                                           *)

\* The commands that are answered.
Answered == Ops \ Unawaited

\* With one answer awaited at most, one kind of command is under way; with none, none.
LEMMA PendFew ==
  ASSUME TInv, NEW c \in Clients, asked[c] <= 1, NEW o \in Answered, Pend(c, o)
  PROVE  asked[c] = 1 /\ \A p \in Answered : Pend(c, p) => p = o
<1> DEFINE x == Hits(toServer[c], Questions)
           y == IF Working(c) THEN 1 ELSE 0
           z == Hits(toClient[c], AnswerTexts)
<1>1. /\ toServer[c] \in Seq(Requests) /\ toClient[c] \in Seq(Texts) /\ req[c] \in Requests
      /\ asked[c] \in Nat
  BY DEF TInv, Shape, TypeOK
<1>2. x \in Nat /\ y \in 0..1 /\ z \in Nat
  <2>1. x \in Nat /\ z \in Nat
    BY <1>1, HitsType
  <2>2. y \in 0..1
    OBVIOUS
  <2> QED BY <2>1, <2>2
<1>3. asked[c] = x + y + z
  BY DEF TInv, Counted
<1>4. /\ \A r \in ToSet(toServer[c]) : r \in Requests
      /\ \A text \in ToSet(toClient[c]) : text \in Texts
  BY <1>1, LenProperties DEF ToSet
<1>5. /\ \A r \in ToSet(toServer[c]) : r.op \in Answered => r \in ToSet(toServer[c]) \cap Questions
      /\ \A text \in ToSet(toClient[c]) :
           text.to \in Answered => text \in ToSet(toClient[c]) \cap AnswerTexts
  <2>1. \A p \in Answered : p \notin Unawaited \cup {"message"}
    BY DEF Answered, Ops
  <2> QED BY <1>4, <2>1 DEF Questions, AnswerTexts, Answers
<1>6. /\ x = 0 => \A r \in ToSet(toServer[c]) : r.op \notin Answered
      /\ z = 0 => \A text \in ToSet(toClient[c]) : text.to \notin Answered
  BY <1>1, <1>5, HitsFew
<1>7. /\ x <= 1 => \A r, q \in ToSet(toServer[c]) : r.op \in Answered /\ q.op \in Answered => r.op = q.op
      /\ z <= 1 => \A r, q \in ToSet(toClient[c]) : r.to \in Answered /\ q.to \in Answered => r.to = q.to
  BY <1>1, <1>5, HitsFew
<1>8. y = 0 <=> ~ Working(c)
  OBVIOUS
<1> HIDE DEF x, y, z
<1>9. \/ x = 0 /\ y = 0 /\ z = 0
      \/ x = 1 /\ y = 0 /\ z = 0
      \/ x = 0 /\ y = 1 /\ z = 0
      \/ x = 0 /\ y = 0 /\ z = 1
  BY <1>2, <1>3
<1>10. ~ (x = 0 /\ y = 0 /\ z = 0)
  BY <1>6, <1>8 DEF Pend
<1>11. asked[c] = 1
  BY <1>1, <1>2, <1>3, <1>9, <1>10
<1>12. ASSUME NEW p \in Answered, Pend(c, p) PROVE p = o
  <2>1. CASE x = 1 /\ y = 0 /\ z = 0
    BY <1>6, <1>7, <1>8, <1>12, <2>1 DEF Pend
  <2>2. CASE x = 0 /\ y = 1 /\ z = 0
    BY <1>6, <1>12, <2>2 DEF Pend
  <2>3. CASE x = 0 /\ y = 0 /\ z = 1
    BY <1>6, <1>7, <1>8, <1>12, <2>3 DEF Pend
  <2> QED BY <1>9, <1>10, <2>1, <2>2, <2>3
<1> QED BY <1>11, <1>12

\* A handler's step leaves the kind of what is under way, and what the client knows.
LEMMA HandlerPend ==
  ASSUME TInv, NEW c \in Clients, Handler(c), NEW d \in Clients, NEW o \in Answered
  PROVE  Pend(d, o)' <=> Pend(d, o)
<1>1. o # "message" /\ o \notin Unawaited /\ o \notin {"message", "list", "historyBelow"}
  BY DEF Answered, Ops, Unawaited
<1>2. CASE Receive(c)
  <2>1. UNCHANGED <<toClient>> /\ (d # c => req'[d] = req[d] /\ pc'[d] = pc[d])
    BY <1>2 DEF Receive, Goto, TInv, Shape, TypeOK
  <2>2. ~ Working(c)
    BY <1>2 DEF Receive, Goto, Working
  <2>3. /\ ToSet(toServer[c]) = {req'[c]} \cup ToSet(toServer'[c])
        /\ (d # c => toServer'[d] = toServer[d])
        /\ Working(c)' <=> req'[c].op \notin Unawaited
    BY <1>2, ReceiveTypes
  <2>4. CASE d = c
    BY <1>1, <2>1, <2>2, <2>3, <2>4 DEF Pend
  <2>5. CASE d # c
    BY <2>1, <2>3, <2>5 DEF Pend, Working
  <2> QED BY <2>4, <2>5
<1>3. CASE \/ CheckCredentials(c) \/ FindSession(c) \/ InsertSession(c) \/ RemoveSession(c)
           \/ CheckSelf(c) \/ (\E u \in Users : Lookup(c, u)) \/ LookupsDone(c) \/ History(c)
  <2>1. UNCHANGED <<toServer, toClient, req>> /\ (Working(d)' <=> Working(d))
    BY <1>3, SilentTypes
  <2> QED BY <2>1 DEF Pend
<1>4. CASE Deliver(c) \/ List(c) \/ HistoryBelow(c)
  <2>1. /\ UNCHANGED <<toServer, req>> /\ (Working(d)' <=> Working(d))
        /\ \A text \in ToSet(toClient'[d]) :
             text \in ToSet(toClient[d]) \/ text.to \in {"message", "list", "historyBelow"}
        /\ ToSet(toClient[d]) \subseteq ToSet(toClient'[d])
    BY <1>4, MessageTypes
  <2> QED BY <1>1, <2>1 DEF Pend
<1>5. CASE Answer(c) \/ Bye(c)
  <2>1. PICK text \in Texts :
          /\ text.to = req[c].op
          /\ \A e \in Clients :
               ToSet(toClient'[e]) = IF e = c THEN ToSet(toClient[c]) \cup {text}
                                     ELSE ToSet(toClient[e])
    BY <1>5, AnswerTypes
  <2>2. /\ UNCHANGED <<toServer, req>> /\ Working(c) /\ ~ Working(c)'
        /\ (d # c => pc'[d] = pc[d])
    BY <1>5, AnswerTypes
  <2>3. CASE d = c
    BY <2>1, <2>2, <2>3 DEF Pend
  <2>4. CASE d # c
    BY <2>1, <2>2, <2>4 DEF Pend, Working
  <2> QED BY <2>3, <2>4
<1>6. CASE Abandon(c)
  <2>1. UNCHANGED <<toServer, toClient, req>> /\ (Working(d)' <=> Working(d))
    BY <1>6, AbandonTypes
  <2> QED BY <2>1 DEF Pend
<1> QED BY <1>2, <1>3, <1>4, <1>5, <1>6 DEF Handler

\* No answer is awaited where nothing is under way.
LEMMA PendNone ==
  ASSUME TInv, NEW c \in Clients, asked[c] = 0
  PROVE  /\ \A o \in Answered : ~ Pend(c, o)
         /\ ~ Working(c) /\ ~ Entered(c) /\ ~ Leaving(c)
         /\ \A r \in ToSet(toServer[c]) : r.op \in Unawaited
<1>1. \A o \in Answered : ~ Pend(c, o)
  <2>1. ASSUME NEW o \in Answered, Pend(c, o) PROVE FALSE
    <3>1. asked[c] <= 1
      OBVIOUS
    <3>2. asked[c] = 1
      BY <2>1, <3>1, PendFew
    <3> QED BY <3>2
  <2> QED BY <2>1
<1>2. \A r \in ToSet(toServer[c]) : r.op \in Ops
  <2>1. toServer[c] \in Seq(Requests)
    BY DEF TInv, Shape, TypeOK
  <2>2. \A r \in ToSet(toServer[c]) : r \in Requests
    BY <2>1, LenProperties DEF ToSet
  <2> QED BY <2>2 DEF Requests
<1>3. \A r \in ToSet(toServer[c]) : r.op \in Unawaited
  BY <1>1, <1>2 DEF Pend, Answered
<1>4. ~ Working(c)
  <2>1. pc[c] \in DOMAIN ServedAt /\ req[c].op \in ServedAt[pc[c]]
    BY DEF TInv, Shape
  <2>2. Working(c) => req[c].op \in Answered
    BY <2>1 DEF Working, ServedAt, Answered, Ops, Exits, Unawaited
  <2> QED BY <1>1, <2>2 DEF Pend
<1>5. ~ Entered(c)
  <2>1. \A text \in ToSet(toClient[c]) : text.to # "login"
    BY <1>1 DEF Pend, Answered, Ops, Unawaited
  <2> QED BY <1>4, <2>1 DEF Entered, Working
<1>6. ~ Leaving(c)
  BY <1>3, <1>4 DEF Leaving, Working, Unawaited
<1> QED BY <1>1, <1>3, <1>4, <1>5, <1>6

\* Where an answer is awaited, nothing is typed.
LEMMA UserAwaits ==
  ASSUME Patient, TInv, Waited, NEW c \in Clients, User(c)
  PROVE  /\ Waited' /\ asked[c] = 0 /\ on[c] = "on"
         /\ UNCHANGED <<toClient, sessions, obj, pc, req, answer, overtaken, disputed>>
         /\ \A d \in Clients : d # c =>
              /\ on'[d] = on[d] /\ logged'[d] = logged[d] /\ name'[d] = name[d]
              /\ lastOp'[d] = lastOp[d] /\ toServer'[d] = toServer[d]
         /\ \E r \in Requests :
              /\ toServer'[c] = Append(toServer[c], r)
              /\ ToSet(toServer'[c]) = ToSet(toServer[c]) \cup {r}
              /\ r.op \in {"login", "logout", "exitLoggedIn"} => r.user = name'[c]
              /\ r.op \in Exits <=> on'[c] # "on"
              /\ \/ /\ r.op = "login" /\ lastOp'[c] = "login"
                    /\ logged[c] = 0 /\ logged'[c] = 0
                 \/ /\ r.op = "logout" /\ logged[c] = 1 /\ logged'[c] = 0
                    /\ name'[c] = name[c] /\ lastOp'[c] = lastOp[c]
                 \/ /\ r.op \in {"list", "msg", "broadcast", "history", "historyBelow"} /\ logged'[c] = logged[c]
                    /\ name'[c] = name[c] /\ lastOp'[c] = lastOp[c]
                 \/ /\ r.op = "exit" /\ logged[c] = 0 /\ logged'[c] = 0
                    /\ name'[c] = name[c] /\ lastOp'[c] = lastOp[c]
                 \/ /\ r.op = "exitLoggedIn" /\ logged[c] = 1 /\ logged'[c] = 1
                    /\ name'[c] = name[c] /\ lastOp'[c] = lastOp[c]
<1>1. /\ asked \in [Clients -> Nat] /\ logged \in [Clients -> 0..1]
      /\ toServer \in [Clients -> Seq(Requests)] /\ on \in [Clients -> {"on", "exiting", "left"}]
      /\ name \in [Clients -> Users \cup {NoUser}] /\ lastOp \in [Clients -> {"login", "none"}]
      /\ toServer[c] \in Seq(Requests) /\ name[c] \in Users \cup {NoUser} /\ logged[c] \in 0..1
  BY DEF TInv, Shape, TypeOK
<1>2. /\ asked[c] = 0 /\ on[c] = "on"
      /\ UNCHANGED <<toClient, sessions, obj, pc, req, answer, overtaken, disputed>>
      /\ (asked' = asked \/ asked' = [asked EXCEPT ![c] = @ + 1])
  <2>1. CASE TypeExit(c)
    BY <1>1, <2>1 DEF TypeExit, serverVars, handlerVars, historyVars
  <2>2. ASSUME NEW r, Typing(c, r)
        PROVE  /\ asked[c] = 0 /\ on[c] = "on"
               /\ UNCHANGED <<toClient, sessions, obj, pc, req, answer, overtaken, disputed>>
               /\ (asked' = asked \/ asked' = [asked EXCEPT ![c] = @ + 1])
    <3>1. asked' = [asked EXCEPT ![c] = IF r.op \in Unawaited THEN @ ELSE @ + 1]
      BY <2>2 DEF Typing
    <3>2. asked' = asked \/ asked' = [asked EXCEPT ![c] = @ + 1]
      BY <1>1, <3>1
    <3> QED BY <2>2, <3>2 DEF Typing, serverVars, handlerVars, historyVars
  <2>3. CASE (\E u \in Users : TypeLogin(c, u)) \/ TypeLogout(c) \/ TypeList(c) \/ TypeMessage(c)
             \/ TypeHistory(c)
    BY <2>2, <2>3 DEF TypeLogin, TypeLogout, TypeList, TypeMessage, TypeHistory
  <2> QED BY <2>1, <2>3 DEF User
<1>3. Waited'
  <2>1. ASSUME NEW d \in Clients PROVE asked'[d] <= 1
    <3>1. asked[d] \in Nat /\ asked[d] <= 1
      BY <1>1 DEF Waited
    <3>2. CASE asked' = asked
      BY <3>1, <3>2
    <3>3. CASE asked' = [asked EXCEPT ![c] = @ + 1]
      <4>1. asked'[c] = asked[c] + 1 /\ (d # c => asked'[d] = asked[d])
        BY <1>1, <3>3
      <4> QED BY <1>2, <3>1, <4>1
    <3> QED BY <1>2, <3>2, <3>3
  <2> QED BY <2>1 DEF Waited
<1>5. \E r \in Requests :
        /\ toServer' = [toServer EXCEPT ![c] = Append(@, r)]
        /\ r.op \in {"login", "logout", "exitLoggedIn"} => r.user = name'[c]
        /\ \/ on' = on /\ r.op \notin Exits
           \/ (\E x \in {"exiting", "left"} : on' = [on EXCEPT ![c] = x]) /\ r.op \in Exits
        /\ \/ /\ r.op = "login" /\ logged[c] = 0 /\ logged' = logged
              /\ lastOp' = [lastOp EXCEPT ![c] = "login"] /\ name' = [name EXCEPT ![c] = r.user]
           \/ /\ r.op = "logout" /\ logged[c] = 1 /\ logged' = [logged EXCEPT ![c] = @ - 1]
              /\ name' = name /\ lastOp' = lastOp
           \/ /\ r.op \in {"list", "msg", "broadcast", "history", "historyBelow"} /\ logged' = logged
              /\ name' = name /\ lastOp' = lastOp
           \/ /\ r.op = "exit" /\ logged[c] = 0 /\ logged' = logged
              /\ name' = name /\ lastOp' = lastOp
           \/ /\ r.op = "exitLoggedIn" /\ logged[c] = 1 /\ logged' = logged
              /\ name' = name /\ lastOp' = lastOp
  <2>1. ASSUME NEW u \in Users, TypeLogin(c, u)
        PROVE  \E r \in Requests :
                 /\ toServer' = [toServer EXCEPT ![c] = Append(@, r)]
                 /\ r.op = "login" /\ r.user = name'[c] /\ on' = on
                 /\ logged[c] = 0 /\ logged' = logged
                 /\ lastOp' = [lastOp EXCEPT ![c] = "login"] /\ name' = [name EXCEPT ![c] = r.user]
    <3>1. /\ Request("login", NoUser, u) \in Requests
          /\ Request("login", NoUser, u).user = u /\ Request("login", NoUser, u).op = "login"
      BY DEF Request, Requests, Ops
    <3>2. name'[c] = u
      BY <1>1, <2>1 DEF TypeLogin
    <3> QED BY <2>1, <3>1, <3>2 DEF TypeLogin, Typing
  <2>2. CASE TypeLogout(c)
    <3>1. /\ Request("logout", NoUser, name[c]) \in Requests
          /\ Request("logout", NoUser, name[c]).user = name[c]
          /\ Request("logout", NoUser, name[c]).op = "logout"
      BY <1>1 DEF Request, Requests, Ops
    <3>2. logged[c] = 1
      BY <1>1, <2>2 DEF TypeLogout
    <3> QED BY <2>2, <3>1, <3>2 DEF TypeLogout, Typing, Exits
  <2>3. CASE TypeList(c) \/ TypeMessage(c) \/ TypeHistory(c)
    <3>1. PICK r : /\ r \in Requests /\ r.op \in {"list", "msg", "broadcast", "history", "historyBelow"} /\ Typing(c, r)
                   /\ logged' = logged /\ name' = name /\ lastOp' = lastOp
      <4>1. /\ Request("list", NoUser, NoUser) \in Requests
            /\ Request("list", NoUser, NoUser).op = "list"
            /\ Request("broadcast", name[c], NoUser) \in Requests
            /\ Request("broadcast", name[c], NoUser).op = "broadcast"
        BY <1>1 DEF Request, Requests, Ops
      <4>2. \A u \in Users : /\ Request("msg", name[c], u) \in Requests
                             /\ Request("msg", name[c], u).op = "msg"
        BY <1>1 DEF Request, Requests, Ops
      <4>3. \A op \in {"history", "historyBelow"} :
              Request(op, name[c], NoUser) \in Requests /\ Request(op, name[c], NoUser).op = op
        BY <1>1 DEF Request, Requests, Ops
      <4> QED BY <2>3, <4>1, <4>2, <4>3 DEF TypeList, TypeMessage, TypeHistory
    <3> QED BY <3>1 DEF Typing, Exits
  <2>4. CASE TypeExit(c)
    <3>1. /\ Request("exitLoggedIn", NoUser, name[c]) \in Requests
          /\ Request("exit", NoUser, NoUser) \in Requests
          /\ Request("exitLoggedIn", NoUser, name[c]).op = "exitLoggedIn"
          /\ Request("exitLoggedIn", NoUser, name[c]).user = name[c]
          /\ Request("exit", NoUser, NoUser).op = "exit"
      BY <1>1 DEF Request, Requests, Ops
    <3>2. CASE logged[c] > 0
      <4>1. logged[c] = 1
        BY <1>1, <3>2
      <4> QED BY <2>4, <3>1, <3>2, <4>1 DEF TypeExit, Exits
    <3>3. CASE ~ (logged[c] > 0)
      <4>1. logged[c] = 0
        BY <1>1, <3>3
      <4> QED BY <2>4, <3>1, <3>3, <4>1 DEF TypeExit, Exits
    <3> QED BY <3>2, <3>3
  <2>5. CASE \E u \in Users : TypeLogin(c, u)
    <3>1. PICK r \in Requests :
            /\ toServer' = [toServer EXCEPT ![c] = Append(@, r)]
            /\ r.op = "login" /\ r.user = name'[c] /\ on' = on
            /\ logged[c] = 0 /\ logged' = logged
            /\ lastOp' = [lastOp EXCEPT ![c] = "login"] /\ name' = [name EXCEPT ![c] = r.user]
      BY <2>1, <2>5
    <3> QED BY <3>1 DEF Exits
  <2> QED BY <2>2, <2>3, <2>4, <2>5 DEF User
<1>6. PICK r \in Requests :
        /\ toServer' = [toServer EXCEPT ![c] = Append(@, r)]
        /\ r.op \in {"login", "logout", "exitLoggedIn"} => r.user = name'[c]
        /\ \/ on' = on /\ r.op \notin Exits
           \/ (\E x \in {"exiting", "left"} : on' = [on EXCEPT ![c] = x]) /\ r.op \in Exits
        /\ \/ /\ r.op = "login" /\ logged[c] = 0 /\ logged' = logged
              /\ lastOp' = [lastOp EXCEPT ![c] = "login"] /\ name' = [name EXCEPT ![c] = r.user]
           \/ /\ r.op = "logout" /\ logged[c] = 1 /\ logged' = [logged EXCEPT ![c] = @ - 1]
              /\ name' = name /\ lastOp' = lastOp
           \/ /\ r.op \in {"list", "msg", "broadcast", "history", "historyBelow"} /\ logged' = logged
              /\ name' = name /\ lastOp' = lastOp
           \/ /\ r.op = "exit" /\ logged[c] = 0 /\ logged' = logged
              /\ name' = name /\ lastOp' = lastOp
           \/ /\ r.op = "exitLoggedIn" /\ logged[c] = 1 /\ logged' = logged
              /\ name' = name /\ lastOp' = lastOp
  BY <1>5
<1>7. /\ toServer'[c] = Append(toServer[c], r)
      /\ ToSet(toServer'[c]) = ToSet(toServer[c]) \cup {r}
      /\ \A d \in Clients : d # c => toServer'[d] = toServer[d]
  BY <1>1, <1>6, SetOfAppend
<1>8. /\ \A d \in Clients : d # c =>
           /\ on'[d] = on[d] /\ logged'[d] = logged[d] /\ name'[d] = name[d]
           /\ lastOp'[d] = lastOp[d]
      /\ r.op \in Exits <=> on'[c] # "on"
  BY <1>1, <1>2, <1>6
<1>9. \/ /\ r.op = "login" /\ lastOp'[c] = "login"
         /\ logged[c] = 0 /\ logged'[c] = 0
      \/ /\ r.op = "logout" /\ logged[c] = 1 /\ logged'[c] = 0
         /\ name'[c] = name[c] /\ lastOp'[c] = lastOp[c]
      \/ /\ r.op \in {"list", "msg", "broadcast", "history", "historyBelow"} /\ logged'[c] = logged[c]
         /\ name'[c] = name[c] /\ lastOp'[c] = lastOp[c]
      \/ /\ r.op = "exit" /\ logged[c] = 0 /\ logged'[c] = 0
         /\ name'[c] = name[c] /\ lastOp'[c] = lastOp[c]
      \/ /\ r.op = "exitLoggedIn" /\ logged[c] = 1 /\ logged'[c] = 1
         /\ name'[c] = name[c] /\ lastOp'[c] = lastOp[c]
  BY <1>1, <1>6
<1> QED BY <1>2, <1>3, <1>6, <1>7, <1>8, <1>9
\* What concerns one client depends on that client only.
LEMMA SameKeeps ==
  ASSUME NEW d \in Clients,
         on'[d] = on[d], logged'[d] = logged[d], name'[d] = name[d], lastOp'[d] = lastOp[d],
         toServer'[d] = toServer[d], toClient'[d] = toClient[d], pc'[d] = pc[d],
         req'[d] = req[d], answer'[d] = answer[d], obj'[d] = obj[d],
         d \in overtaken => d \in overtaken'
  PROVE  /\ MatchedAt(d) => MatchedAt(d)'
         /\ AddressedAt(d) => AddressedAt(d)'
         /\ In(d)' <=> In(d)
<1>1. Working(d)' <=> Working(d)
  BY DEF Working
<1>2. ASSUME NEW o PROVE Pend(d, o)' <=> Pend(d, o)
  BY <1>1 DEF Pend
<1>3. MatchedAt(d) => MatchedAt(d)'
  BY <1>2 DEF MatchedAt
<1>4. AddressedAt(d) => AddressedAt(d)'
  BY <1>1 DEF AddressedAt
<1>5. Entered(d)' <=> Entered(d)
  BY DEF Entered
<1>6. Leaving(d)' <=> Leaving(d)
  BY DEF Leaving
<1>7. In(d)' <=> In(d)
  BY <1>5, <1>6 DEF In
<1> QED BY <1>3, <1>4, <1>7

\* Where the table stays, it agrees with clients that stay in it.
LEMMA KeptStays ==
  ASSUME Kept, UNCHANGED <<sessions, disputed>>,
         \A d \in Clients : In(d)' => In(d) /\ name'[d] = name[d],
         \A d \in Clients \ overtaken' :
           d \notin overtaken /\ (In(d) => In(d)' /\ name'[d] = name[d])
  PROVE  Kept'
<1>1. \A s, t \in sessions' : s[1] = t[1] /\ s[1] \notin disputed' => s = t
  BY DEF Kept
<1>2. ASSUME NEW d \in Clients, NEW u \in Users \ disputed', In(d)', name'[d] = u
      PROVE  <<u, d>> \in sessions'
  BY <1>2 DEF Kept
<1>3. ASSUME NEW d \in Clients \ overtaken', NEW u \in Users \ disputed', <<u, d>> \in sessions'
      PROVE  In(d)' /\ name'[d] = u
  BY <1>3 DEF Kept
<1> QED BY <1>1, <1>2, <1>3 DEF Kept

\* A user's command keeps what the client and the table have in common.
LEMMA UserKeeps ==
  ASSUME Patient, TInv, TInv', PInv, NEW c \in Clients, User(c)
  PROVE  PInv'
<1>p. Waited /\ Matched /\ Addressed /\ Kept
  BY DEF PInv
<1>1. /\ Waited' /\ asked[c] = 0 /\ on[c] = "on"
      /\ UNCHANGED <<toClient, sessions, obj, pc, req, answer, overtaken, disputed>>
      /\ \A d \in Clients : d # c =>
           /\ on'[d] = on[d] /\ logged'[d] = logged[d] /\ name'[d] = name[d]
           /\ lastOp'[d] = lastOp[d] /\ toServer'[d] = toServer[d]
  BY <1>p, UserAwaits
<1>2. PICK r \in Requests :
        /\ toServer'[c] = Append(toServer[c], r)
        /\ ToSet(toServer'[c]) = ToSet(toServer[c]) \cup {r}
        /\ r.op \in {"login", "logout", "exitLoggedIn"} => r.user = name'[c]
        /\ r.op \in Exits <=> on'[c] # "on"
        /\ \/ /\ r.op = "login" /\ lastOp'[c] = "login"
              /\ logged[c] = 0 /\ logged'[c] = 0
           \/ /\ r.op = "logout" /\ logged[c] = 1 /\ logged'[c] = 0
              /\ name'[c] = name[c] /\ lastOp'[c] = lastOp[c]
           \/ /\ r.op \in {"list", "msg", "broadcast", "history", "historyBelow"} /\ logged'[c] = logged[c]
              /\ name'[c] = name[c] /\ lastOp'[c] = lastOp[c]
           \/ /\ r.op = "exit" /\ logged[c] = 0 /\ logged'[c] = 0
              /\ name'[c] = name[c] /\ lastOp'[c] = lastOp[c]
           \/ /\ r.op = "exitLoggedIn" /\ logged[c] = 1 /\ logged'[c] = 1
              /\ name'[c] = name[c] /\ lastOp'[c] = lastOp[c]
  BY <1>p, UserAwaits
<1>3. /\ \A o \in Answered : ~ Pend(c, o)
      /\ ~ Working(c) /\ ~ Entered(c) /\ ~ Leaving(c)
      /\ \A q \in ToSet(toServer[c]) : q.op \in Unawaited
  BY <1>1, PendNone
<1>4. MatchedAt(c) /\ AddressedAt(c)
  BY <1>p DEF Matched, Addressed
<1>5. ~ Working(c)' /\ ~ Entered(c)' /\ pc'[c] # "remove"
  BY <1>1, <1>3 DEF Working, Entered
<1>6. \A o \in Answered : Pend(c, o)' <=> r.op = o
  <2>1. \A o \in Answered : o \notin Unawaited /\ \A text \in ToSet(toClient[c]) : text.to # o
    BY <1>3 DEF Pend, Answered
  <2> QED BY <1>1, <1>2, <1>3, <1>5, <2>1 DEF Pend
<1>7. MatchedAt(c)'
  <2>1. {"login", "logout", "exit", "exitLoggedIn"} \subseteq Answered
    BY DEF Answered, Ops, Unawaited
  <2>2. lastOp[c] # "login"
    BY <1>3, <1>4, <2>1 DEF MatchedAt
  <2>3. \A text \in ToSet(toClient'[c]) : text.says = "Success" => Answers(text)
    BY <1>1, <1>4 DEF MatchedAt
  <2> QED BY <1>2, <1>6, <2>1, <2>2, <2>3 DEF MatchedAt, Exits
<1>8. AddressedAt(c)'
  <2>1. toServer[c] \in Seq(Requests)
    BY DEF TInv, Shape, TypeOK
  <2>2. /\ Len(toServer[c]) \in Nat /\ Len(toServer'[c]) = Len(toServer[c]) + 1
        /\ \A i \in 1..Len(toServer[c]) :
             toServer'[c][i] = toServer[c][i] /\ toServer[c][i] \in ToSet(toServer[c])
    BY <1>2, <2>1, AppendProperties, LenProperties DEF ToSet
  <2>3. \A i \in 1..Len(toServer'[c]) :
          toServer'[c][i].op \in Exits => i = Len(toServer'[c])
    BY <1>3, <2>2 DEF Exits, Unawaited
  <2>4. req'[c].op \notin Exits /\ req'[c].op # "exit"
    BY <1>1, <1>4 DEF AddressedAt, Exits
  <2>5. \A q \in ToSet(toServer'[c]) :
          q.op \in {"login", "logout", "exitLoggedIn"} => q.user = name'[c]
    BY <1>2, <1>3 DEF Unawaited
  <2>6. /\ pc'[c] \in {"credentials", "find", "insert"} => answer'[c] = "Success"
        /\ obj'[c] = "live" <=> pc'[c] # "ended"
    BY <1>1, <1>4 DEF AddressedAt
  <2> QED BY <1>5, <2>3, <2>4, <2>5, <2>6 DEF AddressedAt
<1>9. (In(c)' <=> In(c)) /\ (In(c) => name'[c] = name[c])
  <2>1. Leaving(c)' <=> r.op \in {"logout", "exitLoggedIn"}
    BY <1>2, <1>3, <1>5 DEF Leaving
  <2>2. req'[c].op # "exitLoggedIn" /\ req[c].op # "exitLoggedIn"
    BY <1>1, <1>4 DEF AddressedAt, Exits
  <2>3. In(c) <=> logged[c] = 1
    BY <1>3, <2>2 DEF In
  <2>4. In(c)' <=> Leaving(c)' \/ logged'[c] = 1
    BY <1>5, <2>2 DEF In
  <2> QED BY <1>2, <2>1, <2>3, <2>4
<1>10. ASSUME NEW d \in Clients, d # c
       PROVE  MatchedAt(d)' /\ AddressedAt(d)' /\ (In(d)' <=> In(d)) /\ name'[d] = name[d]
  <2>1. MatchedAt(d) /\ AddressedAt(d)
    BY <1>p DEF Matched, Addressed
  <2> QED BY <1>1, <1>10, <2>1, SameKeeps
<1>11. Matched' /\ Addressed'
  BY <1>7, <1>8, <1>10 DEF Matched, Addressed
<1>12. Kept'
  <2>1. \A d \in Clients : (In(d)' <=> In(d)) /\ (In(d) => name'[d] = name[d])
    BY <1>9, <1>10
  <2> QED BY <1>1, <1>p, <2>1, KeptStays
<1> QED BY <1>1, <1>11, <1>12 DEF PInv
\* What reading a text does to the client that reads it.
LEMMA ReadAsOne ==
  ASSUME TInv, NEW c \in Clients, Read(c)
  PROVE  \E text \in Texts :
           /\ Reading(c, text)
           /\ on'[c] = IF text.to \in Exits THEN "left" ELSE on[c]
           /\ overtaken' = IF lastOp[c] = "login" /\ text.to # "login"
                           THEN overtaken \cup {c} ELSE overtaken
           /\ \/ /\ lastOp[c] = "login" /\ text.to \notin Exits /\ lastOp'[c] = "none"
                 /\ logged[c] = 0 /\ logged'[c] = IF text.says = "Success" THEN 1 ELSE 0
              \/ /\ lastOp[c] # "login" \/ text.to \in Exits
                 /\ lastOp'[c] = lastOp[c] /\ logged'[c] = logged[c]
           /\ \A d \in Clients : d # c =>
                on'[d] = on[d] /\ logged'[d] = logged[d] /\ lastOp'[d] = lastOp[d]
<1>1. /\ logged \in [Clients -> 0..1] /\ lastOp \in [Clients -> {"login", "none"}]
      /\ on \in [Clients -> {"on", "exiting", "left"}]
      /\ lastOp[c] = "login" => logged[c] = 0
  BY DEF TInv, Shape, TypeOK
<1>2. PICK text \in Texts :
        /\ Reading(c, text)
        /\ IF lastOp[c] = "login" /\ text.to \notin {"exit", "exitLoggedIn"}
           THEN /\ logged' = [logged EXCEPT ![c] = IF text.says = "Success" THEN @ + 1 ELSE @]
                /\ lastOp' = [lastOp EXCEPT ![c] = "none"]
           ELSE UNCHANGED <<logged, lastOp>>
  BY DEF Read
<1>3. /\ on' = [on EXCEPT ![c] = IF text.to \in Exits THEN "left" ELSE @]
      /\ overtaken' = IF lastOp[c] = "login" /\ text.to # "login"
                      THEN overtaken \cup {c} ELSE overtaken
  BY <1>2 DEF Reading, Exits
<1>4. CASE lastOp[c] = "login" /\ text.to \notin Exits
  <2>1. /\ logged' = [logged EXCEPT ![c] = IF text.says = "Success" THEN @ + 1 ELSE @]
        /\ lastOp' = [lastOp EXCEPT ![c] = "none"]
    BY <1>2, <1>4 DEF Exits
  <2>2. logged'[c] = IF text.says = "Success" THEN 1 ELSE 0
    BY <1>1, <1>4, <2>1
  <2>3. lastOp'[c] = "none" /\ logged[c] = 0
    BY <1>1, <1>4, <2>1
  <2>4. \A d \in Clients : d # c =>
          on'[d] = on[d] /\ logged'[d] = logged[d] /\ lastOp'[d] = lastOp[d]
    BY <1>1, <1>3, <2>1
  <2> QED BY <1>1, <1>2, <1>3, <1>4, <2>2, <2>3, <2>4
<1>5. CASE ~ (lastOp[c] = "login" /\ text.to \notin Exits)
  <2>1. UNCHANGED <<logged, lastOp>>
    BY <1>2, <1>5 DEF Exits
  <2> QED BY <1>1, <1>2, <1>3, <1>5, <2>1
<1> QED BY <1>4, <1>5

\* Reading an answer: it was the only one.
LEMMA ReadAnswerKeeps ==
  ASSUME Patient, TInv, TInv', PInv, NEW c \in Clients, NEW text \in Texts,
         Reading(c, text), Answers(text),
         on'[c] = IF text.to \in Exits THEN "left" ELSE on[c],
         overtaken' = IF lastOp[c] = "login" /\ text.to # "login"
                      THEN overtaken \cup {c} ELSE overtaken,
         \/ /\ lastOp[c] = "login" /\ text.to \notin Exits /\ lastOp'[c] = "none"
            /\ logged[c] = 0 /\ logged'[c] = IF text.says = "Success" THEN 1 ELSE 0
         \/ /\ lastOp[c] # "login" \/ text.to \in Exits
            /\ lastOp'[c] = lastOp[c] /\ logged'[c] = logged[c]
  PROVE  /\ asked'[c] = 0 /\ MatchedAt(c)' /\ AddressedAt(c)'
         /\ In(c)' => In(c)
         /\ c \notin overtaken' => c \notin overtaken /\ (In(c) => In(c)')
<1>1. /\ text \in ToSet(toClient[c]) /\ ToSet(toClient[c]) = {text} \cup ToSet(toClient'[c])
      /\ asked'[c] = asked[c] - 1 /\ asked[c] > 0
      /\ UNCHANGED <<name, toServer, obj, pc, req, answer>>
  BY Reads
<1>2. asked[c] = 1 /\ asked'[c] = 0
  <2>1. asked[c] \in Nat /\ asked[c] <= 1
    BY DEF TInv, Shape, TypeOK, PInv, Waited
  <2> QED BY <1>1, <2>1
<1>3. text.to \in Answered /\ Pend(c, text.to)
  <2>1. text.to \in Answered
    BY DEF Texts, Answers, Answered, Ops
  <2> QED BY <1>1, <2>1 DEF Pend
<1>4. \A o \in Answered : Pend(c, o) => o = text.to
  <2>1. ASSUME NEW o \in Answered, Pend(c, o) PROVE o = text.to
    <3>1. asked[c] <= 1
      BY <1>2
    <3> QED BY <1>3, <2>1, <3>1, PendFew
  <2> QED BY <2>1
<1>5. /\ \A o \in Answered : ~ Pend(c, o)'
      /\ ~ Working(c)' /\ ~ Entered(c)' /\ ~ Leaving(c)'
      /\ \A r \in ToSet(toServer'[c]) : r.op \in Unawaited
  <2>1. (TInv /\ asked[c] = 0 =>
           /\ \A o \in Answered : ~ Pend(c, o)
           /\ ~ Working(c) /\ ~ Entered(c) /\ ~ Leaving(c)
           /\ \A r \in ToSet(toServer[c]) : r.op \in Unawaited)'
    BY PendNone, PTL
  <2> QED BY <1>2, <2>1
<1>6. MatchedAt(c) /\ AddressedAt(c)
  BY DEF PInv, Matched, Addressed
<1>7. "login" \in Answered /\ {"logout", "exit", "exitLoggedIn"} \subseteq Answered
      /\ "login" \notin Exits
  BY DEF Answered, Ops, Exits, Unawaited
<1>8. lastOp[c] = "login" => text.to = "login"
  BY <1>4, <1>6, <1>7 DEF MatchedAt
<1>9. lastOp'[c] # "login"
  BY <1>7, <1>8
<1>10. \A t \in ToSet(toClient'[c]) : t.says = "Success" => Answers(t)
  BY <1>1, <1>6 DEF MatchedAt
<1>11. MatchedAt(c)'
  BY <1>5, <1>7, <1>9, <1>10 DEF MatchedAt
<1>12. /\ req[c].op \in Exits => lastOp[c] # "login" /\ logged'[c] = logged[c]
       /\ on[c] # "on" => on'[c] # "on"
  BY <1>6, <1>7, <1>8 DEF MatchedAt, AddressedAt
<1>13. AddressedAt(c)'
  <2>1. "exit" \in Exits
    BY DEF Exits
  <2> QED BY <1>1, <1>5, <1>6, <1>12, <2>1 DEF AddressedAt
<1>14. ~ Leaving(c) /\ ~ Working(c) /\ pc[c] # "answer"
  BY <1>1, <1>5 DEF Leaving, Working
<1>15. Entered(c) => text.says = "Success" /\ text.to = "login"
  <2>1. \A t \in ToSet(toClient'[c]) : t.to # "login"
    BY <1>5, <1>7 DEF Pend
  <2> QED BY <1>1, <1>14, <2>1 DEF Entered
<1>16. /\ text.says = "Success" /\ text.to = "login" => Entered(c)
       /\ Entered(c) => Pend(c, "login")
  BY <1>1, <1>14 DEF Entered, Pend
<1>17. "exitLoggedIn" \in Exits
  BY DEF Exits
<1>18. CASE lastOp[c] = "login"
  <2>1. text.to = "login" /\ logged[c] = 0 /\ overtaken' = overtaken
        /\ logged'[c] = (IF text.says = "Success" THEN 1 ELSE 0)
    BY <1>7, <1>8, <1>18
  <2>2. req[c].op # "exitLoggedIn"
    BY <1>12, <1>17, <1>18
  <2>3. In(c)' <=> text.says = "Success"
    BY <1>1, <1>5, <2>1, <2>2 DEF In
  <2>4. In(c) <=> text.says = "Success"
    BY <1>14, <1>15, <1>16, <2>1 DEF In
  <2> QED BY <1>2, <1>11, <1>13, <2>1, <2>3, <2>4
<1>19. CASE lastOp[c] # "login"
  <2>1. overtaken' = overtaken /\ logged'[c] = logged[c]
    BY <1>19
  <2>2. c \notin overtaken => ~ Entered(c)
    BY <1>6, <1>16, <1>19 DEF MatchedAt
  <2>3. In(c)' => In(c)
    BY <1>1, <1>5, <2>1 DEF In
  <2>4. c \notin overtaken /\ In(c) => In(c)'
    BY <1>1, <1>14, <2>1, <2>2 DEF In
  <2> QED BY <1>2, <1>11, <1>13, <2>1, <2>3, <2>4
<1> QED BY <1>18, <1>19

\* Reading another text: what is under way stays so.
LEMMA ReadOtherKeeps ==
  ASSUME Patient, TInv, TInv', PInv, NEW c \in Clients, NEW text \in Texts,
         Reading(c, text), ~ Answers(text),
         on'[c] = IF text.to \in Exits THEN "left" ELSE on[c],
         overtaken' = IF lastOp[c] = "login" /\ text.to # "login"
                      THEN overtaken \cup {c} ELSE overtaken,
         \/ /\ lastOp[c] = "login" /\ text.to \notin Exits /\ lastOp'[c] = "none"
            /\ logged[c] = 0 /\ logged'[c] = IF text.says = "Success" THEN 1 ELSE 0
         \/ /\ lastOp[c] # "login" \/ text.to \in Exits
            /\ lastOp'[c] = lastOp[c] /\ logged'[c] = logged[c]
  PROVE  /\ asked'[c] = asked[c] /\ MatchedAt(c)' /\ AddressedAt(c)'
         /\ In(c)' <=> In(c)
         /\ c \notin overtaken' => c \notin overtaken
<1>1. /\ text \in ToSet(toClient[c]) /\ ToSet(toClient[c]) = {text} \cup ToSet(toClient'[c])
      /\ asked'[c] = asked[c]
      /\ UNCHANGED <<name, toServer, obj, pc, req, answer>>
  BY Reads
<1>2. MatchedAt(c) /\ AddressedAt(c)
  BY DEF PInv, Matched, Addressed
<1>3. text.to \in Unawaited \cup {"message"} /\ text.says # "Success"
  BY <1>1, <1>2 DEF Answers, MatchedAt
<1>4. text.to \notin Exits /\ text.to # "login" /\ on'[c] = on[c] /\ logged'[c] = logged[c]
  BY <1>3 DEF Exits, Unawaited
<1>5. ASSUME NEW o \in Answered PROVE Pend(c, o)' <=> Pend(c, o)
  <2>1. o \notin Unawaited \cup {"message"}
    BY DEF Answered, Ops
  <2>2. Working(c)' <=> Working(c)
    BY <1>1 DEF Working
  <2> QED BY <1>1, <1>3, <2>1, <2>2 DEF Pend
<1>6. {"login", "logout", "exit", "exitLoggedIn"} \subseteq Answered
  BY DEF Answered, Ops, Unawaited
<1>7. \A t \in ToSet(toClient'[c]) : t.says = "Success" => Answers(t)
  BY <1>1, <1>2 DEF MatchedAt
<1>8. /\ lastOp'[c] = "login" => lastOp[c] = "login"
      /\ c \notin overtaken' => lastOp[c] # "login" /\ lastOp'[c] = lastOp[c] /\ c \notin overtaken
  BY <1>4
<1>9. MatchedAt(c)'
  BY <1>2, <1>4, <1>5, <1>6, <1>7, <1>8 DEF MatchedAt
<1>10. AddressedAt(c)'
  <2>1. Working(c)' <=> Working(c)
    BY <1>1 DEF Working
  <2> QED BY <1>1, <1>2, <1>4, <2>1 DEF AddressedAt
<1>11. Entered(c)' <=> Entered(c)
  BY <1>1, <1>3 DEF Entered
<1>12. Leaving(c)' <=> Leaving(c)
  BY <1>1 DEF Leaving
<1>13. In(c)' <=> In(c)
  BY <1>1, <1>4, <1>11, <1>12 DEF In
<1> QED BY <1>1, <1>8, <1>9, <1>10, <1>13

\* Reading a text keeps what the client and the table have in common.
LEMMA ReadKeeps ==
  ASSUME Patient, TInv, TInv', PInv, NEW c \in Clients, Read(c)
  PROVE  PInv'
<1>1. PICK text \in Texts :
        /\ Reading(c, text)
        /\ on'[c] = IF text.to \in Exits THEN "left" ELSE on[c]
        /\ overtaken' = IF lastOp[c] = "login" /\ text.to # "login"
                        THEN overtaken \cup {c} ELSE overtaken
        /\ \/ /\ lastOp[c] = "login" /\ text.to \notin Exits /\ lastOp'[c] = "none"
              /\ logged[c] = 0 /\ logged'[c] = IF text.says = "Success" THEN 1 ELSE 0
           \/ /\ lastOp[c] # "login" \/ text.to \in Exits
              /\ lastOp'[c] = lastOp[c] /\ logged'[c] = logged[c]
        /\ \A d \in Clients : d # c =>
             on'[d] = on[d] /\ logged'[d] = logged[d] /\ lastOp'[d] = lastOp[d]
  BY ReadAsOne
<1>2. /\ \A d \in Clients : d # c => toClient'[d] = toClient[d] /\ asked'[d] = asked[d]
      /\ UNCHANGED <<name, toServer, sessions, obj, pc, req, answer, disputed>>
  BY <1>1, Reads
<1>3. /\ asked'[c] <= 1 /\ MatchedAt(c)' /\ AddressedAt(c)'
      /\ In(c)' => In(c)
      /\ c \notin overtaken' => c \notin overtaken /\ (In(c) => In(c)')
  <2>1. CASE Answers(text)
    BY <1>1, <2>1, ReadAnswerKeeps
  <2>2. CASE ~ Answers(text)
    <3>1. asked[c] <= 1
      BY DEF PInv, Waited
    <3> QED BY <1>1, <2>2, <3>1, ReadOtherKeeps
  <2> QED BY <2>1, <2>2
<1>4. ASSUME NEW d \in Clients, d # c
      PROVE  /\ asked'[d] <= 1 /\ MatchedAt(d)' /\ AddressedAt(d)' /\ (In(d)' <=> In(d))
             /\ d \notin overtaken' => d \notin overtaken
  <2>1. MatchedAt(d) /\ AddressedAt(d) /\ asked[d] <= 1
    BY DEF PInv, Matched, Addressed, Waited
  <2>2. d \in overtaken <=> d \in overtaken'
    BY <1>1, <1>4
  <2> QED BY <1>1, <1>2, <1>4, <2>1, <2>2, SameKeeps
<1>5. Waited' /\ Matched' /\ Addressed'
  BY <1>3, <1>4 DEF Waited, Matched, Addressed
<1>6. Kept'
  <2>1. \A d \in Clients : In(d)' => In(d) /\ name'[d] = name[d]
    BY <1>2, <1>3, <1>4
  <2>2. \A d \in Clients \ overtaken' :
          d \notin overtaken /\ (In(d) => In(d)' /\ name'[d] = name[d])
    BY <1>2, <1>3, <1>4
  <2> QED BY <1>2, <2>1, <2>2, KeptStays DEF PInv
<1> QED BY <1>5, <1>6 DEF PInv
\* While a handler works on the one command that is answered, there is no other.
LEMMA WorkingAlone ==
  ASSUME TInv, NEW c \in Clients, asked[c] <= 1, Working(c)
  PROVE  /\ \A r \in ToSet(toServer[c]) : r.op \in Unawaited
         /\ \A text \in ToSet(toClient[c]) : text.to \notin Answered
<1> DEFINE x == Hits(toServer[c], Questions)
           z == Hits(toClient[c], AnswerTexts)
<1>1. /\ toServer[c] \in Seq(Requests) /\ toClient[c] \in Seq(Texts) /\ asked[c] \in Nat
      /\ x \in Nat /\ z \in Nat
  BY HitsType DEF TInv, Shape, TypeOK
<1>2. asked[c] = x + 1 + z
  BY DEF TInv, Counted
<1>3. /\ x = 0 => ToSet(toServer[c]) \cap Questions = {}
      /\ z = 0 => ToSet(toClient[c]) \cap AnswerTexts = {}
  BY <1>1, HitsFew
<1> HIDE DEF x, z
<1>4. ToSet(toServer[c]) \cap Questions = {} /\ ToSet(toClient[c]) \cap AnswerTexts = {}
  BY <1>1, <1>2, <1>3
<1>5. /\ \A r \in ToSet(toServer[c]) : r \in Requests
      /\ \A text \in ToSet(toClient[c]) : text \in Texts
  BY <1>1, LenProperties DEF ToSet
<1>6. \A r \in ToSet(toServer[c]) : r.op \in Unawaited
  BY <1>4, <1>5 DEF Questions
<1>7. ASSUME NEW text \in ToSet(toClient[c]) PROVE text.to \notin Answered
  <2>1. text.to \in Unawaited \cup {"message"}
    BY <1>4, <1>5 DEF AnswerTexts, Answers
  <2> QED BY <2>1 DEF Answered, Ops
<1> QED BY <1>6, <1>7

\* A handler does not touch what its client knows.
LEMMA HandlerLeaves ==
  ASSUME NEW c \in Clients, Handler(c)
  PROVE  UNCHANGED <<clientVars, overtaken>>
BY DEF Handler, Receive, CheckCredentials, FindSession, InsertSession, RemoveSession, List,
       CheckSelf, Lookup, Deliver, LookupsDone, History, HistoryBelow, Answer, Bye, Abandon

\* A handler's step keeps what the client remembers in step with what is under way.
LEMMA HandlerMatched ==
  ASSUME TInv, Matched, NEW c \in Clients, Handler(c)
  PROVE  Matched'
<1>1. UNCHANGED <<on, logged, name, lastOp, asked, typed, overtaken>>
  BY HandlerLeaves DEF clientVars
<1>2. \A d \in Clients : \A text \in ToSet(toClient'[d]) :
        text \in ToSet(toClient[d]) \/ (text.says = "Success" => Answers(text))
  <2>1. CASE Answer(c) \/ Bye(c)
    BY <2>1, AnswerTypes
  <2>2. CASE Deliver(c) \/ List(c) \/ HistoryBelow(c)
    BY <2>2, MessageTypes
  <2>3. CASE toClient' = toClient
    BY <2>3
  <2> QED BY <2>1, <2>2, <2>3 DEF Handler, Receive, CheckCredentials, FindSession,
             InsertSession, RemoveSession, CheckSelf, Lookup, LookupsDone, History, Abandon
<1>3. ASSUME NEW d \in Clients PROVE MatchedAt(d)'
  <2>1. MatchedAt(d)
    BY DEF Matched
  <2>2. \A o \in Answered : Pend(d, o)' <=> Pend(d, o)
    BY HandlerPend
  <2>3. {"login", "logout", "exit", "exitLoggedIn"} \subseteq Answered
    BY DEF Answered, Ops, Unawaited
  <2>4. \A text \in ToSet(toClient'[d]) : text.says = "Success" => Answers(text)
    BY <1>2, <2>1 DEF MatchedAt
  <2> QED BY <1>1, <2>1, <2>2, <2>3, <2>4 DEF MatchedAt
<1> QED BY <1>3 DEF Matched

\* What is said of a client's commands depends neither on its texts nor on others.
LEMMA AddressedStays ==
  ASSUME NEW d \in Clients, UNCHANGED <<on, logged, name>>,
         toServer'[d] = toServer[d], req'[d] = req[d],
         Working(d)' => Working(d),
         pc'[d] \in {"credentials", "find", "insert"} => answer'[d] = "Success",
         obj'[d] = "live" <=> pc'[d] # "ended",
         AddressedAt(d)
  PROVE  AddressedAt(d)'
BY DEF AddressedAt

\* A handler that takes a command from the queue keeps the rest in order.
LEMMA ReceiveAddressed ==
  ASSUME TInv, NEW c \in Clients, MatchedAt(c), AddressedAt(c), Receive(c)
  PROVE  AddressedAt(c)'
<1>1. /\ req'[c] \in ToSet(toServer[c]) /\ req'[c] = Head(toServer[c])
      /\ ToSet(toServer'[c]) \subseteq ToSet(toServer[c])
  BY ReceiveTypes
<1>2. UNCHANGED <<on, logged, name, obj>>
  BY DEF Receive, clientVars
<1>3. /\ pc[c] = "command" /\ toServer[c] # <<>> /\ toServer'[c] = Tail(toServer[c])
      /\ answer'[c] = "Success" /\ pc'[c] = Entry[req'[c].op]
  BY DEF Receive, Goto, TInv, Shape, TypeOK
<1>4. req'[c].op \in Ops
  <2>1. req'[c] \in Requests
    BY ReceiveTypes DEF TInv, Shape, TypeOK
  <2> QED BY <2>1 DEF Requests
<1>5. pc'[c] # "ended"
  BY <1>3, <1>4 DEF Entry, Ops
<1>6. PICK q \in Seq(Requests) : q = toServer[c]
  BY DEF TInv, Shape, TypeOK
<1>7. /\ Len(q) \in Nat \ {0} /\ Len(Tail(q)) = Len(q) - 1 /\ Head(q) = q[1]
      /\ \A i \in 1..(Len(q) - 1) : Tail(q)[i] = q[i + 1]
      /\ Tail(q) \in Seq(Requests)
  BY <1>3, <1>6, HeadTailProperties, EmptySeq, LenProperties
<1>8. \A i \in 1..Len(q) : q[i].op \in Exits => i = Len(q)
  BY <1>6 DEF AddressedAt
<1>9. \A i \in 1..Len(toServer'[c]) : toServer'[c][i].op \in Exits => i = Len(toServer'[c])
  <2>1. ASSUME NEW i \in 1..(Len(q) - 1), Tail(q)[i].op \in Exits PROVE i = Len(q) - 1
    <3>1. i + 1 \in 1..Len(q) /\ Len(q) \in Nat
      BY <1>7
    <3>2. q[i + 1].op \in Exits
      BY <1>7, <2>1
    <3>3. i + 1 = Len(q)
      BY <1>8, <3>1, <3>2
    <3> QED BY <3>1, <3>3
  <2> QED BY <1>3, <1>6, <1>7, <2>1
<1>10. req'[c].op \in Exits => toServer'[c] = <<>> /\ on'[c] # "on"
  <2>1. ASSUME req'[c].op \in Exits PROVE toServer'[c] = <<>>
    <3>1. 1 \in 1..Len(q)
      BY <1>7
    <3>2. q[1].op \in Exits
      BY <1>1, <1>6, <1>7, <2>1
    <3>3. Len(q) = 1
      BY <1>8, <3>1, <3>2
    <3>4. Len(Tail(q)) = 0
      BY <1>7, <3>3
    <3>5. Tail(q) = <<>>
      BY <1>7, <3>4, EmptySeq
    <3> QED BY <1>3, <1>6, <3>5
  <2>2. ASSUME req'[c].op \in Exits PROVE on'[c] # "on"
    BY <1>1, <1>2, <2>2 DEF MatchedAt, Pend, Exits
  <2> QED BY <2>1, <2>2
<1>11. req'[c].op = "exit" => logged'[c] = 0
  BY <1>1, <1>2 DEF MatchedAt, Pend
<1>12. /\ \A r \in ToSet(toServer'[c]) :
            r.op \in {"login", "logout", "exitLoggedIn"} => r.user = name'[c]
       /\ req'[c].op \in {"login", "logout", "exitLoggedIn"} => req'[c].user = name'[c]
  BY <1>1, <1>2 DEF AddressedAt
<1>13. obj'[c] = "live" <=> pc'[c] # "ended"
  BY <1>2, <1>3, <1>5 DEF AddressedAt
<1> QED BY <1>3, <1>9, <1>10, <1>11, <1>12, <1>13 DEF AddressedAt

\* A handler's step keeps the commands in order and addressed.
LEMMA HandlerAddressed ==
  ASSUME TInv, Matched, Addressed, NEW c \in Clients, Handler(c)
  PROVE  Addressed'
<1>1. UNCHANGED <<on, logged, name>>
  BY HandlerLeaves DEF clientVars
<1>2. \A d \in Clients : AddressedAt(d) /\ MatchedAt(d)
  BY DEF Addressed, Matched
<1>3. \A d \in Clients : /\ pc[d] \in {"credentials", "find", "insert"} => answer[d] = "Success"
                         /\ obj[d] = "live" <=> pc[d] # "ended"
  BY <1>2 DEF AddressedAt
<1>4. CASE Receive(c)
  <2>1. AddressedAt(c)'
    BY <1>2, <1>4, ReceiveAddressed
  <2>2. ASSUME NEW d \in Clients, d # c PROVE AddressedAt(d)'
    <3>1. /\ toServer'[d] = toServer[d] /\ req'[d] = req[d] /\ pc'[d] = pc[d]
          /\ answer'[d] = answer[d] /\ obj'[d] = obj[d]
      BY <1>4, <2>2 DEF Receive, Goto, TInv, Shape, TypeOK
    <3>2. Working(d)' <=> Working(d)
      BY <3>1 DEF Working
    <3> QED BY <1>1, <1>2, <1>3, <3>1, <3>2, AddressedStays
  <2> QED BY <2>1, <2>2 DEF Addressed
<1>5. CASE \/ CheckCredentials(c) \/ FindSession(c) \/ InsertSession(c) \/ RemoveSession(c)
           \/ CheckSelf(c) \/ (\E u \in Users : Lookup(c, u)) \/ LookupsDone(c) \/ History(c)
  <2>1. /\ UNCHANGED <<toServer, req, obj>> /\ \A d \in Clients : Working(d)' <=> Working(d)
        /\ \A d \in Clients : d # c => pc'[d] = pc[d] /\ answer'[d] = answer[d]
    BY <1>5, SilentTypes
  <2>2. /\ pc[c] # "ended" /\ pc'[c] # "ended"
        /\ pc'[c] \in {"credentials", "find", "insert"} =>
             pc[c] \in {"credentials", "find"} /\ answer'[c] = answer[c]
    <3>1. pc \in [Clients -> DOMAIN ServedAt]
      BY DEF TInv, Shape
    <3> QED BY <1>5, <3>1 DEF CheckCredentials, FindSession, InsertSession, RemoveSession,
               CheckSelf, Lookup, LookupsDone, History, Goto, Conclude, handlerVars
  <2>3. ASSUME NEW d \in Clients PROVE AddressedAt(d)'
    <3>1. /\ pc'[d] \in {"credentials", "find", "insert"} => answer'[d] = "Success"
          /\ obj'[d] = "live" <=> pc'[d] # "ended"
      BY <1>3, <2>1, <2>2
    <3> QED BY <1>1, <1>2, <2>1, <3>1, AddressedStays
  <2> QED BY <2>3 DEF Addressed
<1>6. CASE Deliver(c) \/ List(c) \/ HistoryBelow(c) \/ Answer(c) \/ Bye(c)
  <2>1. /\ UNCHANGED <<toServer, req, obj, answer>>
        /\ \A d \in Clients : d # c => pc'[d] = pc[d]
        /\ pc[c] \in {"deliver", "list", "below", "answer", "bye"}
        /\ pc'[c] \in {"lookup", "command", "abandon"}
    BY <1>6, MessageTypes, AnswerTypes
  <2>2. \A d \in Clients : Working(d)' => Working(d)
    <3>1. CASE Deliver(c) \/ List(c) \/ HistoryBelow(c)
      BY <3>1, MessageTypes
    <3>2. CASE Answer(c) \/ Bye(c)
      <4>1. ~ Working(c)'
        BY <3>2, AnswerTypes
      <4> QED BY <2>1, <4>1 DEF Working
    <3> QED BY <1>6, <3>1, <3>2
  <2>3. ASSUME NEW d \in Clients PROVE AddressedAt(d)'
    <3>1. /\ pc'[d] \in {"credentials", "find", "insert"} => answer'[d] = "Success"
          /\ obj'[d] = "live" <=> pc'[d] # "ended"
      BY <1>3, <2>1
    <3> QED BY <1>1, <1>2, <2>1, <2>2, <3>1, AddressedStays
  <2> QED BY <2>3 DEF Addressed
<1>7. CASE Abandon(c)
  <2>1. /\ UNCHANGED <<toServer, req, answer>> /\ \A d \in Clients : Working(d)' <=> Working(d)
        /\ \A d \in Clients : d # c => pc'[d] = pc[d] /\ obj'[d] = obj[d]
        /\ pc'[c] = "ended" /\ obj'[c] = "freed"
    BY <1>7, AbandonTypes
  <2>2. ASSUME NEW d \in Clients PROVE AddressedAt(d)'
    <3>1. /\ pc'[d] \in {"credentials", "find", "insert"} => answer'[d] = "Success"
          /\ obj'[d] = "live" <=> pc'[d] # "ended"
      BY <1>3, <2>1
    <3> QED BY <1>1, <1>2, <2>1, <3>1, AddressedStays
  <2> QED BY <2>2 DEF Addressed
<1> QED BY <1>4, <1>5, <1>6, <1>7 DEF Handler
\* The steps that do not touch the table move no client in or out of it.
LEMMA QuietIn ==
  ASSUME TInv, Addressed, NEW c \in Clients, Handler(c), ~ InsertSession(c), ~ RemoveSession(c)
  PROVE  /\ UNCHANGED <<sessions, disputed>>
         /\ \A d \in Clients : In(d)' <=> In(d)
<1>1. UNCHANGED <<logged>>
  BY HandlerLeaves DEF clientVars
<1>2. UNCHANGED <<sessions, disputed>>
  BY DEF Handler, Receive, CheckCredentials, FindSession, List, CheckSelf, Lookup, Deliver,
         LookupsDone, History, HistoryBelow, Answer, Bye, Abandon, historyVars
<1>3. /\ pc \in [Clients -> DOMAIN ServedAt] /\ answer \in [Clients -> {"Success", "Error", "other", "nothing"}]
      /\ req \in [Clients -> Requests] /\ req[c].op \in ServedAt[pc[c]]
  BY DEF TInv, Shape, TypeOK
<1>4. CASE Receive(c)
  <2>1. /\ UNCHANGED toClient /\ pc[c] = "command" /\ pc'[c] = Entry[req'[c].op]
        /\ \A d \in Clients : d # c => pc'[d] = pc[d] /\ req'[d] = req[d] /\ answer'[d] = answer[d]
    BY <1>3, <1>4 DEF Receive, Goto
  <2>2. /\ ToSet(toServer[c]) = {req'[c]} \cup ToSet(toServer'[c])
        /\ \A d \in Clients : d # c => toServer'[d] = toServer[d]
        /\ TInv'
    BY <1>4, ReceiveTypes
  <2>3. req'[c].op \in Ops
    BY <2>2 DEF TInv, Shape, TypeOK, Requests
  <2>4. /\ pc'[c] = "remove" <=> req'[c].op \in {"logout", "exitLoggedIn"}
        /\ pc'[c] \notin {"answer", "abandon", "ended"}
        /\ ~ (req'[c].op = "exitLoggedIn" /\ pc'[c] \in {"bye", "abandon", "ended"})
    BY <2>1, <2>3 DEF Entry, Ops
  <2>5. Entered(c)' <=> Entered(c)
    BY <2>1, <2>4 DEF Entered
  <2>6. Leaving(c)' <=> Leaving(c)
    BY <2>1, <2>2, <2>4 DEF Leaving
  <2>7. In(c)' <=> In(c)
    BY <1>1, <2>1, <2>4, <2>5, <2>6 DEF In
  <2>8. ASSUME NEW d \in Clients, d # c PROVE In(d)' <=> In(d)
    <3>1. (Entered(d)' <=> Entered(d)) /\ (Leaving(d)' <=> Leaving(d))
      BY <2>1, <2>2, <2>8 DEF Entered, Leaving
    <3> QED BY <1>1, <2>1, <2>8, <3>1 DEF In
  <2> QED BY <1>2, <2>7, <2>8
<1>5. CASE \/ CheckCredentials(c) \/ FindSession(c)
           \/ CheckSelf(c) \/ (\E u \in Users : Lookup(c, u)) \/ LookupsDone(c) \/ History(c)
  <2>1. /\ UNCHANGED <<toServer, toClient, req>>
        /\ \A d \in Clients : d # c => pc'[d] = pc[d] /\ answer'[d] = answer[d]
    BY <1>5, SilentTypes
  <2>2. /\ pc[c] \in {"credentials", "find", "self", "lookup", "history"}
        /\ pc'[c] \in {"find", "insert", "answer", "lookup", "deliver"}
        /\ pc[c] \notin {"lookup", "history"} /\ pc'[c] = "answer" => answer'[c] = "Error"
    BY <1>3, <1>5 DEF CheckCredentials, FindSession, CheckSelf, Lookup, LookupsDone, History, Goto,
                      Conclude
  <2>3. pc[c] \in {"lookup", "history"} => req[c].op # "login"
    BY <1>3 DEF ServedAt
  <2>4. ~ (pc[c] = "answer") /\ ~ (pc'[c] = "answer" /\ req'[c].op = "login" /\ answer'[c] = "Success")
    BY <2>1, <2>2, <2>3
  <2>5. ASSUME NEW d \in Clients PROVE In(d)' <=> In(d)
    <3>1. Entered(d)' <=> Entered(d)
      BY <2>1, <2>4 DEF Entered
    <3>2. Leaving(d)' <=> Leaving(d)
      BY <2>1, <2>2 DEF Leaving
    <3>3. pc'[d] \in {"bye", "abandon", "ended"} <=> pc[d] \in {"bye", "abandon", "ended"}
      BY <2>1, <2>2
    <3> QED BY <1>1, <2>1, <3>1, <3>2, <3>3 DEF In
  <2> QED BY <1>2, <2>5
<1>6. CASE Deliver(c) \/ List(c) \/ HistoryBelow(c) \/ Abandon(c)
  <2>1. /\ UNCHANGED <<toServer, req, answer>>
        /\ \A d \in Clients : d # c => pc'[d] = pc[d]
        /\ \/ pc[c] \in {"deliver", "list", "below"} /\ pc'[c] \in {"lookup", "command"}
           \/ pc[c] = "abandon" /\ pc'[c] = "ended"
    BY <1>6, MessageTypes, AbandonTypes
  <2>2. \A d \in Clients : \A text \in Texts : text.says = "Success" =>
          (text \in ToSet(toClient'[d]) <=> text \in ToSet(toClient[d]))
    <3>1. CASE Deliver(c) \/ List(c) \/ HistoryBelow(c)
      <4>1. /\ \A d \in Clients : \A text \in ToSet(toClient'[d]) :
                 text \in ToSet(toClient[d]) \/ text.says = "other"
            /\ \A d \in Clients : ToSet(toClient[d]) \subseteq ToSet(toClient'[d])
        BY <3>1, MessageTypes
      <4> QED BY <4>1
    <3>2. CASE Abandon(c)
      BY <3>2, AbandonTypes
    <3> QED BY <1>6, <3>1, <3>2
  <2>3. ASSUME NEW d \in Clients PROVE In(d)' <=> In(d)
    <3>1. Entered(d)' <=> Entered(d)
      <4>1. \A text \in ToSet(toClient[d]) \cup ToSet(toClient'[d]) : text \in Texts
        <5>1. TInv'
          BY <1>6, MessageTypes, AbandonTypes
        <5>2. toClient[d] \in Seq(Texts) /\ toClient'[d] \in Seq(Texts)
          BY <5>1 DEF TInv, Shape, TypeOK
        <5> QED BY <5>2, LenProperties DEF ToSet
      <4> QED BY <2>1, <2>2, <4>1 DEF Entered
    <3>2. Leaving(d)' <=> Leaving(d)
      BY <2>1 DEF Leaving
    <3>3. pc'[d] \in {"bye", "abandon", "ended"} <=> pc[d] \in {"bye", "abandon", "ended"}
      BY <2>1
    <3> QED BY <1>1, <2>1, <3>1, <3>2, <3>3 DEF In
  <2> QED BY <1>2, <2>3
<1>7. CASE Answer(c) \/ Bye(c)
  <2>1. /\ UNCHANGED <<toServer, req, answer>>
        /\ \A d \in Clients : d # c => pc'[d] = pc[d]
        /\ \/ pc[c] = "answer" /\ pc'[c] = "command"
           \/ pc[c] = "bye" /\ pc'[c] = "abandon"
    BY <1>7, AnswerTypes
  <2>2. PICK text \in Texts :
          /\ text.to = req[c].op
          /\ text.says = IF pc[c] = "answer" THEN answer[c] ELSE "other"
          /\ \A d \in Clients :
               ToSet(toClient'[d]) = IF d = c THEN ToSet(toClient[c]) \cup {text}
                                     ELSE ToSet(toClient[d])
    BY <1>7, AnswerTypes
  <2>3. ASSUME NEW d \in Clients PROVE In(d)' <=> In(d)
    <3>1. CASE d = c
      <4>1. Entered(c)' <=> Entered(c)
        BY <2>1, <2>2 DEF Entered
      <4>2. Leaving(c)' <=> Leaving(c)
        BY <2>1 DEF Leaving
      <4>3. pc'[c] \in {"bye", "abandon", "ended"} <=> pc[c] \in {"bye", "abandon", "ended"}
        BY <2>1
      <4> QED BY <1>1, <2>1, <3>1, <4>1, <4>2, <4>3 DEF In
    <3>2. CASE d # c
      <4>1. (Entered(d)' <=> Entered(d)) /\ (Leaving(d)' <=> Leaving(d))
        BY <2>1, <2>2, <3>2 DEF Entered, Leaving
      <4> QED BY <1>1, <2>1, <3>2, <4>1 DEF In
    <3> QED BY <3>1, <3>2
  <2> QED BY <1>2, <2>3
<1> QED BY <1>4, <1>5, <1>6, <1>7 DEF Handler

\* The insertion enters the client under its name, or the user becomes disputed.
LEMMA InsertKeeps ==
  ASSUME TInv, Addressed, Kept, NEW c \in Clients, InsertSession(c)
  PROVE  Kept'
<1> DEFINE u == req[c].user
<1>1. /\ UNCHANGED <<logged, name, toServer, toClient, req, answer, overtaken>>
      /\ pc[c] = "insert" /\ pc'[c] = "answer"
      /\ \A d \in Clients : d # c => pc'[d] = pc[d]
      /\ sessions' = sessions \cup {<<u, c>>}
      /\ disputed' = IF SessionsOf(u) = {} THEN disputed ELSE disputed \cup {u}
  BY DEF InsertSession, Goto, clientVars, handlerVars, TInv, Shape
<1>2. /\ req[c].op = "login" /\ u = name[c] /\ answer[c] = "Success"
  <2>1. req[c].op = "login"
    BY <1>1 DEF TInv, Shape, ServedAt
  <2>2. AddressedAt(c)
    BY DEF Addressed
  <2> QED BY <1>1, <2>1, <2>2 DEF AddressedAt, Working
<1>3. In(c)'
  BY <1>1, <1>2 DEF In, Entered
<1>4. ASSUME NEW d \in Clients, d # c PROVE In(d)' <=> In(d)
  <2>1. (Entered(d)' <=> Entered(d)) /\ (Leaving(d)' <=> Leaving(d))
    BY <1>1, <1>4 DEF Entered, Leaving
  <2> QED BY <1>1, <1>4, <2>1 DEF In
<1>5. disputed \subseteq disputed' /\ (u \notin disputed' => SessionsOf(u) = {})
  BY <1>1
<1> HIDE DEF u
<1>6. ASSUME NEW s \in sessions', NEW t \in sessions', s[1] = t[1], s[1] \notin disputed'
      PROVE  s = t
  <2>1. s[1] = u => s = <<u, c>> /\ t = <<u, c>>
    BY <1>1, <1>5, <1>6 DEF SessionsOf
  <2>2. s[1] # u => s \in sessions /\ t \in sessions
    BY <1>1, <1>6
  <2> QED BY <1>5, <1>6, <2>1, <2>2 DEF Kept
<1>7. ASSUME NEW d \in Clients, NEW v \in Users \ disputed', In(d)', name'[d] = v
      PROVE  <<v, d>> \in sessions'
  <2>1. CASE d = c
    BY <1>1, <1>2, <1>7, <2>1
  <2>2. CASE d # c
    BY <1>1, <1>4, <1>5, <1>7, <2>2 DEF Kept
  <2> QED BY <2>1, <2>2
<1>8. ASSUME NEW d \in Clients \ overtaken', NEW v \in Users \ disputed', <<v, d>> \in sessions'
      PROVE  In(d)' /\ name'[d] = v
  <2>1. CASE <<v, d>> \in sessions
    <3>1. In(d) /\ name[d] = v
      BY <1>1, <1>5, <1>8, <2>1 DEF Kept
    <3> QED BY <1>1, <1>3, <1>4, <3>1
  <2>2. CASE <<v, d>> \notin sessions
    <3>1. v = u /\ d = c
      BY <1>1, <1>8, <2>2
    <3> QED BY <1>1, <1>2, <1>3, <3>1
  <2> QED BY <2>1, <2>2
<1> QED BY <1>6, <1>7, <1>8 DEF Kept

\* The removal takes the client's own session, unless the user is disputed.
LEMMA RemoveKeeps ==
  ASSUME TInv, PInv, NEW c \in Clients, RemoveSession(c)
  PROVE  Kept'
<1> DEFINE u == req[c].user
<1>1. /\ UNCHANGED <<logged, name, toServer, toClient, req, answer, overtaken, disputed>>
      /\ pc[c] = "remove" /\ pc'[c] = IF req[c].op = "logout" THEN "answer" ELSE "bye"
      /\ \A d \in Clients : d # c => pc'[d] = pc[d]
      /\ IF SessionsOf(u) = {} THEN UNCHANGED sessions
         ELSE \E s \in SessionsOf(u) : sessions' = sessions \ {s}
  BY DEF RemoveSession, Goto, clientVars, handlerVars, historyVars, TInv, Shape
<1>2. req[c].op \in {"logout", "exitLoggedIn"} /\ u = name[c] /\ Working(c)
  <2>1. req[c].op \in {"logout", "exitLoggedIn"}
    BY <1>1 DEF TInv, Shape, ServedAt
  <2>2. AddressedAt(c) /\ Working(c)
    BY <1>1 DEF PInv, Addressed, Working
  <2> QED BY <2>1, <2>2 DEF AddressedAt
<1>3. /\ \A r \in ToSet(toServer[c]) : r.op \in Unawaited
      /\ \A text \in ToSet(toClient[c]) : text.to # "login"
  <2>1. asked[c] <= 1
    BY DEF PInv, Waited
  <2> QED BY <1>2, <2>1, WorkingAlone DEF Answered, Ops, Unawaited
<1>4. req[c].op = "logout" => logged[c] = 0
  BY <1>2 DEF PInv, Matched, MatchedAt, Pend
<1>5. ~ Entered(c)' /\ ~ Leaving(c)'
  <2>1. req'[c].op # "login" /\ pc'[c] # "remove"
    BY <1>1, <1>2
  <2> QED BY <1>1, <1>3, <2>1 DEF Entered, Leaving, Unawaited
<1>6. ~ In(c)'
  BY <1>1, <1>2, <1>4, <1>5 DEF In
<1>7. In(c)
  BY <1>1 DEF In, Leaving
<1>8. ASSUME NEW d \in Clients, d # c PROVE In(d)' <=> In(d)
  <2>1. (Entered(d)' <=> Entered(d)) /\ (Leaving(d)' <=> Leaving(d))
    BY <1>1, <1>8 DEF Entered, Leaving
  <2> QED BY <1>1, <1>8, <2>1 DEF In
<1>9. Kept /\ sessions \subseteq Users \X Clients /\ u \in Users \cup {NoUser}
  BY DEF PInv, TInv, Shape, TypeOK, Requests
<1> HIDE DEF u
<1>10. /\ sessions' \subseteq sessions
       /\ \A s \in sessions : s[1] # u => s \in sessions'
  BY <1>1 DEF SessionsOf
<1>11. u \in Users \ disputed => sessions' = sessions \ {<<u, c>>}
  <2>1. ASSUME u \in Users \ disputed PROVE sessions' = sessions \ {<<u, c>>}
    <3>1. <<u, c>> \in sessions
      BY <1>2, <1>7, <1>9, <2>1 DEF Kept
    <3>2. <<u, c>> \in SessionsOf(u)
      BY <3>1 DEF SessionsOf
    <3>3. \A s \in SessionsOf(u) : s = <<u, c>>
      BY <1>9, <2>1, <3>1 DEF Kept, SessionsOf
    <3> QED BY <1>1, <3>2, <3>3
  <2> QED BY <2>1
<1>12. ASSUME NEW s \in sessions', NEW t \in sessions', s[1] = t[1], s[1] \notin disputed'
       PROVE  s = t
  BY <1>1, <1>9, <1>10, <1>12 DEF Kept
<1>13. ASSUME NEW d \in Clients, NEW v \in Users \ disputed', In(d)', name'[d] = v
       PROVE  <<v, d>> \in sessions'
  <2>1. d # c
    BY <1>6, <1>13
  <2>2. <<v, d>> \in sessions
    BY <1>1, <1>8, <1>9, <1>13, <2>1 DEF Kept
  <2>3. CASE v = u
    BY <1>1, <1>11, <2>1, <2>2, <2>3
  <2>4. CASE v # u
    BY <1>10, <2>2, <2>4
  <2> QED BY <2>3, <2>4
<1>14. ASSUME NEW d \in Clients \ overtaken', NEW v \in Users \ disputed', <<v, d>> \in sessions'
       PROVE  In(d)' /\ name'[d] = v
  <2>1. In(d) /\ name[d] = v
    BY <1>1, <1>9, <1>10, <1>14 DEF Kept
  <2>2. d # c
    <3>1. d = c => v = u
      BY <1>2, <2>1
    <3> QED BY <1>1, <1>11, <1>14, <3>1
  <2> QED BY <1>1, <1>8, <2>1, <2>2
<1> QED BY <1>12, <1>13, <1>14 DEF Kept

\* A handler's step keeps what the client and the table have in common.
LEMMA HandlerKeeps ==
  ASSUME TInv, PInv, NEW c \in Clients, Handler(c)
  PROVE  PInv'
<1>1. UNCHANGED <<name, asked, overtaken>>
  BY HandlerLeaves DEF clientVars
<1>2. Waited'
  BY <1>1 DEF PInv, Waited
<1>3. Matched'
  BY HandlerMatched DEF PInv
<1>4. Addressed'
  BY HandlerAddressed DEF PInv
<1>5. Kept'
  <2>1. CASE InsertSession(c)
    BY <2>1, InsertKeeps DEF PInv
  <2>2. CASE RemoveSession(c)
    BY <2>2, RemoveKeeps
  <2>3. CASE ~ InsertSession(c) /\ ~ RemoveSession(c)
    <3>1. UNCHANGED <<sessions, disputed>> /\ \A d \in Clients : In(d)' <=> In(d)
      BY <2>3, QuietIn DEF PInv
    <3> QED BY <1>1, <3>1, KeptStays DEF PInv
  <2> QED BY <2>1, <2>2, <2>3
<1> QED BY <1>2, <1>3, <1>4, <1>5 DEF PInv
\* Nobody has typed anything at first.
LEMMA InitKeeps == Init => PInv
<1> SUFFICES ASSUME Init PROVE PInv
  OBVIOUS
<1>1. ASSUME NEW c \in Clients
      PROVE  /\ on[c] = "on" /\ logged[c] = 0 /\ lastOp[c] = "none" /\ asked[c] = 0
             /\ toServer[c] = <<>> /\ toClient[c] = <<>> /\ pc[c] = "command"
             /\ req[c].op = "list" /\ obj[c] = "live"
  BY DEF Init, Request
<1>2. ToSet(<<>>) = {} /\ Len(<<>>) = 0
  BY EmptySeq DEF ToSet
<1>3. ASSUME NEW c \in Clients PROVE asked[c] <= 1
  BY <1>1
<1>4. ASSUME NEW c \in Clients PROVE MatchedAt(c)
  <2>1. ASSUME NEW o PROVE ~ Pend(c, o)
    BY <1>1, <1>2 DEF Pend, Working
  <2> QED BY <1>1, <1>2, <2>1 DEF MatchedAt
<1>5. ASSUME NEW c \in Clients PROVE AddressedAt(c)
  BY <1>1, <1>2 DEF AddressedAt, Working, Exits
<1>6. ASSUME NEW c \in Clients PROVE ~ In(c)
  BY <1>1, <1>2 DEF In, Entered, Leaving
<1>7. Kept
  <2>1. sessions = {}
    BY DEF Init
  <2> QED BY <1>6, <2>1 DEF Kept
<1> QED BY <1>3, <1>4, <1>5, <1>7 DEF PInv, Waited, Matched, Addressed

\* Where users await their answers, clients and the table stay in step.
LEMMA KeptHolds == ASSUME Patient PROVE Spec => [](TInv /\ PInv)
<1>1. Init => TInv /\ PInv
  BY InitTypes, InitKeeps
<1>2. (TInv /\ PInv) /\ [Next]_vars => (TInv /\ PInv)'
  <2> SUFFICES ASSUME TInv, PInv, [Next]_vars PROVE TInv' /\ PInv'
    OBVIOUS
  <2>1. TInv'
    BY NextTypes
  <2>2. ASSUME NEW c \in Clients, User(c) PROVE PInv'
    BY <2>1, <2>2, UserKeeps
  <2>3. ASSUME NEW c \in Clients, Read(c) PROVE PInv'
    BY <2>1, <2>3, ReadKeeps
  <2>4. ASSUME NEW c \in Clients, Handler(c) PROVE PInv'
    BY <2>4, HandlerKeeps
  <2>5. CASE UNCHANGED vars
    <3>1. UNCHANGED <<on, logged, name, lastOp, asked, toServer, toClient, sessions, obj, pc,
                      req, answer, overtaken, disputed>>
      BY <2>5 DEF vars, clientVars, handlerVars, historyVars
    <3>2. ASSUME NEW d \in Clients
          PROVE  MatchedAt(d)' /\ AddressedAt(d)' /\ (In(d)' <=> In(d))
      <4>1. MatchedAt(d) /\ AddressedAt(d)
        BY DEF PInv, Matched, Addressed
      <4> QED BY <3>1, <4>1, SameKeeps
    <3>3. Kept'
      BY <3>1, <3>2, KeptStays DEF PInv
    <3>4. Waited'
      BY <3>1 DEF PInv, Waited
    <3>5. Matched' /\ Addressed'
      BY <3>2 DEF Matched, Addressed
    <3> QED BY <2>1, <3>3, <3>4, <3>5 DEF PInv
  <2> QED BY <2>1, <2>2, <2>3, <2>4, <2>5 DEF Next, Rest
<1> QED BY <1>1, <1>2, PTL DEF Spec

\* Users who await their answers and are in no hurry disagree with the table in two
\* ways only: another text was taken for the answer to a login, or two logins of one user
\* passed the check before either was entered.  A client may log in, out and in again
\* as often as it likes.
THEOREM AgreementCorrect == ASSUME Patient PROVE Spec => []SessionsAgreeUnless
<1>1. TInv /\ PInv => SessionsAgreeUnless
  <2> SUFFICES ASSUME TInv, PInv, NEW c \in Clients \ overtaken, NEW u \in Users \ disputed,
                      Settled(c)
               PROVE  <<u, c>> \in sessions <=> logged[c] > 0 /\ name[c] = u
    BY DEF SessionsAgreeUnless
  <2>1. logged[c] \in 0..1
    BY DEF TInv, Shape, TypeOK
  <2>2. ToSet(<<>>) = {}
    BY EmptySeq DEF ToSet
  <2>3. ~ Entered(c) /\ ~ Leaving(c) /\ pc[c] = "command"
    BY <2>2 DEF Entered, Leaving, Settled
  <2>4. In(c) <=> logged[c] = 1
    BY <2>3 DEF In
  <2>5. <<u, c>> \in sessions <=> In(c) /\ name[c] = u
    BY DEF PInv, Kept
  <2> QED BY <2>1, <2>4, <2>5
<1>2. Spec => [](TInv /\ PInv)
  BY KeptHolds
<1> QED BY <1>1, <1>2, PTL

\* Where users await their answers, a session whose connection is gone is one of a
\* client that took another text for the answer to its login, or of a user who was
\* logged in twice.  This is about the table's entries: a pointer that was taken from it
\* may still be freed before it is sent through.
THEOREM LiveCorrect == ASSUME Patient PROVE Spec => []SessionsLiveUnless
<1>1. TInv /\ PInv => SessionsLiveUnless
  <2> SUFFICES ASSUME TInv, PInv, NEW s \in sessions, s[2] \notin overtaken,
                      s[1] \notin disputed, obj[s[2]] # "live"
               PROVE  FALSE
    BY DEF SessionsLiveUnless
  <2>1. PICK c \in Clients, u \in Users : s = <<u, c>> /\ s[1] = u /\ s[2] = c
    BY DEF TInv, Shape, TypeOK
  <2>2. In(c)
    BY <2>1 DEF PInv, Kept
  <2>3. MatchedAt(c) /\ AddressedAt(c)
    BY DEF PInv, Matched, Addressed
  <2>4. pc[c] = "ended" /\ req[c].op \in Exits
    <3>1. pc[c] = "ended"
      BY <2>1, <2>3 DEF AddressedAt
    <3> QED BY <3>1 DEF TInv, Shape, ServedAt
  <2>5. toServer[c] = <<>> /\ on[c] # "on" /\ (req[c].op = "exit" => logged[c] = 0)
    BY <2>3, <2>4 DEF AddressedAt
  <2>6. ~ Pend(c, "login")
    BY <2>3, <2>5 DEF MatchedAt
  <2>7. ~ Entered(c)
    BY <2>4, <2>6 DEF Entered, Pend
  <2>8. ToSet(<<>>) = {}
    BY EmptySeq DEF ToSet
  <2>9. ~ Leaving(c)
    BY <2>4, <2>5, <2>8 DEF Leaving
  <2>10. req[c].op = "exitLoggedIn" \/ logged[c] = 0
    BY <2>4, <2>5 DEF Exits
  <2> QED BY <2>2, <2>4, <2>7, <2>9, <2>10 DEF In
<1>2. Spec => [](TInv /\ PInv)
  BY KeptHolds
<1> QED BY <1>1, <1>2, PTL
=============================================================================
