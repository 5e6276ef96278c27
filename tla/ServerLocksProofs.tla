-------------------------- MODULE ServerLocksProofs --------------------------
(***************************************************************************)
(* What holds of the three locks for any number of users, any names and any  *)
(* failures: who owns which lock, which files are open, and who waits for    *)
(* whom.  A handler's remaining steps tell what it holds: the proof reads     *)
(* them as a path through the places a handler can be in.                    *)
(***************************************************************************)
EXTENDS ServerLocks, FiniteSetTheorems, SequenceTheorems, TLAPS

---------------------------------------------------------------------------
(* What a handler holds between two of its steps.                           *)

HeldNames == {"nothing", "checked", "sessions", "accounts", "inner", "files", "opened",
              "both", "draining", "closed"}
Places == [held : HeldNames, path : Seq(Nat)]

\* "inner" is the lock of the files inside a broadcast's lock of the accounts,
\* "both" the locks of a history that reads its file.
Holding(held, path) == [held |-> held, path |-> path]
Place(held) == Holding(held, <<>>)
Free == Place("nothing")

\* Step s of the handler of c goes from p to q.
Moves(c, s, p, q) ==
  \/ s.op = "say" /\ p = q /\ p.held \in {"nothing", "sessions", "accounts", "both", "draining"}
  \/ s.op \in {"rewind", "search"} /\ s.on = "accounts" /\ p = Free /\ q = Free
  \/ s.op = "recheck" /\ s.on = "accounts" /\ p = Free /\ q = Place("checked")
  \/ s.op = "read" /\ p \in {Free, Place("checked")} /\ q = Free
  \/ s.op = "use" /\ p = Free /\ q = Free
  \/ s.op = "use" /\ s.on = "files" /\ p = Place("accounts") /\ q = p
  \/ s.op = "lock" /\ s.on = "files" /\ p = Free /\ q = Place("files")
  \/ s.op = "lock" /\ s.on = "files" /\ p = Place("accounts") /\ q = Place("inner")
  \/ s.op = "share" /\ s.on = "mapping" /\ p = Free /\ q = Place("sessions")
  \/ s.op = "share" /\ s.on = "accounts" /\ p = Free /\ q = Place("accounts")
  \/ s.op = "share" /\ s.on = "accounts" /\ p.held = "opened" /\ q = Holding("both", p.path)
  \/ s.op = "unshare" /\ s.on = "mapping" /\ p = Place("sessions") /\ q = Free
  \/ s.op = "unshare" /\ s.on = "accounts" /\ p = Place("accounts") /\ q = Free
  \/ s.op = "look" /\ p = Place("accounts") /\ q = p
  \/ s.op \in {"address", "insert", "remove"} /\ p = Free /\ q = Free
  \/ s.op \in {"find", "get"} /\ p \in {Free, Place("accounts")} /\ q = p
  \/ s.op = "get" /\ s.on = c /\ p = Free /\ q = Holding("draining", Pending(c))
  \/ s.op = "seek" /\ s.on = c /\ p.held = "draining" /\ q = p
  \/ s.op = "close" /\ s.on = c /\ p = Holding("draining", Pending(c))
       /\ q = Holding("closed", Pending(c))
  \/ s.op = "unlist" /\ s.on = c /\ p = Holding("closed", Pending(c)) /\ q = Free
  \/ s.op = "list" /\ p = Place("files") /\ q = Free
  \/ s.op = "list" /\ p = Place("inner") /\ q = Place("accounts")
  \/ s.op = "append" /\ p = Place("files") /\ q = Free
  \/ s.op = "open" /\ p = Place("files") /\ q = Holding("opened", s.on)
  \/ s.op = "finish" /\ p = Holding("both", s.on) /\ q = Free

\* The steps s lead the handler of c from p to q.
Leads(c, s, p, q) ==
  \E f \in [1..(Len(s) + 1) -> Places] :
    /\ f[1] = p /\ f[Len(s) + 1] = q
    /\ \A i \in 1..Len(s) : Moves(c, s[i], f[i], f[i + 1])

---------------------------------------------------------------------------
(* The inductive invariant.                                                 *)

InFiles == {"files", "inner", "opened", "both"}
InAccounts == {"accounts", "inner", "both"}

\* Each lock is owned as the places of the handlers say, or for ever.
Owned(at) ==
  /\ \A c \in Users :
       /\ c \in lock["files"].writer <=> at[c].held \in InFiles
       /\ c \in lock["accounts"].readers <=> at[c].held \in InAccounts
       /\ c \in lock["mapping"].readers <=> at[c].held = "sessions"
  /\ lock["accounts"].writer \subseteq {Gone}
  /\ lock["mapping"].writer = {} /\ lock["mapping"].readers \subseteq Users
  /\ lock["files"].readers = {}

\* The files that are open: those of listed users, until their login closes them,
\* and the one of a history.
Opened(at) ==
  /\ up => \A c \in Users : at[c].held \in {"draining", "closed"} => c \in listed
  /\ \A p \in open :
       \/ \E u \in listed : p = Pending(u) /\ at[u].held # "closed"
       \/ \E c \in Users : at[c].held \in {"opened", "both"} /\ at[c].path = p
       \/ Gone \in lock["files"].writer

Consistent(at) ==
  /\ \A c \in Users : Leads(c, todo[c], at[c], Free)
  /\ Owned(at)
  /\ Opened(at)

IInv == TypeOK /\ \E at \in [Users -> Places] : Consistent(at)

---------------------------------------------------------------------------
(* Paths through the places.                                                *)

\* Where no step is left, the place is the last one.
LEMMA LeadsNowhere ==
  ASSUME NEW c, NEW p, NEW q, Leads(c, <<>>, p, q)
  PROVE  p = q
BY EmptySeq DEF Leads

\* A handler that is not where it should end has a step to do.
LEMMA LeadsFirst ==
  ASSUME NEW c, NEW S, NEW s \in Seq(S), s # <<>>, NEW p, NEW q, Leads(c, s, p, q)
  PROVE  \E r \in Places : Moves(c, Head(s), p, r) /\ Leads(c, Tail(s), r, q)
<1>1. PICK f \in [1..(Len(s) + 1) -> Places] :
        /\ f[1] = p /\ f[Len(s) + 1] = q
        /\ \A i \in 1..Len(s) : Moves(c, s[i], f[i], f[i + 1])
  BY DEF Leads
<1>2. /\ Len(s) \in Nat \ {0} /\ Head(s) = s[1]
      /\ Len(Tail(s)) = Len(s) - 1
      /\ \A i \in 1..Len(Tail(s)) : Tail(s)[i] = s[i + 1]
  BY HeadTailProperties, EmptySeq, LenProperties
<1> DEFINE g == [i \in 1..Len(s) |-> f[i + 1]]
<1>3. Moves(c, Head(s), p, f[2]) /\ f[2] \in Places
  BY <1>1, <1>2
<1>4. g \in [1..(Len(Tail(s)) + 1) -> Places]
  BY <1>2
<1>5. g[1] = f[2] /\ g[Len(Tail(s)) + 1] = q
  BY <1>1, <1>2
<1>6. ASSUME NEW i \in 1..Len(Tail(s)) PROVE Moves(c, Tail(s)[i], g[i], g[i + 1])
  <2>1. i + 1 \in 1..Len(s) /\ i \in 1..Len(s) /\ Tail(s)[i] = s[i + 1]
    BY <1>2
  <2>2. g[i] = f[i + 1] /\ g[i + 1] = f[(i + 1) + 1]
    BY <2>1
  <2> QED BY <1>1, <2>1, <2>2
<1>7. Leads(c, Tail(s), f[2], q)
  <2> HIDE DEF g
  <2> QED BY <1>4, <1>5, <1>6 DEF Leads
<1> QED BY <1>3, <1>7

\* A step is a path.
LEMMA LeadsStep ==
  ASSUME NEW c, NEW x, NEW p \in Places, NEW q \in Places, Moves(c, x, p, q)
  PROVE  Leads(c, <<x>>, p, q)
<1> DEFINE f == [i \in 1..2 |-> IF i = 1 THEN p ELSE q]
<1>1. Len(<<x>>) = 1 /\ <<x>>[1] = x
  OBVIOUS
<1>2. f \in [1..2 -> Places] /\ f[1] = p /\ f[2] = q
  OBVIOUS
<1>3. \A i \in 1..1 : Moves(c, <<x>>[i], f[i], f[i + 1])
  <2>1. ASSUME NEW i \in 1..1 PROVE Moves(c, <<x>>[i], f[i], f[i + 1])
    <3>1. i = 1 /\ f[i + 1] = q /\ f[i] = p
      BY <1>2
    <3> QED BY <1>1, <3>1
  <2> QED BY <2>1
<1> HIDE DEF f
<1> QED BY <1>1, <1>2, <1>3 DEF Leads

\* A path that stays where it is.
LEMMA LeadsOn ==
  ASSUME NEW c, NEW S, NEW s \in Seq(S), NEW p \in Places,
         \A i \in 1..Len(s) : Moves(c, s[i], p, p)
  PROVE  Leads(c, s, p, p)
<1> DEFINE f == [i \in 1..(Len(s) + 1) |-> p]
<1>1. Len(s) \in Nat
  BY LenProperties
<1>2. f \in [1..(Len(s) + 1) -> Places] /\ f[1] = p /\ f[Len(s) + 1] = p
  BY <1>1
<1>3. ASSUME NEW i \in 1..Len(s) PROVE Moves(c, s[i], f[i], f[i + 1])
  <2>1. f[i] = p /\ f[i + 1] = p
    BY <1>1
  <2> QED BY <2>1
<1> HIDE DEF f
<1> QED BY <1>2, <1>3 DEF Leads

\* Paths that meet make one.
LEMMA LeadsConcat ==
  ASSUME NEW c, NEW S, NEW s \in Seq(S), NEW t \in Seq(S), NEW p, NEW q, NEW r,
         Leads(c, s, p, q), Leads(c, t, q, r)
  PROVE  Leads(c, s \o t, p, r)
<1>1. PICK f \in [1..(Len(s) + 1) -> Places] :
        /\ f[1] = p /\ f[Len(s) + 1] = q
        /\ \A i \in 1..Len(s) : Moves(c, s[i], f[i], f[i + 1])
  BY DEF Leads
<1>2. PICK g \in [1..(Len(t) + 1) -> Places] :
        /\ g[1] = q /\ g[Len(t) + 1] = r
        /\ \A i \in 1..Len(t) : Moves(c, t[i], g[i], g[i + 1])
  BY DEF Leads
<1>3. /\ Len(s) \in Nat /\ Len(t) \in Nat /\ Len(s \o t) = Len(s) + Len(t)
      /\ \A i \in 1..(Len(s) + Len(t)) :
           (s \o t)[i] = IF i <= Len(s) THEN s[i] ELSE t[i - Len(s)]
  BY ConcatProperties, LenProperties
<1> DEFINE h == [i \in 1..(Len(s) + Len(t) + 1) |->
                   IF i <= Len(s) THEN f[i] ELSE g[i - Len(s)]]
<1>4. h \in [1..(Len(s) + Len(t) + 1) -> Places]
  <2>1. ASSUME NEW i \in 1..(Len(s) + Len(t) + 1)
        PROVE (IF i <= Len(s) THEN f[i] ELSE g[i - Len(s)]) \in Places
    <3>1. CASE i <= Len(s)
      BY <1>3, <3>1
    <3>2. CASE ~(i <= Len(s))
      <4>1. i - Len(s) \in 1..(Len(t) + 1)
        BY <1>3, <3>2
      <4> QED BY <3>2, <4>1
    <3> QED BY <3>1, <3>2
  <2> QED BY <2>1
<1>5. h[1] = p /\ h[Len(s) + Len(t) + 1] = r
  <2>1. h[1] = p
    <3>1. CASE Len(s) = 0
      BY <1>1, <1>2, <1>3, <3>1
    <3>2. CASE Len(s) # 0
      BY <1>1, <1>3, <3>2
    <3> QED BY <3>1, <3>2
  <2>2. (Len(s) + Len(t) + 1) - Len(s) = Len(t) + 1 /\ ~(Len(s) + Len(t) + 1 <= Len(s))
    BY <1>3
  <2>3. h[Len(s) + Len(t) + 1] = r
    BY <1>2, <1>3, <2>2
  <2> QED BY <2>1, <2>3
<1>6. ASSUME NEW i \in 1..(Len(s) + Len(t))
      PROVE  Moves(c, (s \o t)[i], h[i], h[i + 1])
  <2>1. CASE i < Len(s)
    <3>1. h[i] = f[i] /\ h[i + 1] = f[i + 1] /\ (s \o t)[i] = s[i] /\ i \in 1..Len(s)
      BY <1>3, <2>1
    <3> QED BY <1>1, <3>1
  <2>2. CASE i = Len(s)
    <3>1. h[i] = f[i] /\ h[i + 1] = g[1] /\ (s \o t)[i] = s[i] /\ i \in 1..Len(s)
      BY <1>3, <2>2
    <3>2. f[i + 1] = g[1]
      BY <1>1, <1>2, <2>2
    <3> QED BY <1>1, <3>1, <3>2
  <2>3. CASE i > Len(s)
    <3>1. i - Len(s) \in 1..Len(t) /\ (i + 1) - Len(s) = (i - Len(s)) + 1
      BY <1>3, <2>3
    <3>2. h[i] = g[i - Len(s)] /\ (s \o t)[i] = t[i - Len(s)]
      BY <1>3, <2>3
    <3>3. h[i + 1] = g[(i - Len(s)) + 1]
      BY <1>3, <2>3, <3>1
    <3> QED BY <1>2, <3>1, <3>2, <3>3
  <2> QED BY <1>3, <2>1, <2>2, <2>3
<1> HIDE DEF h
<1> QED BY <1>3, <1>4, <1>5, <1>6 DEF Leads

---------------------------------------------------------------------------
(* The steps that make a handler's way through a command.                   *)

\* The steps s are steps, and lead the handler of c from p to q.
Way(c, s, p, q) ==
  /\ s \in Seq(Steps) /\ p \in Places /\ q \in Places
  /\ Leads(c, s, p, q)

\* The names of files are sequences of character codes, and no pending file has
\* the empty one.
LEMMA PathTypes ==
  /\ \A u \in Users : Pending(u) \in Seq(Nat) \ {<<>>} /\ Pending(u) \in Paths
  /\ \A u, v \in Users : HistoryPath(u, v) \in Paths
  /\ Paths \subseteq Seq(Nat)
<1>1. \A u \in Users : Name[u] \in Seq(Nat) \ {<<>>}
  BY ServerLocksAssumption
<1>2. \A u, v \in Users : HistoryPath(u, v) \in Seq(Nat)
  <2>1. ASSUME NEW u \in Users, NEW v \in Users PROVE HistoryPath(u, v) \in Seq(Nat)
    <3>1. Name[u] \in Seq(Nat) /\ Name[v] \in Seq(Nat)
      BY <1>1
    <3>2. Name[u] \o Name[v] \in Seq(Nat) /\ Name[v] \o Name[u] \in Seq(Nat)
      BY <3>1, ConcatProperties
    <3> QED BY <3>2 DEF HistoryPath
  <2> QED BY <2>1
<1> QED BY <1>1, <1>2 DEF Pending, Paths

\* No two users share a pending file.
LEMMA PendingInjective ==
  ASSUME NEW u \in Users, NEW v \in Users, Pending(u) = Pending(v)
  PROVE  u = v
BY ServerLocksAssumption DEF Pending

\* The places of handlers.
LEMMA PlaceTypes ==
  /\ \A h \in HeldNames : Place(h) \in Places
  /\ Free \in Places
  /\ \A h \in HeldNames, p \in Seq(Nat) : Holding(h, p) \in Places
<1>1. <<>> \in Seq(Nat)
  BY EmptySeq
<1> QED BY <1>1 DEF Place, Places, Holding, Free, HeldNames

\* The steps that the commands are made of.
LEMMA StepTypes ==
  /\ \A op \in LockOps, l \in LockNames : Step(op, l) \in Steps
  /\ \A op \in UserOps, u \in Users : Step(op, u) \in Steps
  /\ \A op \in PathOps, p \in Paths : Step(op, p) \in Steps
BY DEF Step, Steps

\* A way of no step.
LEMMA WayNowhere ==
  ASSUME NEW c, NEW p \in Places
  PROVE  Way(c, <<>>, p, p)
<1> DEFINE none == <<>>
<1>1. none \in Seq(Steps) /\ Len(none) = 0
  BY EmptySeq
<1> HIDE DEF none
<1>2. \A i \in 1..Len(none) : Moves(c, none[i], p, p)
  BY <1>1
<1>3. Leads(c, none, p, p)
  BY <1>1, <1>2, LeadsOn
<1>4. Way(c, none, p, p)
  BY <1>1, <1>3 DEF Way
<1> QED BY <1>4 DEF none

\* A way of one step.
LEMMA WayOfOne ==
  ASSUME NEW c, NEW x \in Steps, NEW p \in Places, NEW q \in Places, Moves(c, x, p, q)
  PROVE  Way(c, <<x>>, p, q)
<1>1. <<x>> \in Seq(Steps)
  OBVIOUS
<1> QED BY <1>1, LeadsStep DEF Way

\* Ways that meet make one.
LEMMA WayJoins ==
  ASSUME NEW c, NEW s, NEW t, NEW p, NEW q, NEW r, Way(c, s, p, q), Way(c, t, q, r)
  PROVE  Way(c, s \o t, p, r)
<1>1. s \o t \in Seq(Steps)
  BY ConcatProperties DEF Way
<1> QED BY <1>1, LeadsConcat DEF Way

\* A way of two steps.
LEMMA WayOfTwo ==
  ASSUME NEW c, NEW x \in Steps, NEW y \in Steps,
         NEW p \in Places, NEW q \in Places, NEW r \in Places,
         Moves(c, x, p, q), Moves(c, y, q, r)
  PROVE  Way(c, <<x, y>>, p, r)
<1>1. <<x, y>> = <<x>> \o <<y>>
  <2> DEFINE one == <<x>>  two == <<y>>  both == <<x, y>>
  <2>1. one \in Seq(Steps) /\ two \in Seq(Steps) /\ both \in Seq(Steps)
    OBVIOUS
  <2>2. Len(one) = 1 /\ Len(two) = 1 /\ Len(both) = 2
        /\ one[1] = x /\ two[1] = y /\ both[1] = x /\ both[2] = y
    OBVIOUS
  <2> HIDE DEF one, two, both
  <2>3. one \o two \in Seq(Steps) /\ Len(one \o two) = 2
        /\ \A i \in 1..2 : (one \o two)[i] = both[i]
    BY <2>1, <2>2, ConcatProperties
  <2>4. both = one \o two
    BY <2>1, <2>2, <2>3, SeqEqual
  <2> QED BY <2>4 DEF one, two, both
<1> QED BY <1>1, WayOfOne, WayJoins

\* A way of three steps.
LEMMA WayOfThree ==
  ASSUME NEW c, NEW x \in Steps, NEW y \in Steps, NEW z \in Steps,
         NEW p \in Places, NEW q \in Places, NEW r \in Places, NEW o \in Places,
         Moves(c, x, p, q), Moves(c, y, q, r), Moves(c, z, r, o)
  PROVE  Way(c, <<x, y, z>>, p, o)
<1>1. <<x, y, z>> = <<x, y>> \o <<z>>
  <2> DEFINE two == <<x, y>>  one == <<z>>  all == <<x, y, z>>
  <2>1. two \in Seq(Steps) /\ one \in Seq(Steps) /\ all \in Seq(Steps)
    OBVIOUS
  <2>2. Len(two) = 2 /\ Len(one) = 1 /\ Len(all) = 3
        /\ two[1] = x /\ two[2] = y /\ one[1] = z
        /\ all[1] = x /\ all[2] = y /\ all[3] = z
    OBVIOUS
  <2> HIDE DEF one, two, all
  <2>3. /\ two \o one \in Seq(Steps) /\ Len(two \o one) = Len(two) + Len(one)
        /\ \A i \in 1..(Len(two) + Len(one)) :
             (two \o one)[i] = IF i <= Len(two) THEN two[i] ELSE one[i - Len(two)]
    BY <2>1, ConcatProperties
  <2>4. /\ Len(two \o one) = 3
        /\ (two \o one)[1] = all[1] /\ (two \o one)[2] = all[2] /\ (two \o one)[3] = all[3]
    BY <2>2, <2>3
  <2>5. \A i \in 1..3 : i = 1 \/ i = 2 \/ i = 3
    OBVIOUS
  <2>6. all = two \o one
    BY <2>1, <2>2, <2>3, <2>4, <2>5, SeqEqual
  <2> QED BY <2>6 DEF one, two, all
<1>2. Way(c, <<x, y>>, p, r) /\ Way(c, <<z>>, r, o)
  BY WayOfOne, WayOfTwo
<1> QED BY <1>1, <1>2, WayJoins

---------------------------------------------------------------------------
(* The commands are ways from holding nothing to holding nothing.           *)

Errand(c, s) == Way(c, s, Free, Free)

\* One errand after the other is one.
LEMMA ErrandJoins ==
  ASSUME NEW c, NEW s, NEW t, Errand(c, s), Errand(c, t)
  PROVE  Errand(c, s \o t)
BY WayJoins DEF Errand

\* A step that may be there or not.
LEMMA WayMaybe ==
  ASSUME NEW c, NEW p \in Places, NEW u \in Users, NEW s \in Maybe(Say(u)),
         p.held \in {"nothing", "accounts", "both", "draining"}
  PROVE  Way(c, s, p, p)
<1>1. Moves(c, Say(u), p, p) /\ Say(u) \in Steps
  BY StepTypes DEF Moves, Say, Step, UserOps
<1> QED BY <1>1, WayNowhere, WayOfOne DEF Maybe

\* An answer, where nothing is held.
LEMMA SayErrand ==
  ASSUME NEW c, NEW u \in Users
  PROVE  Errand(c, <<Say(u)>>)
<1>1. Moves(c, Say(u), Free, Free) /\ Say(u) \in Steps
  BY StepTypes DEF Moves, Say, Step, UserOps, Free, Place, Holding
<1> QED BY <1>1, PlaceTypes, WayOfOne DEF Errand

\* The scan of the accounts, found or not.
LEMMA CheckErrand ==
  ASSUME NEW c, NEW found \in BOOLEAN
  PROVE  Errand(c, CheckRegisteredUser(found))
<1> DEFINE first == Step(IF found THEN "recheck" ELSE "search", "accounts")
           q == IF found THEN Place("checked") ELSE Free
<1>1. first \in Steps /\ Step("read", "accounts") \in Steps
  BY StepTypes DEF LockOps, LockNames
<1>2. Free \in Places /\ q \in Places
  BY PlaceTypes DEF HeldNames
<1>3. Moves(c, first, Free, q) /\ Moves(c, Step("read", "accounts"), q, Free)
  BY DEF Moves, Step
<1> HIDE DEF first, q
<1>4. Way(c, <<first, Step("read", "accounts")>>, Free, Free)
  BY <1>1, <1>2, <1>3, WayOfTwo
<1> QED BY <1>4 DEF first, Errand, CheckRegisteredUser

\* The way to a pending file, alone and within a broadcast.
LEMMA StoreWay ==
  ASSUME NEW c, NEW u \in Users, NEW p \in {Free, Place("accounts")}
  PROVE  Way(c, Store(u), p, p)
<1>1. Step("find", u) \in Steps /\ Step("get", u) \in Steps /\ Step("use", "files") \in Steps
  BY StepTypes DEF LockOps, LockNames, UserOps
<1>2. p \in Places
  BY PlaceTypes DEF HeldNames
<1>3. /\ Moves(c, Step("find", u), p, p) /\ Moves(c, Step("get", u), p, p)
      /\ Moves(c, Step("use", "files"), p, p)
  BY DEF Moves, Step
<1>4. Way(c, <<Step("find", u), Step("get", u), Step("use", "files")>>, p, p)
  BY <1>1, <1>2, <1>3, WayOfThree
<1> QED BY <1>4 DEF Store

\* The way through the creation of a pending file's entry.
LEMMA OpenPendingWay ==
  ASSUME NEW c, NEW u \in Users, NEW p \in {Free, Place("accounts")}
  PROVE  Way(c, OpenPending(u), p, p)
<1> DEFINE q == IF p = Free THEN Place("files") ELSE Place("inner")
<1>1. Step("lock", "files") \in Steps /\ Step("list", u) \in Steps
  BY StepTypes DEF LockOps, LockNames, UserOps
<1>2. p \in Places /\ q \in Places
  BY PlaceTypes DEF HeldNames
<1>3. Moves(c, Step("lock", "files"), p, q) /\ Moves(c, Step("list", u), q, p)
  BY DEF Moves, Step
<1> HIDE DEF q
<1>4. Way(c, <<Step("lock", "files"), Step("list", u)>>, p, p)
  BY <1>1, <1>2, <1>3, WayOfTwo
<1> QED BY <1>4 DEF OpenPending

\* RegisterClient begins and ends with nothing held.
LEMMA RegisterErrand ==
  ASSUME NEW c \in Users
  PROVE  /\ Errand(c, CheckRegisteredUser(TRUE) \o <<Say(c)>>)
         /\ Errand(c, CheckRegisteredUser(FALSE) \o <<Step("use", "accounts"), Say(c)>>)
<1>1. Errand(c, <<Step("use", "accounts"), Say(c)>>)
  <2>1. Step("use", "accounts") \in Steps /\ Say(c) \in Steps
    BY StepTypes DEF LockOps, LockNames, UserOps, Say
  <2>2. Moves(c, Step("use", "accounts"), Free, Free) /\ Moves(c, Say(c), Free, Free)
    BY DEF Moves, Step, Say, Free, Place, Holding
  <2> QED BY <2>1, <2>2, PlaceTypes, WayOfTwo DEF Errand
<1>2. Errand(c, CheckRegisteredUser(TRUE)) /\ Errand(c, CheckRegisteredUser(FALSE))
  BY CheckErrand
<1> QED BY <1>1, <1>2, SayErrand, ErrandJoins

\* LoginClient does, and holds the pending file's handle in between.
LEMMA LoginErrand ==
  ASSUME NEW c \in Users, NEW text \in Maybe(Say(c))
  PROVE  LET scan == <<Step("rewind", "accounts"), Step("read", "accounts")>>
             drain == <<Step("find", c), Step("get", c), Step("seek", c)>>
         IN  /\ Errand(c, scan \o <<Say(c)>>)
             /\ Errand(c, scan \o <<Step("read", "mapping"), Step("insert", c), Say(c)>>
                            \o drain \o text \o <<Step("close", c), Step("unlist", c)>>)
<1> DEFINE scan == <<Step("rewind", "accounts"), Step("read", "accounts")>>
           test == <<Step("read", "mapping"), Step("insert", c), Say(c)>>
           drain == <<Step("find", c), Step("get", c), Step("seek", c)>>
           end == <<Step("close", c), Step("unlist", c)>>
           draining == Holding("draining", Pending(c))
           closed == Holding("closed", Pending(c))
<1>1. /\ Step("rewind", "accounts") \in Steps /\ Step("read", "accounts") \in Steps
      /\ Step("read", "mapping") \in Steps /\ Step("insert", c) \in Steps /\ Say(c) \in Steps
      /\ Step("find", c) \in Steps /\ Step("get", c) \in Steps /\ Step("seek", c) \in Steps
      /\ Step("close", c) \in Steps /\ Step("unlist", c) \in Steps
  BY StepTypes DEF LockOps, LockNames, UserOps, Say
<1>2. Free \in Places /\ draining \in Places /\ closed \in Places
  BY PlaceTypes, PathTypes DEF HeldNames
<1>3. Errand(c, scan)
  <2>1. /\ Moves(c, Step("rewind", "accounts"), Free, Free)
        /\ Moves(c, Step("read", "accounts"), Free, Free)
    BY DEF Moves, Step
  <2> QED BY <1>1, <1>2, <2>1, WayOfTwo DEF Errand
<1>4. Errand(c, test)
  <2>1. /\ Moves(c, Step("read", "mapping"), Free, Free)
        /\ Moves(c, Step("insert", c), Free, Free)
        /\ Moves(c, Say(c), Free, Free)
    BY DEF Moves, Step, Say, Free, Place, Holding
  <2> QED BY <1>1, <1>2, <2>1, WayOfThree DEF Errand
<1>5. Way(c, drain, Free, draining)
  <2>1. /\ Moves(c, Step("find", c), Free, Free)
        /\ Moves(c, Step("get", c), Free, draining)
        /\ Moves(c, Step("seek", c), draining, draining)
    BY DEF Moves, Step, Holding
  <2> QED BY <1>1, <1>2, <2>1, WayOfThree
<1>6. Way(c, text, draining, draining)
  BY <1>2, WayMaybe DEF Holding
<1>7. Way(c, end, draining, Free)
  <2>1. Moves(c, Step("close", c), draining, closed) /\ Moves(c, Step("unlist", c), closed, Free)
    BY DEF Moves, Step
  <2> QED BY <1>1, <1>2, <2>1, WayOfTwo
<1>8. Errand(c, scan \o <<Say(c)>>)
  BY <1>3, SayErrand, ErrandJoins
<1> HIDE DEF scan, test, drain, end
<1>9. Errand(c, scan \o test \o drain \o text \o end)
  BY <1>3, <1>4, <1>5, <1>6, <1>7, WayJoins DEF Errand
<1> QED BY <1>8, <1>9 DEF scan, test, drain, end

\* LogoutClient does.
LEMMA LogoutErrand ==
  ASSUME NEW c \in Users
  PROVE  Errand(c, <<Step("remove", c), Say(c)>>)
<1>1. Step("remove", c) \in Steps /\ Say(c) \in Steps
  BY StepTypes DEF UserOps, Say
<1>2. Moves(c, Step("remove", c), Free, Free) /\ Moves(c, Say(c), Free, Free)
  BY DEF Moves, Step, Say, Free, Place, Holding
<1> QED BY <1>1, <1>2, PlaceTypes, WayOfTwo DEF Errand

\* ListClients does, with the sessions shared in between.
LEMMA ListErrand ==
  ASSUME NEW c \in Users
  PROVE  Errand(c, <<Step("share", "mapping"), Step("unshare", "mapping")>>)
<1>1. Step("share", "mapping") \in Steps /\ Step("unshare", "mapping") \in Steps
  BY StepTypes DEF LockOps, LockNames
<1>2. /\ Moves(c, Step("share", "mapping"), Free, Place("sessions"))
      /\ Moves(c, Step("unshare", "mapping"), Place("sessions"), Free)
  BY DEF Moves, Step
<1>3. Free \in Places /\ Place("sessions") \in Places
  BY PlaceTypes DEF HeldNames
<1> QED BY <1>1, <1>2, <1>3, WayOfTwo DEF Errand

\* ProcessMsg does, with the lock of the files taken for the history.
LEMMA MsgErrand ==
  ASSUME NEW c \in Users, NEW u \in Users
  PROVE  Errand(c, <<Step("lock", "files"), Step("append", HistoryPath(c, u))>>
                     \o (IF u = c THEN <<>> ELSE <<Step("address", u)>>) \o <<Say(c)>>)
<1> DEFINE write == <<Step("lock", "files"), Step("append", HistoryPath(c, u))>>
           send == IF u = c THEN <<>> ELSE <<Step("address", u)>>
<1>1. /\ Step("lock", "files") \in Steps /\ Step("append", HistoryPath(c, u)) \in Steps
      /\ Step("address", u) \in Steps
  BY StepTypes, PathTypes DEF LockOps, LockNames, UserOps, PathOps
<1>2. Free \in Places /\ Place("files") \in Places
  BY PlaceTypes DEF HeldNames
<1>3. Errand(c, write)
  <2>1. /\ Moves(c, Step("lock", "files"), Free, Place("files"))
        /\ Moves(c, Step("append", HistoryPath(c, u)), Place("files"), Free)
    BY DEF Moves, Step
  <2> QED BY <1>1, <1>2, <2>1, WayOfTwo DEF Errand
<1>4. Errand(c, send)
  <2>1. Moves(c, Step("address", u), Free, Free)
    BY DEF Moves, Step
  <2> QED BY <1>1, <1>2, <2>1, WayNowhere, WayOfOne DEF Errand
<1> HIDE DEF write, send
<1>5. Errand(c, write \o send \o <<Say(c)>>)
  BY <1>3, <1>4, SayErrand, ErrandJoins
<1> QED BY <1>5 DEF write, send

\* ProcessBroadcast does, with the accounts shared round by round.
LEMMA BroadcastErrand ==
  ASSUME NEW c \in Users, NEW others \in Rounds[c]
  PROVE  Errand(c, <<Step("rewind", "accounts"), Step("share", "accounts")>>
                     \o [i \in DOMAIN others |-> Step("look", others[i])]
                     \o <<Step("unshare", "accounts"), Say(c)>>)
<1> DEFINE begin == <<Step("rewind", "accounts"), Step("share", "accounts")>>
           looks == [i \in DOMAIN others |-> Step("look", others[i])]
           end == <<Step("unshare", "accounts"), Say(c)>>
           inside == Place("accounts")
<1>1. PICK n \in 0..Cardinality(Users) : others \in [1..n -> Users \ {c}]
  BY DEF Rounds
<1>2. n \in Nat
  BY <1>1, ServerLocksAssumption, FS_CardinalityType
<1>3. looks \in Seq(Steps) /\ Len(looks) = n
      /\ \A i \in 1..n : looks[i] = Step("look", others[i])
  <2>1. looks \in [1..n -> Steps]
    BY <1>1, StepTypes DEF UserOps
  <2> QED BY <1>1, <1>2, <2>1
<1>4. Free \in Places /\ inside \in Places
  BY PlaceTypes DEF HeldNames
<1>5. /\ Step("rewind", "accounts") \in Steps /\ Step("share", "accounts") \in Steps
      /\ Step("unshare", "accounts") \in Steps /\ Say(c) \in Steps
  BY StepTypes DEF LockOps, LockNames, UserOps, Say
<1>6. Way(c, begin, Free, inside)
  <2>1. /\ Moves(c, Step("rewind", "accounts"), Free, Free)
        /\ Moves(c, Step("share", "accounts"), Free, inside)
    BY DEF Moves, Step
  <2> QED BY <1>4, <1>5, <2>1, WayOfTwo
<1>7. Way(c, looks, inside, inside)
  <2>1. \A i \in 1..Len(looks) : Moves(c, looks[i], inside, inside)
    BY <1>3 DEF Moves, Step
  <2> HIDE DEF looks, inside
  <2> QED BY <1>3, <1>4, <2>1, LeadsOn DEF Way
<1>8. Way(c, end, inside, Free)
  <2>1. /\ Moves(c, Step("unshare", "accounts"), inside, Free)
        /\ Moves(c, Say(c), Free, Free)
    BY DEF Moves, Step, Say, Free, Place, Holding
  <2> QED BY <1>4, <1>5, <2>1, WayOfTwo
<1> HIDE DEF begin, looks, end, inside
<1>9. Errand(c, begin \o looks \o end)
  BY <1>6, <1>7, <1>8, WayJoins DEF Errand
<1> QED BY <1>9 DEF begin, looks, end

\* ProcessHistory does, with its file open and two locks taken in between.
LEMMA HistoryErrand ==
  ASSUME NEW c \in Users, NEW u \in Users, NEW text \in Maybe(Say(c)), NEW later \in Maybe(Say(c))
  PROVE  /\ Errand(c, CheckRegisteredUser(FALSE) \o <<Say(c)>>)
         /\ Errand(c, CheckRegisteredUser(TRUE)
                        \o <<Step("lock", "files"), Step("open", HistoryPath(c, u)),
                             Step("share", "accounts")>>
                        \o text \o <<Step("finish", HistoryPath(c, u))>> \o later)
<1> DEFINE begin == <<Step("lock", "files"), Step("open", HistoryPath(c, u)),
                      Step("share", "accounts")>>
           end == <<Step("finish", HistoryPath(c, u))>>
           opened == Holding("opened", HistoryPath(c, u))
           both == Holding("both", HistoryPath(c, u))
<1>1. /\ Step("lock", "files") \in Steps /\ Step("open", HistoryPath(c, u)) \in Steps
      /\ Step("share", "accounts") \in Steps /\ Step("finish", HistoryPath(c, u)) \in Steps
  BY StepTypes, PathTypes DEF LockOps, LockNames, PathOps
<1>2. Free \in Places /\ Place("files") \in Places /\ opened \in Places /\ both \in Places
  BY PlaceTypes, PathTypes DEF HeldNames
<1>3. Way(c, begin, Free, both)
  <2>1. /\ Moves(c, Step("lock", "files"), Free, Place("files"))
        /\ Moves(c, Step("open", HistoryPath(c, u)), Place("files"), opened)
        /\ Moves(c, Step("share", "accounts"), opened, both)
    BY DEF Moves, Step, Holding
  <2> QED BY <1>1, <1>2, <2>1, WayOfThree
<1>4. Way(c, text, both, both)
  BY <1>2, WayMaybe DEF Holding
<1>5. Way(c, end, both, Free)
  <2>1. Moves(c, Step("finish", HistoryPath(c, u)), both, Free)
    BY DEF Moves, Step
  <2> QED BY <1>1, <1>2, <2>1, WayOfOne
<1>6. Errand(c, later)
  BY <1>2, WayMaybe DEF Errand, Free, Place, Holding
<1>7. Errand(c, CheckRegisteredUser(TRUE)) /\ Errand(c, CheckRegisteredUser(FALSE))
  BY CheckErrand
<1>8. Errand(c, CheckRegisteredUser(FALSE) \o <<Say(c)>>)
  BY <1>7, SayErrand, ErrandJoins
<1> HIDE DEF begin, end
<1>9. Errand(c, CheckRegisteredUser(TRUE) \o begin \o text \o end \o later)
  BY <1>3, <1>4, <1>5, <1>6, <1>7, WayJoins DEF Errand
<1> QED BY <1>8, <1>9 DEF begin, end

---------------------------------------------------------------------------
(* Init, and a command that begins.                                         *)

\* In the beginning nobody holds anything and no file is open.
LEMMA InitInvariant == Init => IInv
<1> SUFFICES ASSUME Init PROVE IInv
  OBVIOUS
<1> DEFINE at == [c \in Users |-> Free]
<1>1. TypeOK
  <2>1. <<>> \in Seq(Steps)
    BY EmptySeq
  <2> QED BY <2>1, ServerLocksAssumption DEF Init, TypeOK, Unlocked, Locks, LockNames
<1>2. at \in [Users -> Places]
  BY PlaceTypes
<1>3. \A c \in Users : Leads(c, todo[c], at[c], Free)
  BY PlaceTypes, WayNowhere DEF Init, Way
<1>4. Owned(at) /\ Opened(at)
  BY DEF Init, Owned, Opened, Unlocked, LockNames, Free, Place, Holding, InFiles, InAccounts
<1>5. Consistent(at)
  BY <1>3, <1>4 DEF Consistent
<1> QED BY <1>1, <1>2, <1>5 DEF IInv

\* A command begins at a handler that holds nothing.
LEMMA BeginInvariant ==
  ASSUME IInv, NEW c \in Users, NEW command, NEW program, Begin(c, command, program),
         Errand(c, program)
  PROVE  IInv'
<1>1. PICK at \in [Users -> Places] : Consistent(at)
  BY DEF IInv
<1>2. todo[c] = <<>>
  BY DEF Begin, Running
<1>3. at[c] = Free
  BY <1>1, <1>2, LeadsNowhere DEF Consistent
<1>4. program \in Seq(Steps) /\ Leads(c, program, Free, Free)
  BY DEF Errand, Way
<1>5. TypeOK'
  <2>1. begun' \in [Users -> 0..MaxCommands]
    BY ServerLocksAssumption DEF IInv, TypeOK, Begin
  <2> QED BY <1>4, <2>1 DEF IInv, TypeOK, Begin, tables
<1>6. \A d \in Users : Leads(d, todo'[d], at[d], Free)
  BY <1>1, <1>3, <1>4 DEF IInv, TypeOK, Begin, Consistent
<1>7. Owned(at)' /\ Opened(at)'
  BY <1>1 DEF Begin, tables, Consistent, Owned, Opened
<1> QED BY <1>1, <1>5, <1>6, <1>7 DEF IInv, Consistent

\* Every command is an errand, so that the invariant survives its begin.
LEMMA CommandInvariant ==
  ASSUME IInv, NEW c \in Users, Command(c)
  PROVE  IInv'
<1>1. CASE RegisterClient(c)
  BY <1>1, RegisterErrand, BeginInvariant DEF RegisterClient
<1>2. CASE LoginClient(c)
  <2> DEFINE scan == <<Step("rewind", "accounts"), Step("read", "accounts")>>
             drain == <<Step("find", c), Step("get", c), Step("seek", c)>>
             whole(text) == scan \o <<Step("read", "mapping"), Step("insert", c), Say(c)>>
                              \o drain \o text \o <<Step("close", c), Step("unlist", c)>>
  <2>1. \/ Begin(c, "login", scan \o <<Say(c)>>)
        \/ \E text \in Maybe(Say(c)) : Begin(c, "login", whole(text))
    BY <1>2 DEF LoginClient
  <2>2. \A text \in Maybe(Say(c)) : Errand(c, scan \o <<Say(c)>>) /\ Errand(c, whole(text))
    BY LoginErrand
  <2>3. <<>> \in Maybe(Say(c))
    BY DEF Maybe
  <2> HIDE DEF scan, whole
  <2> QED BY <2>1, <2>2, <2>3, BeginInvariant
<1>3. CASE LogoutClient(c)
  BY <1>3, LogoutErrand, BeginInvariant DEF LogoutClient
<1>4. CASE ListClients(c)
  BY <1>4, ListErrand, BeginInvariant DEF ListClients
<1>5. CASE ProcessMsg(c)
  BY <1>5, MsgErrand, BeginInvariant DEF ProcessMsg
<1>6. CASE ProcessBroadcast(c)
  BY <1>6, BroadcastErrand, BeginInvariant DEF ProcessBroadcast
<1>7. CASE ProcessHistory(c)
  <2>1. <<>> \in Maybe(Say(c))
    BY DEF Maybe
  <2> QED BY <1>7, <2>1, HistoryErrand, BeginInvariant DEF ProcessHistory
<1> QED BY <1>1, <1>2, <1>3, <1>4, <1>5, <1>6, <1>7 DEF Command

---------------------------------------------------------------------------
(* A step of a handler.                                                     *)

\* What the first step of a handler does, and where the handler is after it.
LEMMA FirstStep ==
  ASSUME TypeOK, NEW at \in [Users -> Places], Consistent(at), NEW c \in Users, todo[c] # <<>>
  PROVE  \E r \in Places :
           /\ Moves(c, Head(todo[c]), at[c], r)
           /\ Head(todo[c]) \in Steps /\ Tail(todo[c]) \in Seq(Steps)
           /\ Leads(c, Tail(todo[c]), r, Free)
<1>1. todo[c] \in Seq(Steps) /\ Leads(c, todo[c], at[c], Free)
  BY DEF TypeOK, Consistent
<1>2. Head(todo[c]) \in Steps /\ Tail(todo[c]) \in Seq(Steps)
  BY <1>1, HeadTailProperties
<1>3. \E r \in Places : Moves(c, Head(todo[c]), at[c], r) /\ Leads(c, Tail(todo[c]), r, Free)
  BY <1>1, LeadsFirst
<1> QED BY <1>2, <1>3

\* The other handlers stay where they are.
Goes(c, at, q) == [at EXCEPT ![c] = q]

\* A handler that goes on with `next` is on its way from where `next` begins.
LEMMA GoOn ==
  ASSUME TypeOK, NEW at \in [Users -> Places], Consistent(at), NEW c \in Users,
         NEW next, NEW r, NEW q, Way(c, next, q, r),
         Tail(todo[c]) \in Seq(Steps), Leads(c, Tail(todo[c]), r, Free),
         todo' = [todo EXCEPT ![c] = next \o Tail(@)]
  PROVE  /\ todo' \in [Users -> Seq(Steps)]
         /\ Goes(c, at, q) \in [Users -> Places]
         /\ \A d \in Users : Leads(d, todo'[d], Goes(c, at, q)[d], Free)
<1>1. next \in Seq(Steps) /\ q \in Places /\ Leads(c, next, q, r)
  BY DEF Way
<1>2. next \o Tail(todo[c]) \in Seq(Steps)
  BY <1>1, ConcatProperties
<1>3. Leads(c, next \o Tail(todo[c]), q, Free)
  BY <1>1, LeadsConcat
<1>4. todo' \in [Users -> Seq(Steps)] /\ todo'[c] = next \o Tail(todo[c])
      /\ \A d \in Users \ {c} : todo'[d] = todo[d]
  BY <1>2 DEF TypeOK
<1>5. \A d \in Users : Leads(d, todo[d], at[d], Free)
  BY DEF Consistent
<1> QED BY <1>1, <1>3, <1>4, <1>5 DEF Goes

\* A step that neither takes nor gives a lock or a file, and stays or goes on
\* where nothing is held.
LEMMA QuietStep ==
  ASSUME TypeOK, NEW at \in [Users -> Places], Consistent(at), NEW c \in Users, NEW q \in Places,
         UNCHANGED <<lock, listed, open>>, up' => up,
         q = at[c] \/ {q.held, at[c].held} \subseteq {"nothing", "checked", "draining"},
         up' /\ q.held = "draining" => at[c].held = "draining" \/ c \in listed
  PROVE  Owned(Goes(c, at, q))' /\ Opened(Goes(c, at, q))'
<1> DEFINE new == Goes(c, at, q)
<1>1. new[c] = q /\ \A d \in Users \ {c} : new[d] = at[d]
  BY DEF Goes
<1>2. Owned(at) /\ Opened(at)
  BY DEF Consistent
<1> HIDE DEF new
<1>3. Owned(new)'
  BY <1>1, <1>2 DEF Owned, InFiles, InAccounts
<1>4. up' => \A d \in Users : new[d].held \in {"draining", "closed"} => d \in listed
  BY <1>1, <1>2 DEF Opened
<1>5. ASSUME NEW p \in open
      PROVE  \/ \E u \in listed : p = Pending(u) /\ new[u].held # "closed"
             \/ \E d \in Users : new[d].held \in {"opened", "both"} /\ new[d].path = p
             \/ Gone \in lock["files"].writer
  <2>1. CASE \E u \in listed : p = Pending(u) /\ at[u].held # "closed"
    BY <1>1, <2>1 DEF TypeOK
  <2>2. CASE \E d \in Users : at[d].held \in {"opened", "both"} /\ at[d].path = p
    BY <1>1, <2>2
  <2> QED BY <1>2, <2>1, <2>2 DEF Opened
<1> QED BY <1>3, <1>4, <1>5 DEF new, Opened

\* Whom nobody holds up takes a lock that is free for it.
LEMMA NotBlocked ==
  ASSUME TypeOK, NEW c \in Users, Blockers(c) = {}, todo[c] # <<>>,
         NEW l, l = LockOf(Head(todo[c])), l \in LockNames
  PROVE  /\ Head(todo[c]).op \in Exclusive => lock[l].writer = {} /\ lock[l].readers = {}
         /\ Head(todo[c]).op \in Shared => lock[l].writer = {}
<1>1. lock[l].writer # {} => lock[l].readers = {}
  BY DEF TypeOK
<1>2. CASE Head(todo[c]).op \in Exclusive
  <2>1. Owners(l) = {}
    BY <1>2 DEF Blockers, At, Running
  <2>2. Head(todo[c]).op \notin Shared
    BY <1>2 DEF Exclusive, Shared
  <2> QED BY <2>1, <2>2 DEF Owners
<1>3. CASE Head(todo[c]).op \in Shared
  <2>1. ~At(c, Exclusive) /\ At(c, Shared)
    BY <1>3 DEF Exclusive, Shared, At, Running
  <2>2. ~queued \/ lock[l].readers = {} => lock[l].writer = {}
    BY <2>1 DEF Blockers
  <2> QED BY <1>1, <2>2, <1>3 DEF Exclusive, Shared
<1> QED BY <1>2, <1>3

\* The locks keep their type when one of them is changed.
LEMMA LockTyped ==
  ASSUME TypeOK, NEW l \in LockNames, NEW x \in Locks(Users \cup {Gone}),
         x.writer # {} => x.readers = {} /\ Cardinality(x.writer) = 1,
         lock' = [lock EXCEPT ![l] = x]
  PROVE  /\ lock' \in [LockNames -> Locks(Users \cup {Gone})]
         /\ \A k \in LockNames : lock'[k].writer # {} =>
              lock'[k].readers = {} /\ Cardinality(lock'[k].writer) = 1
BY DEF TypeOK

\* An owner of a lock, alone.
LEMMA SingleOwner == \A x : Cardinality({x}) = 1
BY FS_Singleton

\* What a step is about.
LEMMA StepIsOn ==
  ASSUME NEW s \in Steps
  PROVE  /\ s.op \in LockOps => s.on \in LockNames
         /\ s.op \in UserOps => s.on \in Users
         /\ s.op \in PathOps => s.on \in Paths
         /\ LockOf(s) \in LockNames
<1>1. /\ s.op \in LockOps => s.on \in LockNames
      /\ s.op \in UserOps => s.on \in Users
      /\ s.op \in PathOps => s.on \in Paths
  BY DEF Steps, LockOps, UserOps, PathOps
<1>2. LockOf(s) \in LockNames
  BY <1>1 DEF LockOf, LockNames
<1> QED BY <1>1, <1>2

---------------------------------------------------------------------------
(* Steps that leave the locks and the files alone.                          *)

\* Such a step keeps the invariant.
LEMMA QuietInvariant ==
  ASSUME IInv, NEW c \in Users, NEW ops, NEW next, Do(c, ops, next),
         UNCHANGED <<lock, listed, open, deaf, queued, begun, faults>>,
         session' \subseteq Users, up' \in BOOLEAN,
         \A p, r \in Places : Moves(c, Head(todo[c]), p, r) =>
           \E q \in Places :
             /\ Way(c, next, q, r)
             /\ q = p \/ {q.held, p.held} \subseteq {"nothing", "checked", "draining"}
             /\ up' /\ q.held = "draining" => p.held = "draining" \/ c \in listed
  PROVE  IInv'
<1>1. PICK at \in [Users -> Places] : Consistent(at)
  BY DEF IInv
<1>2. todo[c] # <<>> /\ up /\ todo' = [todo EXCEPT ![c] = next \o Tail(@)]
  BY DEF Do, At, Running
<1>3. PICK r \in Places :
        /\ Moves(c, Head(todo[c]), at[c], r)
        /\ Head(todo[c]) \in Steps /\ Tail(todo[c]) \in Seq(Steps)
        /\ Leads(c, Tail(todo[c]), r, Free)
  BY <1>1, <1>2, FirstStep DEF IInv
<1>4. PICK q \in Places :
        /\ Way(c, next, q, r)
        /\ q = at[c] \/ {q.held, at[c].held} \subseteq {"nothing", "checked", "draining"}
        /\ up' /\ q.held = "draining" => at[c].held = "draining" \/ c \in listed
  BY <1>3
<1>5. /\ todo' \in [Users -> Seq(Steps)]
      /\ Goes(c, at, q) \in [Users -> Places]
      /\ \A d \in Users : Leads(d, todo'[d], Goes(c, at, q)[d], Free)
  BY <1>1, <1>2, <1>3, <1>4, GoOn DEF IInv
<1>6. Owned(Goes(c, at, q))' /\ Opened(Goes(c, at, q))'
  BY <1>1, <1>2, <1>4, QuietStep DEF IInv
<1>7. TypeOK'
  BY <1>5 DEF IInv, TypeOK
<1>8. Consistent(Goes(c, at, q))'
  BY <1>5, <1>6 DEF Consistent
<1> QED BY <1>5, <1>7, <1>8 DEF IInv

\* The same where nothing is added to what the handler has to do.
LEMMA PassInvariant ==
  ASSUME IInv, NEW c \in Users, NEW ops, Do(c, ops, <<>>),
         UNCHANGED <<lock, listed, open, deaf, queued, begun, faults>>,
         session' \subseteq Users, up' \in BOOLEAN,
         \A p, r \in Places : Moves(c, Head(todo[c]), p, r) =>
           /\ r = p \/ {r.held, p.held} \subseteq {"nothing", "checked", "draining"}
           /\ up' /\ r.held = "draining" => p.held = "draining" \/ c \in listed
  PROVE  IInv'
<1>1. \A p, r \in Places : Moves(c, Head(todo[c]), p, r) =>
        \E q \in Places :
          /\ Way(c, <<>>, q, r)
          /\ q = p \/ {q.held, p.held} \subseteq {"nothing", "checked", "draining"}
          /\ up' /\ q.held = "draining" => p.held = "draining" \/ c \in listed
  BY WayNowhere
<1> QED BY <1>1, QuietInvariant

\* A section that changes nothing here.
LEMMA SectionInvariant ==
  ASSUME IInv, NEW c \in Users, Section(c)
  PROVE  IInv'
<1> DEFINE ops == {"use", "read", "rewind", "recheck", "search"}
<1>1. Do(c, ops, <<>>) /\ UNCHANGED <<lock, tables, world>> /\ Head(todo[c]).op \in ops
  BY DEF Section, Do, At
<1>2. \A p, r \in Places : Moves(c, Head(todo[c]), p, r) =>
        /\ r = p \/ {r.held, p.held} \subseteq {"nothing", "checked", "draining"}
        /\ r.held = "draining" => p.held = "draining"
  BY <1>1 DEF Moves, Free, Place, Holding
<1>3. session' \subseteq Users /\ up' \in BOOLEAN
  BY <1>1 DEF IInv, TypeOK, tables, world
<1> HIDE DEF ops
<1> QED BY <1>1, <1>2, <1>3, PassInvariant DEF tables, world

\* send() of a text.
LEMMA SendTextInvariant ==
  ASSUME IInv, NEW c \in Users, SendText(c)
  PROVE  IInv'
<1>1. Do(c, {"say"}, <<>>) /\ UNCHANGED <<lock, tables, world>> /\ Head(todo[c]).op = "say"
  BY DEF SendText, Do, At
<1>2. \A p, r \in Places : Moves(c, Head(todo[c]), p, r) => r = p
  BY <1>1 DEF Moves
<1>3. session' \subseteq Users /\ up' \in BOOLEAN
  BY <1>1 DEF IInv, TypeOK, tables, world
<1> QED BY <1>1, <1>2, <1>3, PassInvariant DEF tables, world

\* The sections that insert and remove a session.
LEMMA SessionsInvariant ==
  ASSUME IInv, NEW c \in Users, InsertSession(c) \/ RemoveSession(c)
  PROVE  IInv'
<1>1. /\ UNCHANGED <<lock, listed, open, world>>
      /\ session' = session \cup {On(c)} \/ session' = session \ {On(c)}
      /\ todo[c] # <<>>
      /\ \/ Do(c, {"insert"}, <<>>) /\ Head(todo[c]).op = "insert"
         \/ Do(c, {"remove"}, <<>>) /\ Head(todo[c]).op = "remove"
  BY DEF InsertSession, RemoveSession, Do, At, Running
<1>2. \A p, r \in Places : Moves(c, Head(todo[c]), p, r) => r = p
  BY <1>1 DEF Moves, Free, Place, Holding
<1>3. Head(todo[c]) \in Steps
  BY <1>1, HeadTailProperties DEF IInv, TypeOK
<1>4. On(c) \in Users
  BY <1>1, <1>3, StepIsOn DEF On, UserOps
<1>5. session' \subseteq Users /\ up' \in BOOLEAN
  BY <1>1, <1>4 DEF IInv, TypeOK, world
<1> QED BY <1>1, <1>2, <1>5, PassInvariant DEF world

\* The section in which the login reads the pending file.
LEMMA SeekInvariant ==
  ASSUME IInv, NEW c \in Users, Seek(c)
  PROVE  IInv'
<1>1. Do(c, {"seek"}, <<>>) /\ UNCHANGED <<lock, tables, world>> /\ Head(todo[c]).op = "seek"
  BY DEF Seek, Do, At
<1>2. \A p, r \in Places : Moves(c, Head(todo[c]), p, r) => r = p
  BY <1>1 DEF Moves
<1>3. session' \subseteq Users /\ up' \in BOOLEAN
  BY <1>1 DEF IInv, TypeOK, tables, world
<1> QED BY <1>1, <1>2, <1>3, PassInvariant DEF tables, world

\* A login that goes on to the drain has found the entry of its user.
LEMMA GetInvariant ==
  ASSUME IInv, NEW c \in Users, Get(c)
  PROVE  IInv'
<1>1. /\ Do(c, {"get"}, <<>>) /\ up' = (On(c) \in listed)
      /\ UNCHANGED <<lock, tables, deaf, queued, begun, faults>>
      /\ Head(todo[c]).op = "get"
  BY DEF Get, Do, At
<1>2. \A p, r \in Places : Moves(c, Head(todo[c]), p, r) =>
        /\ r = p \/ {r.held, p.held} \subseteq {"nothing", "checked", "draining"}
        /\ up' /\ r.held = "draining" => p.held = "draining" \/ c \in listed
  <2>1. up' => Head(todo[c]).on \in listed
    BY <1>1 DEF On
  <2>2. \A p, r \in Places : Moves(c, Head(todo[c]), p, r) =>
          r = p \/ (/\ {r.held, p.held} \subseteq {"nothing", "checked", "draining"}
                   /\ Head(todo[c]).on = c)
    BY <1>1 DEF Moves, Free, Place, Holding
  <2> QED BY <2>1, <2>2
<1>3. session' \subseteq Users /\ up' \in BOOLEAN
  BY <1>1 DEF IInv, TypeOK, tables
<1> QED BY <1>1, <1>2, <1>3, PassInvariant DEF tables

\* A broadcast turns to one user.
LEMMA LookInvariant ==
  ASSUME IInv, NEW c \in Users, Look(c)
  PROVE  IInv'
<1> DEFINE next == IF On(c) \in session THEN <<Say(On(c))>> ELSE Store(On(c))
<1>1. /\ Do(c, {"look"}, next) /\ UNCHANGED <<lock, tables, world>>
      /\ Head(todo[c]).op = "look" /\ todo[c] # <<>>
  BY DEF Look, Do, At, Running
<1>2. Head(todo[c]) \in Steps
  BY <1>1, HeadTailProperties DEF IInv, TypeOK
<1>3. On(c) \in Users
  BY <1>1, <1>2, StepIsOn DEF On, UserOps
<1>4. Way(c, next, Place("accounts"), Place("accounts"))
  <2>1. <<Say(On(c))>> \in Maybe(Say(On(c))) /\ Place("accounts") \in Places
    BY PlaceTypes DEF Maybe, HeldNames
  <2>2. Way(c, <<Say(On(c))>>, Place("accounts"), Place("accounts"))
    BY <1>3, <2>1, WayMaybe DEF Place, Holding
  <2> QED BY <1>3, <2>2, StoreWay
<1>5. \A p, r \in Places : Moves(c, Head(todo[c]), p, r) => p = Place("accounts") /\ r = p
  BY <1>1 DEF Moves
<1>6. session' \subseteq Users /\ up' \in BOOLEAN
  BY <1>1 DEF IInv, TypeOK, tables, world
<1> HIDE DEF next
<1> QED BY <1>1, <1>4, <1>5, <1>6, QuietInvariant DEF tables, world

\* A message turns to its receiver.
LEMMA AddressInvariant ==
  ASSUME IInv, NEW c \in Users, Address(c)
  PROVE  IInv'
<1> DEFINE next(found) == IF On(c) \in session THEN <<Say(On(c))>>
                          ELSE CheckRegisteredUser(found)
                                 \o (IF found THEN Store(On(c)) ELSE <<>>)
<1>1. /\ UNCHANGED <<lock, tables, world>>
      /\ Head(todo[c]).op = "address" /\ todo[c] # <<>>
  BY DEF Address, At, Running
<1>2. PICK found \in BOOLEAN : Do(c, {"address"}, next(found))
  BY DEF Address
<1>3. Head(todo[c]) \in Steps
  BY <1>1, HeadTailProperties DEF IInv, TypeOK
<1>4. On(c) \in Users
  BY <1>1, <1>3, StepIsOn DEF On, UserOps
<1>5. Way(c, next(found), Free, Free)
  <2>1. Way(c, <<Say(On(c))>>, Free, Free)
    BY <1>4, SayErrand DEF Errand
  <2>2. Way(c, IF found THEN Store(On(c)) ELSE <<>>, Free, Free)
    BY <1>4, StoreWay, WayNowhere, PlaceTypes
  <2>3. Way(c, CheckRegisteredUser(found), Free, Free)
    BY CheckErrand DEF Errand
  <2>4. Way(c, CheckRegisteredUser(found) \o (IF found THEN Store(On(c)) ELSE <<>>), Free, Free)
    BY <2>2, <2>3, WayJoins
  <2> QED BY <2>1, <2>4
<1>6. \A p, r \in Places : Moves(c, Head(todo[c]), p, r) => p = Free /\ r = Free
  BY <1>1 DEF Moves
<1>7. session' \subseteq Users /\ up' \in BOOLEAN
  BY <1>1 DEF IInv, TypeOK, tables, world
<1> HIDE DEF next
<1> QED BY <1>1, <1>2, <1>5, <1>6, <1>7, QuietInvariant DEF tables, world

\* The look for the entry of a pending file.
LEMMA FindInvariant ==
  ASSUME IInv, NEW c \in Users, Find(c)
  PROVE  IInv'
<1> DEFINE next == IF On(c) \in listed THEN <<>> ELSE OpenPending(On(c))
<1>1. /\ Do(c, {"find"}, next) /\ UNCHANGED <<lock, tables, world>>
      /\ Head(todo[c]).op = "find" /\ todo[c] # <<>>
  BY DEF Find, Do, At, Running
<1>2. Head(todo[c]) \in Steps
  BY <1>1, HeadTailProperties DEF IInv, TypeOK
<1>3. On(c) \in Users
  BY <1>1, <1>2, StepIsOn DEF On, UserOps
<1>4. ASSUME NEW p \in {Free, Place("accounts")} PROVE Way(c, next, p, p)
  <2>1. p \in Places
    BY PlaceTypes DEF HeldNames
  <2> QED BY <1>3, <2>1, OpenPendingWay, WayNowhere
<1>5. \A p, r \in Places : Moves(c, Head(todo[c]), p, r) =>
        p \in {Free, Place("accounts")} /\ r = p
  BY <1>1 DEF Moves
<1>6. session' \subseteq Users /\ up' \in BOOLEAN
  BY <1>1 DEF IInv, TypeOK, tables, world
<1> HIDE DEF next
<1> QED BY <1>1, <1>4, <1>5, <1>6, QuietInvariant DEF tables, world

---------------------------------------------------------------------------
(* Steps that take or give a lock or a file.                                *)

\* Such a step has but to keep what the place of its handler says.
LEMMA LoudInvariant ==
  ASSUME IInv, NEW at \in [Users -> Places], Consistent(at), NEW c \in Users,
         NEW r \in Places, Tail(todo[c]) \in Seq(Steps), Leads(c, Tail(todo[c]), r, Free),
         NEW next, NEW q, Way(c, next, q, r), todo' = [todo EXCEPT ![c] = next \o Tail(@)],
         NEW l \in LockNames, NEW x \in Locks(Users \cup {Gone}),
         x.writer # {} => x.readers = {} /\ Cardinality(x.writer) = 1,
         lock' = [lock EXCEPT ![l] = x],
         listed' \subseteq Users, open' \subseteq Paths,
         UNCHANGED <<session, deaf, queued, up, begun>>, faults' \in 0..MaxFaults,
         Owned(Goes(c, at, q))', Opened(Goes(c, at, q))'
  PROVE  IInv'
<1>1. /\ todo' \in [Users -> Seq(Steps)]
      /\ Goes(c, at, q) \in [Users -> Places]
      /\ \A d \in Users : Leads(d, todo'[d], Goes(c, at, q)[d], Free)
  BY GoOn DEF IInv
<1>2. /\ lock' \in [LockNames -> Locks(Users \cup {Gone})]
      /\ \A k \in LockNames : lock'[k].writer # {} =>
           lock'[k].readers = {} /\ Cardinality(lock'[k].writer) = 1
  BY LockTyped DEF IInv
<1>3. TypeOK'
  BY <1>1, <1>2 DEF IInv, TypeOK
<1>4. Consistent(Goes(c, at, q))'
  BY <1>1 DEF Consistent
<1> QED BY <1>1, <1>3, <1>4 DEF IInv

\* Where no file is opened, closed, listed or forgotten, an open one is still
\* accounted for.
LEMMA OpenedKept ==
  ASSUME TypeOK, NEW at \in [Users -> Places], Opened(at), NEW c \in Users, NEW q \in Places,
         UNCHANGED <<listed, open, up>>,
         Gone \in lock["files"].writer => Gone \in lock'["files"].writer,
         q.held \notin {"draining", "closed"},
         at[c].held \in {"opened", "both"} => q.held \in {"opened", "both"} /\ q.path = at[c].path
  PROVE  Opened(Goes(c, at, q))'
<1> DEFINE new == Goes(c, at, q)
<1>1. new[c] = q /\ \A d \in Users \ {c} : new[d] = at[d]
  BY DEF Goes
<1> HIDE DEF new
<1>2. up' => \A d \in Users : new[d].held \in {"draining", "closed"} => d \in listed'
  BY <1>1 DEF Opened
<1>3. ASSUME NEW p \in open'
      PROVE  \/ \E u \in listed' : p = Pending(u) /\ new[u].held # "closed"
             \/ \E d \in Users : new[d].held \in {"opened", "both"} /\ new[d].path = p
             \/ Gone \in lock'["files"].writer
  <2>1. CASE \E u \in listed : p = Pending(u) /\ at[u].held # "closed"
    BY <1>1, <2>1 DEF TypeOK
  <2>2. CASE \E d \in Users : at[d].held \in {"opened", "both"} /\ at[d].path = p
    BY <1>1, <2>2
  <2> QED BY <2>1, <2>2 DEF Opened
<1> QED BY <1>2, <1>3 DEF new, Opened

\* A shared lock that is granted: list, broadcast or history goes inside.
LEMMA AcquireSharedInvariant ==
  ASSUME IInv, NEW c \in Users, AcquireShared(c)
  PROVE  IInv'
<1>1. PICK at \in [Users -> Places] : Consistent(at)
  BY DEF IInv
<1>2. /\ todo[c] # <<>> /\ Head(todo[c]).op = "share" /\ Blockers(c) = {}
      /\ todo' = [todo EXCEPT ![c] = Lines(c) \o Tail(@)]
      /\ lock' = [lock EXCEPT ![On(c)] = Share(@, c)]
      /\ UNCHANGED <<tables, world>>
  BY DEF AcquireShared, Do, At, Running
<1>3. PICK r \in Places :
        /\ Moves(c, Head(todo[c]), at[c], r)
        /\ Head(todo[c]) \in Steps /\ Tail(todo[c]) \in Seq(Steps)
        /\ Leads(c, Tail(todo[c]), r, Free)
  BY <1>1, <1>2, FirstStep DEF IInv
<1> DEFINE l == On(c)  x == Share(lock[l], c)
<1>4. l \in LockNames /\ l = LockOf(Head(todo[c])) /\ l = Head(todo[c]).on
  BY <1>2, <1>3, StepIsOn DEF On, LockOf, LockOps
<1>5. lock[l].writer = {}
  BY <1>2, <1>4, NotBlocked DEF IInv, Shared
<1>6. x \in Locks(Users \cup {Gone}) /\ x.writer = {} /\ x.readers = lock[l].readers \cup {c}
  BY <1>4, <1>5 DEF IInv, TypeOK, Share, Locks
<1>7. \/ l = "mapping" /\ at[c] = Free /\ r = Place("sessions")
      \/ l = "accounts" /\ at[c] = Free /\ r = Place("accounts")
      \/ l = "accounts" /\ at[c].held = "opened" /\ r = Holding("both", at[c].path)
  BY <1>2, <1>3, <1>4 DEF Moves
<1>8. Way(c, Lines(c), r, r)
  <2>1. CASE l = "mapping"
    <3>1. Say(c) \in Steps /\ Moves(c, Say(c), r, r)
      BY <1>7, <2>1, StepTypes DEF Say, Step, UserOps, Moves, Place, Holding
    <3> QED BY <3>1, WayOfOne, WayNowhere DEF Lines
  <2>2. CASE l # "mapping"
    BY <2>2, WayNowhere DEF Lines
  <2> QED BY <2>1, <2>2
<1>9. lock' = [lock EXCEPT ![l] = x]
  BY <1>2
<1>10. lock'[l] = x /\ \A k \in LockNames \ {l} : lock'[k] = lock[k]
  BY <1>4, <1>9 DEF IInv, TypeOK
<1> HIDE DEF l, x
<1>11. Owned(Goes(c, at, r))'
  <2>1. /\ Goes(c, at, r)[c] = r /\ \A d \in Users \ {c} : Goes(c, at, r)[d] = at[d]
        /\ Owned(at)
    BY <1>1 DEF Goes, Consistent
  <2>2. CASE l = "mapping"
    BY <1>5, <1>6, <1>7, <1>10, <2>1, <2>2
       DEF Owned, InFiles, InAccounts, LockNames, Free, Place, Holding
  <2>3. CASE l = "accounts"
    BY <1>5, <1>6, <1>7, <1>10, <2>1, <2>3
       DEF Owned, InFiles, InAccounts, LockNames, Free, Place, Holding
  <2> QED BY <1>7, <2>2, <2>3
<1>12. Opened(Goes(c, at, r))'
  <2>1. lock'["files"] = lock["files"]
    BY <1>7, <1>10 DEF LockNames
  <2> QED BY <1>1, <1>2, <1>7, <2>1, OpenedKept
          DEF IInv, Consistent, tables, world, Free, Place, Holding
<1>13. /\ listed' \subseteq Users /\ open' \subseteq Paths /\ faults' \in 0..MaxFaults
       /\ UNCHANGED <<session, deaf, queued, up, begun>>
  BY <1>2 DEF IInv, TypeOK, tables, world
<1> QED BY <1>1, <1>2, <1>3, <1>4, <1>6, <1>8, <1>9, <1>11, <1>12, <1>13, LoudInvariant

\* The lock of the files that is granted.
LEMMA AcquireExclusiveInvariant ==
  ASSUME IInv, NEW c \in Users, AcquireExclusive(c)
  PROVE  IInv'
<1>1. PICK at \in [Users -> Places] : Consistent(at)
  BY DEF IInv
<1>2. /\ todo[c] # <<>> /\ Head(todo[c]).op = "lock" /\ Blockers(c) = {}
      /\ todo' = [todo EXCEPT ![c] = <<>> \o Tail(@)]
      /\ lock' = [lock EXCEPT ![On(c)] = Lock(@, c)]
      /\ UNCHANGED <<tables, world>>
  BY DEF AcquireExclusive, Do, At, Running
<1>3. PICK r \in Places :
        /\ Moves(c, Head(todo[c]), at[c], r)
        /\ Head(todo[c]) \in Steps /\ Tail(todo[c]) \in Seq(Steps)
        /\ Leads(c, Tail(todo[c]), r, Free)
  BY <1>1, <1>2, FirstStep DEF IInv
<1>4. /\ On(c) = "files"
      /\ \/ at[c] = Free /\ r = Place("files")
         \/ at[c] = Place("accounts") /\ r = Place("inner")
  BY <1>2, <1>3 DEF Moves, On
<1>5. LockOf(Head(todo[c])) = "files"
  BY <1>2, <1>4 DEF LockOf, LockOps, On
<1>6. lock["files"].writer = {} /\ lock["files"].readers = {}
  BY <1>2, <1>5, NotBlocked DEF IInv, Exclusive, LockNames
<1> DEFINE x == Lock(lock["files"], c)
<1>7. x \in Locks(Users \cup {Gone}) /\ x.writer = {c} /\ x.readers = {}
  BY <1>6 DEF IInv, TypeOK, Lock, Locks, LockNames
<1>8. lock' = [lock EXCEPT !["files"] = x]
  BY <1>2, <1>4
<1>9. lock'["files"] = x /\ lock'["accounts"] = lock["accounts"]
      /\ lock'["mapping"] = lock["mapping"]
  BY <1>8 DEF IInv, TypeOK, LockNames
<1> HIDE DEF x
<1>10. Owned(Goes(c, at, r))'
  <2>1. /\ Goes(c, at, r)[c] = r /\ \A d \in Users \ {c} : Goes(c, at, r)[d] = at[d]
        /\ Owned(at)
    BY <1>1 DEF Goes, Consistent
  <2> QED BY <1>4, <1>6, <1>7, <1>9, <2>1
          DEF Owned, InFiles, InAccounts, Free, Place, Holding
<1>11. Opened(Goes(c, at, r))'
  BY <1>1, <1>2, <1>4, <1>6, OpenedKept
     DEF IInv, Consistent, tables, world, Free, Place, Holding
<1>12. Way(c, <<>>, r, r) /\ "files" \in LockNames /\ Cardinality(x.writer) = 1
  BY <1>7, WayNowhere, SingleOwner DEF LockNames
<1> QED BY <1>1, <1>2, <1>3, <1>7, <1>8, <1>10, <1>11, <1>12, LoudInvariant
        DEF IInv, TypeOK, tables, world

\* The end of list's section and of the broadcast's.
LEMMA ReleaseSharedInvariant ==
  ASSUME IInv, NEW c \in Users, ReleaseShared(c)
  PROVE  IInv'
<1>1. PICK at \in [Users -> Places] : Consistent(at)
  BY DEF IInv
<1>2. /\ todo[c] # <<>> /\ Head(todo[c]).op = "unshare"
      /\ todo' = [todo EXCEPT ![c] = <<>> \o Tail(@)]
      /\ lock' = [lock EXCEPT ![On(c)] = Unshare(@, c)]
      /\ UNCHANGED <<tables, world>>
  BY DEF ReleaseShared, Do, At, Running
<1>3. PICK r \in Places :
        /\ Moves(c, Head(todo[c]), at[c], r)
        /\ Head(todo[c]) \in Steps /\ Tail(todo[c]) \in Seq(Steps)
        /\ Leads(c, Tail(todo[c]), r, Free)
  BY <1>1, <1>2, FirstStep DEF IInv
<1> DEFINE l == On(c)  x == Unshare(lock[l], c)
<1>4. /\ r = Free
      /\ \/ l = "mapping" /\ at[c] = Place("sessions")
         \/ l = "accounts" /\ at[c] = Place("accounts")
  BY <1>2, <1>3 DEF Moves, On
<1>5. l \in LockNames
  BY <1>4 DEF LockNames
<1>6. /\ x \in Locks(Users \cup {Gone}) /\ x.writer = lock[l].writer
      /\ x.readers = lock[l].readers \ {c}
      /\ x.writer # {} => x.readers = {} /\ Cardinality(x.writer) = 1
  BY <1>5 DEF IInv, TypeOK, Unshare, Locks
<1>7. lock' = [lock EXCEPT ![l] = x]
  BY <1>2
<1>8. lock'[l] = x /\ \A k \in LockNames \ {l} : lock'[k] = lock[k]
  BY <1>5, <1>7 DEF IInv, TypeOK
<1> HIDE DEF l, x
<1>9. Owned(Goes(c, at, r))'
  <2>1. /\ Goes(c, at, r)[c] = r /\ \A d \in Users \ {c} : Goes(c, at, r)[d] = at[d]
        /\ Owned(at)
    BY <1>1 DEF Goes, Consistent
  <2>2. CASE l = "mapping"
    BY <1>4, <1>6, <1>8, <2>1, <2>2
       DEF Owned, InFiles, InAccounts, LockNames, Free, Place, Holding
  <2>3. CASE l = "accounts"
    BY <1>4, <1>6, <1>8, <2>1, <2>3
       DEF Owned, InFiles, InAccounts, LockNames, Free, Place, Holding
  <2> QED BY <1>4, <2>2, <2>3
<1>10. Opened(Goes(c, at, r))'
  <2>1. lock'["files"] = lock["files"]
    BY <1>4, <1>8 DEF LockNames
  <2> QED BY <1>1, <1>2, <1>4, <2>1, OpenedKept
          DEF IInv, Consistent, tables, world, Free, Place, Holding
<1>11. Way(c, <<>>, r, r)
  BY WayNowhere
<1> QED BY <1>1, <1>2, <1>3, <1>5, <1>6, <1>7, <1>9, <1>10, <1>11, LoudInvariant
        DEF IInv, TypeOK, tables, world

\* An exclusive owner is alone.
LEMMA OwnerAlone ==
  ASSUME TypeOK, NEW l \in LockNames, NEW c \in lock[l].writer
  PROVE  lock[l].writer = {c} /\ lock[l].readers = {}
<1>1. IsFiniteSet(Users \cup {Gone})
  BY ServerLocksAssumption, FS_AddElement
<1>2. lock[l].writer \subseteq Users \cup {Gone} /\ Cardinality(lock[l].writer) = 1
  BY DEF TypeOK, Locks
<1>3. IsFiniteSet(lock[l].writer)
  BY <1>1, <1>2, FS_Subset
<1>4. PICK x : lock[l].writer = {x}
  BY <1>2, <1>3, FS_Singleton
<1> QED BY <1>4 DEF TypeOK

\* Inside the lock of the files, the open ones are pending files of listed users
\* and the handler's own.
LEMMA InsideFiles ==
  ASSUME TypeOK, NEW at \in [Users -> Places], Consistent(at), NEW c \in Users,
         at[c].held \in InFiles
  PROVE  /\ lock["files"].writer = {c} /\ lock["files"].readers = {}
         /\ \A p \in open :
              \/ \E u \in listed : p = Pending(u) /\ at[u].held # "closed"
              \/ at[c].held \in {"opened", "both"} /\ at[c].path = p
<1>1. c \in lock["files"].writer /\ "files" \in LockNames
  BY DEF Consistent, Owned, LockNames
<1>2. lock["files"].writer = {c} /\ lock["files"].readers = {}
  BY <1>1, OwnerAlone
<1>3. Gone \notin lock["files"].writer
  BY <1>2, ServerLocksAssumption
<1>4. \A d \in Users : at[d].held \in {"opened", "both"} => d = c
  BY <1>2 DEF Consistent, Owned, InFiles
<1> QED BY <1>2, <1>3, <1>4 DEF Consistent, Opened

\* The entry of a pending file is made, and its file opened.
LEMMA ListInvariant ==
  ASSUME IInv, NEW c \in Users, List(c)
  PROVE  IInv'
<1>1. PICK at \in [Users -> Places] : Consistent(at)
  BY DEF IInv
<1>2. /\ todo[c] # <<>> /\ Head(todo[c]).op = "list" /\ up
      /\ todo' = [todo EXCEPT ![c] = <<>> \o Tail(@)]
      /\ lock' = [lock EXCEPT !["files"] = Unlock(@)]
      /\ UNCHANGED <<session, world>>
  BY DEF List, Do, At, Running
<1>3. PICK r \in Places :
        /\ Moves(c, Head(todo[c]), at[c], r)
        /\ Head(todo[c]) \in Steps /\ Tail(todo[c]) \in Seq(Steps)
        /\ Leads(c, Tail(todo[c]), r, Free)
  BY <1>1, <1>2, FirstStep DEF IInv
<1>4. \/ at[c] = Place("files") /\ r = Free
      \/ at[c] = Place("inner") /\ r = Place("accounts")
  BY <1>2, <1>3 DEF Moves
<1>5. On(c) \in Users
  BY <1>2, <1>3, StepIsOn DEF On, UserOps
<1>6. /\ lock["files"].writer = {c} /\ lock["files"].readers = {}
      /\ \A p \in open : \E u \in listed : p = Pending(u) /\ at[u].held # "closed"
  BY <1>1, <1>4, InsideFiles DEF IInv, InFiles, Place, Holding
<1> DEFINE x == Unlock(lock["files"])
           new == Goes(c, at, r)
<1>7. x \in Locks(Users \cup {Gone}) /\ x.writer = {} /\ x.readers = {}
  BY <1>6 DEF IInv, TypeOK, Unlock, Locks, LockNames
<1>8. lock' = [lock EXCEPT !["files"] = x]
  BY <1>2
<1>9. lock'["files"] = x /\ lock'["accounts"] = lock["accounts"]
      /\ lock'["mapping"] = lock["mapping"]
  BY <1>8 DEF IInv, TypeOK, LockNames
<1>10. new[c] = r /\ \A d \in Users \ {c} : new[d] = at[d]
  BY DEF Goes
<1> HIDE DEF x, new
<1>11. Owned(new)'
  BY <1>1, <1>4, <1>6, <1>7, <1>9, <1>10
     DEF Consistent, Owned, InFiles, InAccounts, Free, Place, Holding
<1>12. /\ listed' \subseteq Users /\ open' \subseteq Paths /\ listed \subseteq listed'
       /\ \A p \in open' : p \in open \/ (p = Pending(On(c)) /\ On(c) \in listed' \ listed)
  BY <1>2, <1>5, PathTypes DEF List, IInv, TypeOK
<1>13. Opened(new)'
  <2>1. \A d \in Users : new[d].held \in {"draining", "closed"} => at[d].held = new[d].held
    BY <1>4, <1>10 DEF Free, Place, Holding
  <2>2. \A d \in Users : at[d].held \in {"draining", "closed"} => d \in listed
    BY <1>1, <1>2 DEF Consistent, Opened
  <2>3. ASSUME NEW p \in open'
        PROVE  \E u \in listed' : p = Pending(u) /\ new[u].held # "closed"
    <3>1. CASE p \in open
      BY <1>6, <1>12, <2>1, <3>1 DEF IInv, TypeOK
    <3>2. CASE p = Pending(On(c)) /\ On(c) \in listed' \ listed
      BY <1>5, <2>1, <2>2, <3>2
    <3> QED BY <1>12, <3>1, <3>2
  <2> QED BY <1>12, <2>1, <2>2, <2>3 DEF Opened
<1>14. Way(c, <<>>, r, r) /\ "files" \in LockNames
  BY WayNowhere DEF LockNames
<1>15. faults' \in 0..MaxFaults /\ UNCHANGED <<session, deaf, queued, up, begun>>
  BY <1>2 DEF IInv, TypeOK, world
<1> QED BY <1>1, <1>2, <1>3, <1>7, <1>8, <1>11, <1>12, <1>13, <1>14, <1>15, LoudInvariant
        DEF new

\* A message is written to its history.
LEMMA AppendHistoryInvariant ==
  ASSUME IInv, NEW c \in Users, AppendHistory(c)
  PROVE  IInv'
<1>1. PICK at \in [Users -> Places] : Consistent(at)
  BY DEF IInv
<1>2. /\ todo[c] # <<>> /\ Head(todo[c]).op = "append"
      /\ todo' = [todo EXCEPT ![c] = <<>> \o Tail(@)]
      /\ lock' = [lock EXCEPT !["files"] = Unlock(@)]
      /\ UNCHANGED <<tables, world>>
  BY DEF AppendHistory, Do, At, Running
<1>3. PICK r \in Places :
        /\ Moves(c, Head(todo[c]), at[c], r)
        /\ Head(todo[c]) \in Steps /\ Tail(todo[c]) \in Seq(Steps)
        /\ Leads(c, Tail(todo[c]), r, Free)
  BY <1>1, <1>2, FirstStep DEF IInv
<1>4. at[c] = Place("files") /\ r = Free
  BY <1>2, <1>3 DEF Moves
<1>5. lock["files"].writer = {c} /\ lock["files"].readers = {}
  BY <1>1, <1>4, InsideFiles DEF IInv, InFiles, Place, Holding
<1> DEFINE x == Unlock(lock["files"])
<1>6. x \in Locks(Users \cup {Gone}) /\ x.writer = {} /\ x.readers = {}
  BY <1>5 DEF IInv, TypeOK, Unlock, Locks, LockNames
<1>7. lock' = [lock EXCEPT !["files"] = x]
  BY <1>2
<1>8. lock'["files"] = x /\ lock'["accounts"] = lock["accounts"]
      /\ lock'["mapping"] = lock["mapping"]
  BY <1>7 DEF IInv, TypeOK, LockNames
<1> HIDE DEF x
<1>9. Owned(Goes(c, at, r))'
  <2>1. /\ Goes(c, at, r)[c] = r /\ \A d \in Users \ {c} : Goes(c, at, r)[d] = at[d]
    BY DEF Goes
  <2> QED BY <1>1, <1>4, <1>5, <1>6, <1>8, <2>1
          DEF Consistent, Owned, InFiles, InAccounts, Free, Place, Holding
<1>10. Opened(Goes(c, at, r))'
  <2>1. Gone \notin lock["files"].writer
    BY <1>5, ServerLocksAssumption
  <2> QED BY <1>1, <1>2, <1>4, <2>1, OpenedKept
          DEF IInv, Consistent, tables, world, Free, Place, Holding
<1>11. Way(c, <<>>, r, r) /\ "files" \in LockNames
  BY WayNowhere DEF LockNames
<1>12. /\ listed' \subseteq Users /\ open' \subseteq Paths /\ faults' \in 0..MaxFaults
       /\ UNCHANGED <<session, deaf, queued, up, begun>>
  BY <1>2 DEF IInv, TypeOK, tables, world
<1> QED BY <1>1, <1>2, <1>3, <1>6, <1>7, <1>9, <1>10, <1>11, <1>12, LoudInvariant

\* A history file is opened, and stays open.
LEMMA OpenHistoryInvariant ==
  ASSUME IInv, NEW c \in Users, OpenHistory(c)
  PROVE  IInv'
<1>1. PICK at \in [Users -> Places] : Consistent(at)
  BY DEF IInv
<1>2. /\ todo[c] # <<>> /\ Head(todo[c]).op = "open"
      /\ todo' = [todo EXCEPT ![c] = <<>> \o Tail(@)]
      /\ open' = open \cup {On(c)}
      /\ UNCHANGED <<lock, session, listed, world>>
  BY DEF OpenHistory, Do, At, Running
<1>3. PICK r \in Places :
        /\ Moves(c, Head(todo[c]), at[c], r)
        /\ Head(todo[c]) \in Steps /\ Tail(todo[c]) \in Seq(Steps)
        /\ Leads(c, Tail(todo[c]), r, Free)
  BY <1>1, <1>2, FirstStep DEF IInv
<1>4. at[c] = Place("files") /\ r = Holding("opened", On(c)) /\ On(c) \in Paths
  BY <1>2, <1>3, StepIsOn DEF Moves, On, PathOps
<1>5. lock["files"].writer = {c} /\ lock["files"].readers = {}
      /\ \A p \in open : \E u \in listed : p = Pending(u) /\ at[u].held # "closed"
  BY <1>1, <1>4, InsideFiles DEF IInv, InFiles, Place, Holding
<1> DEFINE new == Goes(c, at, r)
<1>6. new[c] = r /\ \A d \in Users \ {c} : new[d] = at[d]
  BY DEF Goes
<1> HIDE DEF new
<1>7. Owned(new)'
  BY <1>1, <1>2, <1>4, <1>6 DEF Consistent, Owned, InFiles, InAccounts, Place, Holding
<1>8. Opened(new)'
  <2>1. up' => \A d \in Users : new[d].held \in {"draining", "closed"} => d \in listed'
    BY <1>1, <1>2, <1>4, <1>6 DEF Consistent, Opened, world, Holding
  <2>2. ASSUME NEW p \in open'
        PROVE  \/ \E u \in listed' : p = Pending(u) /\ new[u].held # "closed"
               \/ \E d \in Users : new[d].held \in {"opened", "both"} /\ new[d].path = p
    <3>1. CASE p \in open
      <4>1. PICK u \in listed : p = Pending(u) /\ at[u].held # "closed"
        BY <1>5, <3>1
      <4>2. u \in Users /\ new[u].held # "closed"
        BY <1>4, <1>6, <4>1 DEF IInv, TypeOK, Holding
      <4> QED BY <1>2, <4>1, <4>2
    <3>2. CASE p = On(c)
      BY <1>4, <1>6, <3>2 DEF Holding
    <3> QED BY <1>2, <3>1, <3>2
  <2> QED BY <2>1, <2>2 DEF Opened
<1>9. /\ Way(c, <<>>, r, r) /\ "files" \in LockNames
      /\ lock["files"] \in Locks(Users \cup {Gone})
      /\ lock["files"].writer # {} => lock["files"].readers = {} /\ Cardinality(lock["files"].writer) = 1
      /\ lock' = [lock EXCEPT !["files"] = lock["files"]]
  BY <1>2, WayNowhere DEF IInv, TypeOK, LockNames
<1>10. /\ listed' \subseteq Users /\ open' \subseteq Paths /\ faults' \in 0..MaxFaults
       /\ UNCHANGED <<session, deaf, queued, up, begun>>
  BY <1>2, <1>4 DEF IInv, TypeOK, world
<1> QED BY <1>1, <1>2, <1>3, <1>7, <1>8, <1>9, <1>10, LoudInvariant DEF new

\* The login closes the pending file before its entry goes.
LEMMA ClosePendingInvariant ==
  ASSUME IInv, NEW c \in Users, ClosePending(c)
  PROVE  IInv'
<1>1. PICK at \in [Users -> Places] : Consistent(at)
  BY DEF IInv
<1>2. /\ todo[c] # <<>> /\ Head(todo[c]).op = "close" /\ up
      /\ todo' = [todo EXCEPT ![c] = <<>> \o Tail(@)]
      /\ open' = open \ {Pending(On(c))}
      /\ UNCHANGED <<lock, session, listed, world>>
  BY DEF ClosePending, Do, At, Running
<1>3. PICK r \in Places :
        /\ Moves(c, Head(todo[c]), at[c], r)
        /\ Head(todo[c]) \in Steps /\ Tail(todo[c]) \in Seq(Steps)
        /\ Leads(c, Tail(todo[c]), r, Free)
  BY <1>1, <1>2, FirstStep DEF IInv
<1>4. /\ On(c) = c /\ at[c] = Holding("draining", Pending(c))
      /\ r = Holding("closed", Pending(c))
  BY <1>2, <1>3 DEF Moves, On
<1> DEFINE new == Goes(c, at, r)
<1>5. new[c] = r /\ \A d \in Users \ {c} : new[d] = at[d]
  BY DEF Goes
<1> HIDE DEF new
<1>6. Owned(new)'
  BY <1>1, <1>2, <1>4, <1>5 DEF Consistent, Owned, InFiles, InAccounts, Holding
<1>7. Opened(new)'
  <2>1. up' => \A d \in Users : new[d].held \in {"draining", "closed"} => d \in listed'
    BY <1>1, <1>2, <1>4, <1>5 DEF Consistent, Opened, Holding
  <2>2. ASSUME NEW p \in open'
        PROVE  \/ \E u \in listed' : p = Pending(u) /\ new[u].held # "closed"
               \/ \E d \in Users : new[d].held \in {"opened", "both"} /\ new[d].path = p
               \/ Gone \in lock'["files"].writer
    <3>1. p \in open /\ p # Pending(c)
      BY <1>2, <1>4
    <3>2. CASE \E u \in listed : p = Pending(u) /\ at[u].held # "closed"
      BY <1>2, <1>5, <3>1, <3>2 DEF IInv, TypeOK
    <3>3. CASE \E d \in Users : at[d].held \in {"opened", "both"} /\ at[d].path = p
      BY <1>4, <1>5, <3>3 DEF Holding
    <3> QED BY <1>1, <1>2, <3>1, <3>2, <3>3 DEF Consistent, Opened
  <2> QED BY <2>1, <2>2 DEF Opened
<1>8. /\ Way(c, <<>>, r, r) /\ "files" \in LockNames
      /\ lock["files"] \in Locks(Users \cup {Gone})
      /\ lock["files"].writer # {} => lock["files"].readers = {} /\ Cardinality(lock["files"].writer) = 1
      /\ lock' = [lock EXCEPT !["files"] = lock["files"]]
  BY <1>2, WayNowhere DEF IInv, TypeOK, LockNames
<1>9. /\ listed' \subseteq Users /\ open' \subseteq Paths /\ faults' \in 0..MaxFaults
      /\ UNCHANGED <<session, deaf, queued, up, begun>>
  BY <1>2 DEF IInv, TypeOK, world
<1> QED BY <1>1, <1>2, <1>3, <1>6, <1>7, <1>8, <1>9, LoudInvariant DEF new

\* The entry goes: nobody is inside the lock of the files, and nothing but pending
\* files that are still listed is open.
LEMMA UnlistInvariant ==
  ASSUME IInv, NEW c \in Users, Unlist(c)
  PROVE  IInv'
<1>1. PICK at \in [Users -> Places] : Consistent(at)
  BY DEF IInv
<1>2. /\ todo[c] # <<>> /\ Head(todo[c]).op = "unlist" /\ up /\ Blockers(c) = {}
      /\ todo' = [todo EXCEPT ![c] = <<>> \o Tail(@)]
      /\ listed' = listed \ {On(c)}
      /\ UNCHANGED <<lock, session, open, world>>
  BY DEF Unlist, Do, At, Running
<1>3. PICK r \in Places :
        /\ Moves(c, Head(todo[c]), at[c], r)
        /\ Head(todo[c]) \in Steps /\ Tail(todo[c]) \in Seq(Steps)
        /\ Leads(c, Tail(todo[c]), r, Free)
  BY <1>1, <1>2, FirstStep DEF IInv
<1>4. On(c) = c /\ at[c] = Holding("closed", Pending(c)) /\ r = Free
  BY <1>2, <1>3 DEF Moves, On
<1>5. lock["files"].writer = {}
  <2>1. LockOf(Head(todo[c])) = "files"
    BY <1>2 DEF LockOf, LockOps
  <2> QED BY <1>2, <2>1, NotBlocked DEF IInv, Exclusive, LockNames
<1> DEFINE new == Goes(c, at, r)
<1>6. new[c] = r /\ \A d \in Users \ {c} : new[d] = at[d]
  BY DEF Goes
<1> HIDE DEF new
<1>7. Owned(new)'
  BY <1>1, <1>2, <1>4, <1>6 DEF Consistent, Owned, InFiles, InAccounts, Free, Place, Holding
<1>8. Opened(new)'
  <2>1. up' => \A d \in Users : new[d].held \in {"draining", "closed"} => d \in listed'
    BY <1>1, <1>2, <1>4, <1>6 DEF Consistent, Opened, Free, Place, Holding
  <2>2. ASSUME NEW p \in open'
        PROVE  \E u \in listed' : p = Pending(u) /\ new[u].held # "closed"
    <3>1. \A d \in Users : at[d].held \notin {"opened", "both"}
      BY <1>1, <1>5 DEF Consistent, Owned, InFiles
    <3>2. PICK u \in listed : p = Pending(u) /\ at[u].held # "closed"
      BY <1>1, <1>2, <1>5, <3>1 DEF Consistent, Opened
    <3>3. u # c
      BY <1>4, <3>2 DEF Holding
    <3> QED BY <1>2, <1>4, <1>6, <3>2, <3>3 DEF IInv, TypeOK
  <2> QED BY <2>1, <2>2 DEF Opened
<1>9. /\ Way(c, <<>>, r, r) /\ "files" \in LockNames
      /\ lock["files"] \in Locks(Users \cup {Gone})
      /\ lock["files"].writer # {} => lock["files"].readers = {} /\ Cardinality(lock["files"].writer) = 1
      /\ lock' = [lock EXCEPT !["files"] = lock["files"]]
  BY <1>2, WayNowhere DEF IInv, TypeOK, LockNames
<1>10. /\ listed' \subseteq Users /\ open' \subseteq Paths /\ faults' \in 0..MaxFaults
       /\ UNCHANGED <<session, deaf, queued, up, begun>>
  BY <1>2 DEF IInv, TypeOK, world
<1> QED BY <1>1, <1>2, <1>3, <1>7, <1>8, <1>9, <1>10, LoudInvariant DEF new

\* The general case: a handler is left with any steps that lead on from its place.
LEMMA LeftInvariant ==
  ASSUME IInv, NEW at \in [Users -> Places], Consistent(at), NEW c \in Users,
         NEW rest \in Seq(Steps), NEW q \in Places, Leads(c, rest, q, Free),
         todo' = [todo EXCEPT ![c] = rest],
         lock' \in [LockNames -> Locks(Users \cup {Gone})],
         \A k \in LockNames : lock'[k].writer # {} =>
           lock'[k].readers = {} /\ Cardinality(lock'[k].writer) = 1,
         listed' \subseteq Users, open' \subseteq Paths,
         UNCHANGED <<session, deaf, queued, up, begun>>, faults' \in 0..MaxFaults,
         Owned(Goes(c, at, q))', Opened(Goes(c, at, q))'
  PROVE  IInv'
<1>1. todo' \in [Users -> Seq(Steps)] /\ todo'[c] = rest
      /\ \A d \in Users \ {c} : todo'[d] = todo[d]
  BY DEF IInv, TypeOK
<1>2. Goes(c, at, q) \in [Users -> Places] /\ Goes(c, at, q)[c] = q
      /\ \A d \in Users \ {c} : Goes(c, at, q)[d] = at[d]
  BY DEF Goes
<1>3. \A d \in Users : Leads(d, todo'[d], Goes(c, at, q)[d], Free)
  BY <1>1, <1>2 DEF Consistent
<1>4. TypeOK'
  BY <1>1 DEF IInv, TypeOK
<1>5. Consistent(Goes(c, at, q))'
  BY <1>3 DEF Consistent
<1> QED BY <1>2, <1>4, <1>5 DEF IInv

\* The end of a history: two locks and its file.
LEMMA FinishHistoryInvariant ==
  ASSUME IInv, NEW c \in Users, FinishHistory(c)
  PROVE  IInv'
<1>1. PICK at \in [Users -> Places] : Consistent(at)
  BY DEF IInv
<1>2. /\ todo[c] # <<>> /\ Head(todo[c]).op = "finish"
      /\ todo' = [todo EXCEPT ![c] = <<>> \o Tail(@)]
      /\ open' = open \ {On(c)}
      /\ lock' = [lock EXCEPT !["accounts"] = Unshare(@, c), !["files"] = Unlock(@)]
      /\ UNCHANGED <<session, listed, world>>
  BY DEF FinishHistory, Do, At, Running
<1>3. PICK r \in Places :
        /\ Moves(c, Head(todo[c]), at[c], r)
        /\ Head(todo[c]) \in Steps /\ Tail(todo[c]) \in Seq(Steps)
        /\ Leads(c, Tail(todo[c]), r, Free)
  BY <1>1, <1>2, FirstStep DEF IInv
<1>4. at[c] = Holding("both", On(c)) /\ r = Free
  BY <1>2, <1>3 DEF Moves, On
<1>5. /\ lock["files"].writer = {c} /\ lock["files"].readers = {}
      /\ \A p \in open \ {On(c)} : \E u \in listed : p = Pending(u) /\ at[u].held # "closed"
  BY <1>1, <1>4, InsideFiles DEF IInv, InFiles, Holding
<1>6. /\ lock'["files"] = Unlock(lock["files"])
      /\ lock'["accounts"] = Unshare(lock["accounts"], c)
      /\ lock'["mapping"] = lock["mapping"]
      /\ DOMAIN lock' = LockNames
  BY <1>2 DEF IInv, TypeOK, LockNames
<1>7. /\ lock'["files"].writer = {} /\ lock'["files"].readers = {}
      /\ lock'["accounts"].writer = lock["accounts"].writer
      /\ lock'["accounts"].readers = lock["accounts"].readers \ {c}
      /\ \A k \in LockNames : lock'[k] \in Locks(Users \cup {Gone})
  <2>1. \A k \in LockNames : lock[k] \in Locks(Users \cup {Gone})
    BY DEF IInv, TypeOK
  <2>2. lock["files"] \in Locks(Users \cup {Gone}) /\ lock["accounts"] \in Locks(Users \cup {Gone})
    BY <2>1 DEF LockNames
  <2>3. /\ lock'["files"].writer = {} /\ lock'["files"].readers = {}
        /\ lock'["files"] \in Locks(Users \cup {Gone})
    BY <1>5, <1>6, <2>2 DEF Unlock, Locks
  <2>4. /\ lock'["accounts"].writer = lock["accounts"].writer
        /\ lock'["accounts"].readers = lock["accounts"].readers \ {c}
        /\ lock'["accounts"] \in Locks(Users \cup {Gone})
    BY <1>6, <2>2 DEF Unshare, Locks
  <2> QED BY <1>6, <2>1, <2>3, <2>4 DEF LockNames
<1>8. /\ lock' \in [LockNames -> Locks(Users \cup {Gone})]
      /\ \A k \in LockNames : lock'[k].writer # {} =>
           lock'[k].readers = {} /\ Cardinality(lock'[k].writer) = 1
  <2>1. lock' \in [LockNames -> Locks(Users \cup {Gone})]
    BY <1>2, <1>7 DEF IInv, TypeOK
  <2>2. \A k \in LockNames : lock'[k].writer # {} =>
          lock'[k].readers = {} /\ Cardinality(lock'[k].writer) = 1
    BY <1>6, <1>7 DEF IInv, TypeOK, LockNames
  <2> QED BY <2>1, <2>2
<1> DEFINE new == Goes(c, at, r)
<1>9. new[c] = r /\ \A d \in Users \ {c} : new[d] = at[d]
  BY DEF Goes
<1> HIDE DEF new
<1>10. Owned(new)'
  BY <1>1, <1>4, <1>5, <1>6, <1>7, <1>9
     DEF Consistent, Owned, InFiles, InAccounts, Free, Place, Holding
<1>11. Opened(new)'
  <2>1. up' => \A d \in Users : new[d].held \in {"draining", "closed"} => d \in listed'
    BY <1>1, <1>2, <1>4, <1>9 DEF Consistent, Opened, world, Free, Place, Holding
  <2>2. ASSUME NEW p \in open'
        PROVE  \E u \in listed' : p = Pending(u) /\ new[u].held # "closed"
    <3>1. PICK u \in listed : p = Pending(u) /\ at[u].held # "closed"
      BY <1>2, <1>5
    <3>2. u \in Users
      BY DEF IInv, TypeOK
    <3>3. new[u].held # "closed"
      BY <1>4, <1>9, <3>1, <3>2 DEF Free, Place, Holding
    <3> QED BY <1>2, <3>1, <3>3
  <2> QED BY <2>1, <2>2 DEF Opened
<1>12. todo' = [todo EXCEPT ![c] = Tail(todo[c])]
  <2>1. <<>> \o Tail(todo[c]) = Tail(todo[c])
    BY <1>3, ConcatEmptySeq
  <2> QED BY <1>2, <2>1
<1>13. /\ listed' \subseteq Users /\ open' \subseteq Paths /\ faults' \in 0..MaxFaults
       /\ UNCHANGED <<session, deaf, queued, up, begun>>
  BY <1>2 DEF IInv, TypeOK, world
<1> QED BY <1>1, <1>3, <1>8, <1>10, <1>11, <1>12, <1>13, LeftInvariant DEF new

---------------------------------------------------------------------------
(* Failing calls.                                                           *)

\* The locks when an early return leaves one of them taken.
LEMMA LeftTakenOwners ==
  ASSUME TypeOK, NEW l \in LockNames, lock[l].readers = {}, lock' = LeftTaken(l)
  PROVE  /\ lock' \in [LockNames -> Locks(Users \cup {Gone})]
         /\ \A k \in LockNames : lock'[k].writer # {} =>
              lock'[k].readers = {} /\ Cardinality(lock'[k].writer) = 1
         /\ lock'[l].writer = {Gone} /\ lock'[l].readers = {}
         /\ \A k \in LockNames \ {l} : lock'[k] = lock[k]
<1> DEFINE x == Lock(lock[l], Gone)
<1>1. x \in Locks(Users \cup {Gone}) /\ x.writer = {Gone} /\ x.readers = {}
  BY DEF TypeOK, Lock, Locks
<1>2. lock' = [lock EXCEPT ![l] = x]
  BY DEF LeftTaken
<1>3. lock'[l] = x /\ \A k \in LockNames \ {l} : lock'[k] = lock[k]
  BY <1>2 DEF TypeOK
<1>4. Cardinality(x.writer) = 1
  BY <1>1, SingleOwner
<1> HIDE DEF x
<1> QED BY <1>1, <1>2, <1>3, <1>4, LockTyped

\* What an early return leaves as it is.
LEMMA ReturnLeaves ==
  ASSUME IInv, NEW c \in Users, NEW ops, NEW rest, NEW left, Return(c, ops, rest, left),
         faults < MaxFaults, faults' = faults + 1
  PROVE  /\ todo[c] # <<>> /\ Head(todo[c]).op \in ops /\ Head(todo[c]) \in Steps
         /\ Blockers(c) = {} /\ todo' = [todo EXCEPT ![c] = rest] /\ lock' = left
         /\ UNCHANGED <<session, listed, open, deaf, queued, up, begun>>
         /\ listed' \subseteq Users /\ open' \subseteq Paths /\ faults' \in 0..MaxFaults
<1>1. /\ todo[c] # <<>> /\ Head(todo[c]).op \in ops /\ Blockers(c) = {}
      /\ todo' = [todo EXCEPT ![c] = rest] /\ lock' = left
      /\ UNCHANGED <<session, listed, open, deaf, queued, up, begun>>
  BY DEF Return, At, Running, tables
<1>2. Head(todo[c]) \in Steps
  BY <1>1, HeadTailProperties DEF IInv, TypeOK
<1>3. listed' \subseteq Users /\ open' \subseteq Paths
  BY <1>1 DEF IInv, TypeOK
<1>4. faults' \in 0..MaxFaults
  BY ServerLocksAssumption DEF IInv, TypeOK
<1> QED BY <1>1, <1>2, <1>3, <1>4

\* SetFilePointer fails before a scan: the lock of the accounts stays taken.
LEMMA RewindFailsInvariant ==
  ASSUME IInv, NEW c \in Users, RewindFails(c)
  PROVE  IInv'
<1>1. /\ Return(c, {"rewind"}, <<>>, LeftTaken("accounts"))
      /\ faults < MaxFaults /\ faults' = faults + 1
  BY DEF RewindFails, Fault
<1>2. /\ todo[c] # <<>> /\ Head(todo[c]).op = "rewind"
      /\ Blockers(c) = {} /\ todo' = [todo EXCEPT ![c] = <<>>] /\ lock' = LeftTaken("accounts")
      /\ UNCHANGED <<session, listed, open, deaf, queued, up, begun>>
      /\ listed' \subseteq Users /\ open' \subseteq Paths /\ faults' \in 0..MaxFaults
  BY <1>1, ReturnLeaves
<1>3. PICK at \in [Users -> Places] : Consistent(at)
  BY DEF IInv
<1>4. at[c] = Free /\ Head(todo[c]).on = "accounts"
  BY <1>2, <1>3, FirstStep DEF IInv, Moves
<1>5. lock["accounts"].readers = {}
  <2>1. LockOf(Head(todo[c])) = "accounts"
    BY <1>2, <1>4 DEF LockOf, LockOps
  <2> QED BY <1>2, <2>1, NotBlocked DEF IInv, Exclusive, LockNames
<1>6. /\ lock' \in [LockNames -> Locks(Users \cup {Gone})]
      /\ \A k \in LockNames : lock'[k].writer # {} =>
           lock'[k].readers = {} /\ Cardinality(lock'[k].writer) = 1
      /\ lock'["accounts"].writer = {Gone} /\ lock'["accounts"].readers = {}
      /\ lock'["files"] = lock["files"] /\ lock'["mapping"] = lock["mapping"]
  BY <1>2, <1>5, LeftTakenOwners DEF IInv, LockNames
<1> DEFINE new == Goes(c, at, Free)
<1>7. new = at
  BY <1>4 DEF Goes
<1>8. Owned(new)'
  BY <1>3, <1>5, <1>6, <1>7 DEF Consistent, Owned
<1>9. Opened(new)'
  BY <1>2, <1>3, <1>6, <1>7 DEF Consistent, Opened
<1>10. <<>> \in Seq(Steps) /\ Leads(c, <<>>, Free, Free) /\ Free \in Places
  BY WayNowhere, PlaceTypes DEF Way
<1> QED BY <1>2, <1>3, <1>6, <1>8, <1>9, <1>10, LeftInvariant

\* It fails in CheckRegisteredUser, whose caller goes on after the scan.
LEMMA CheckFailsInvariant ==
  ASSUME IInv, NEW c \in Users, CheckFails(c)
  PROVE  IInv'
<1> DEFINE rest == Tail(Tail(todo[c]))
<1>1. /\ Return(c, {"recheck"}, rest, LeftTaken("accounts"))
      /\ faults < MaxFaults /\ faults' = faults + 1
  BY DEF CheckFails, Fault
<1>2. /\ todo[c] # <<>> /\ Head(todo[c]).op = "recheck"
      /\ Blockers(c) = {} /\ todo' = [todo EXCEPT ![c] = rest] /\ lock' = LeftTaken("accounts")
      /\ UNCHANGED <<session, listed, open, deaf, queued, up, begun>>
      /\ listed' \subseteq Users /\ open' \subseteq Paths /\ faults' \in 0..MaxFaults
  <2> HIDE DEF rest
  <2> QED BY <1>1, ReturnLeaves
<1>3. PICK at \in [Users -> Places] : Consistent(at)
  BY DEF IInv
<1>4. PICK r \in Places :
        /\ Moves(c, Head(todo[c]), at[c], r)
        /\ Tail(todo[c]) \in Seq(Steps) /\ Leads(c, Tail(todo[c]), r, Free)
  BY <1>2, <1>3, FirstStep DEF IInv
<1>5. at[c] = Free /\ r = Place("checked") /\ Head(todo[c]).on = "accounts"
  BY <1>2, <1>4 DEF Moves
<1>6. Tail(todo[c]) # <<>>
  BY <1>4, <1>5, LeadsNowhere DEF Free, Place, Holding
<1>7. rest \in Seq(Steps) /\ Leads(c, rest, Free, Free)
  <2>1. PICK q \in Places : Moves(c, Head(Tail(todo[c])), r, q) /\ Leads(c, rest, q, Free)
    BY <1>4, <1>6, LeadsFirst
  <2>2. q = Free
    BY <1>5, <2>1 DEF Moves, Free, Place, Holding
  <2> QED BY <1>4, <1>6, <2>1, <2>2, HeadTailProperties
<1>8. lock["accounts"].readers = {}
  <2>1. LockOf(Head(todo[c])) = "accounts"
    BY <1>2, <1>5 DEF LockOf, LockOps
  <2> QED BY <1>2, <2>1, NotBlocked DEF IInv, Exclusive, LockNames
<1>9. /\ lock' \in [LockNames -> Locks(Users \cup {Gone})]
      /\ \A k \in LockNames : lock'[k].writer # {} =>
           lock'[k].readers = {} /\ Cardinality(lock'[k].writer) = 1
      /\ lock'["accounts"].writer = {Gone} /\ lock'["accounts"].readers = {}
      /\ lock'["files"] = lock["files"] /\ lock'["mapping"] = lock["mapping"]
  BY <1>2, <1>8, LeftTakenOwners DEF IInv, LockNames
<1> DEFINE new == Goes(c, at, Free)
<1>10. new = at
  BY <1>5 DEF Goes
<1>11. Owned(new)'
  BY <1>3, <1>8, <1>9, <1>10 DEF Consistent, Owned
<1>12. Opened(new)'
  BY <1>2, <1>3, <1>9, <1>10 DEF Consistent, Opened
<1>13. Free \in Places
  BY PlaceTypes
<1> HIDE DEF rest
<1> QED BY <1>2, <1>3, <1>7, <1>9, <1>11, <1>12, <1>13, LeftInvariant

\* It fails in the drain: the lock of the files stays taken.
LEMMA SeekFailsInvariant ==
  ASSUME IInv, NEW c \in Users, SeekFails(c)
  PROVE  IInv'
<1>1. /\ Return(c, {"seek"}, <<>>, LeftTaken("files"))
      /\ faults < MaxFaults /\ faults' = faults + 1
  BY DEF SeekFails, Fault
<1>2. /\ todo[c] # <<>> /\ Head(todo[c]).op = "seek"
      /\ Blockers(c) = {} /\ todo' = [todo EXCEPT ![c] = <<>>] /\ lock' = LeftTaken("files")
      /\ UNCHANGED <<session, listed, open, deaf, queued, up, begun>>
      /\ listed' \subseteq Users /\ open' \subseteq Paths /\ faults' \in 0..MaxFaults
  BY <1>1, ReturnLeaves
<1>3. PICK at \in [Users -> Places] : Consistent(at)
  BY DEF IInv
<1>4. at[c].held = "draining"
  BY <1>2, <1>3, FirstStep DEF IInv, Moves
<1>5. lock["files"].writer = {} /\ lock["files"].readers = {}
  <2>1. LockOf(Head(todo[c])) = "files"
    BY <1>2 DEF LockOf, LockOps
  <2> QED BY <1>2, <2>1, NotBlocked DEF IInv, Exclusive, LockNames
<1>6. /\ lock' \in [LockNames -> Locks(Users \cup {Gone})]
      /\ \A k \in LockNames : lock'[k].writer # {} =>
           lock'[k].readers = {} /\ Cardinality(lock'[k].writer) = 1
      /\ lock'["files"].writer = {Gone} /\ lock'["files"].readers = {}
      /\ lock'["accounts"] = lock["accounts"] /\ lock'["mapping"] = lock["mapping"]
  BY <1>2, <1>5, LeftTakenOwners DEF IInv, LockNames
<1> DEFINE new == Goes(c, at, Free)
<1>7. new[c] = Free /\ \A d \in Users \ {c} : new[d] = at[d]
  BY PlaceTypes DEF Goes
<1> HIDE DEF new
<1>8. Owned(new)'
  <2>1. Gone \notin Users
    BY ServerLocksAssumption
  <2> QED BY <1>3, <1>4, <1>5, <1>6, <1>7, <2>1
          DEF Consistent, Owned, InFiles, InAccounts, Free, Place, Holding
<1>9. Opened(new)'
  BY <1>2, <1>3, <1>6, <1>7 DEF Consistent, Opened, Free, Place, Holding
<1>10. <<>> \in Seq(Steps) /\ Leads(c, <<>>, Free, Free) /\ Free \in Places
  BY WayNowhere, PlaceTypes DEF Way
<1> QED BY <1>2, <1>3, <1>6, <1>8, <1>9, <1>10, LeftInvariant DEF new

\* The broadcast's calloc fails: its shared lock of the accounts stays taken.
LEMMA PathAllocFailsInvariant ==
  ASSUME IInv, NEW c \in Users, PathAllocFails(c)
  PROVE  IInv'
<1> DEFINE x == Share(Unshare(lock["accounts"], c), Gone)
<1>1. /\ Return(c, {"look"}, <<>>, [lock EXCEPT !["accounts"] = x])
      /\ faults < MaxFaults /\ faults' = faults + 1
  BY DEF PathAllocFails, Fault
<1>2. /\ todo[c] # <<>> /\ Head(todo[c]).op = "look"
      /\ todo' = [todo EXCEPT ![c] = <<>>] /\ lock' = [lock EXCEPT !["accounts"] = x]
      /\ UNCHANGED <<session, listed, open, deaf, queued, up, begun>>
      /\ listed' \subseteq Users /\ open' \subseteq Paths /\ faults' \in 0..MaxFaults
  <2> HIDE DEF x
  <2> QED BY <1>1, ReturnLeaves
<1>3. PICK at \in [Users -> Places] : Consistent(at)
  BY DEF IInv
<1>4. at[c] = Place("accounts")
  BY <1>2, <1>3, FirstStep DEF IInv, Moves
<1>5. lock["accounts"].writer = {}
  <2>1. c \in lock["accounts"].readers
    BY <1>3, <1>4 DEF Consistent, Owned, InAccounts, Place, Holding
  <2>2. lock["accounts"].writer # {} => lock["accounts"].readers = {}
    BY DEF IInv, TypeOK, LockNames
  <2> QED BY <2>1, <2>2
<1>6. /\ x \in Locks(Users \cup {Gone}) /\ x.writer = {}
      /\ x.readers = (lock["accounts"].readers \ {c}) \cup {Gone}
  BY <1>5 DEF IInv, TypeOK, Share, Unshare, Locks, LockNames
<1> HIDE DEF x
<1>7. /\ lock' \in [LockNames -> Locks(Users \cup {Gone})]
      /\ \A k \in LockNames : lock'[k].writer # {} =>
           lock'[k].readers = {} /\ Cardinality(lock'[k].writer) = 1
  BY <1>2, <1>6, LockTyped DEF IInv, LockNames
<1>8. lock'["accounts"] = x /\ lock'["files"] = lock["files"] /\ lock'["mapping"] = lock["mapping"]
  BY <1>2 DEF IInv, TypeOK, LockNames
<1> DEFINE new == Goes(c, at, Free)
<1>9. new[c] = Free /\ \A d \in Users \ {c} : new[d] = at[d]
  BY PlaceTypes DEF Goes
<1>10. Opened(new)'
  BY <1>2, <1>3, <1>4, <1>8, PlaceTypes, OpenedKept
     DEF IInv, Consistent, Free, Place, Holding
<1> HIDE DEF new
<1>11. Owned(new)'
  <2>1. Gone \notin Users
    BY ServerLocksAssumption
  <2> QED BY <1>3, <1>4, <1>6, <1>8, <1>9, <2>1
          DEF Consistent, Owned, InFiles, InAccounts, Free, Place, Holding
<1>12. <<>> \in Seq(Steps) /\ Leads(c, <<>>, Free, Free) /\ Free \in Places
  BY WayNowhere, PlaceTypes DEF Way
<1> QED BY <1>2, <1>3, <1>7, <1>10, <1>11, <1>12, LeftInvariant DEF new

\* The history's malloc fails: the lock stays taken, and the file open.
LEMMA BufferAllocFailsInvariant ==
  ASSUME IInv, NEW c \in Users, BufferAllocFails(c)
  PROVE  IInv'
<1>1. /\ todo[c] # <<>> /\ Head(todo[c]).op = "open"
      /\ faults < MaxFaults /\ faults' = faults + 1
      /\ open' = open \cup {On(c)}
      /\ todo' = [todo EXCEPT ![c] = <<>>]
      /\ lock' = LeftTaken("files")
      /\ UNCHANGED <<session, listed, deaf, queued, up, begun>>
  BY DEF BufferAllocFails, Fault, At, Running
<1>2. PICK at \in [Users -> Places] : Consistent(at)
  BY DEF IInv
<1>3. at[c] = Place("files") /\ On(c) \in Paths
  BY <1>1, <1>2, FirstStep, StepIsOn DEF IInv, Moves, On, PathOps
<1>4. lock["files"].writer = {c} /\ lock["files"].readers = {}
  BY <1>2, <1>3, InsideFiles DEF IInv, InFiles, Place, Holding
<1>5. /\ lock' \in [LockNames -> Locks(Users \cup {Gone})]
      /\ \A k \in LockNames : lock'[k].writer # {} =>
           lock'[k].readers = {} /\ Cardinality(lock'[k].writer) = 1
      /\ lock'["files"].writer = {Gone} /\ lock'["files"].readers = {}
      /\ lock'["accounts"] = lock["accounts"] /\ lock'["mapping"] = lock["mapping"]
  BY <1>1, <1>4, LeftTakenOwners DEF IInv, LockNames
<1> DEFINE new == Goes(c, at, Free)
<1>6. new[c] = Free /\ \A d \in Users \ {c} : new[d] = at[d]
  BY PlaceTypes DEF Goes
<1> HIDE DEF new
<1>7. Owned(new)'
  <2>1. Gone \notin Users
    BY ServerLocksAssumption
  <2> QED BY <1>2, <1>3, <1>4, <1>5, <1>6, <2>1
          DEF Consistent, Owned, InFiles, InAccounts, Free, Place, Holding
<1>8. Opened(new)'
  BY <1>1, <1>2, <1>5, <1>6 DEF Consistent, Opened, Free, Place, Holding
<1>9. <<>> \in Seq(Steps) /\ Leads(c, <<>>, Free, Free) /\ Free \in Places
  BY WayNowhere, PlaceTypes DEF Way
<1>10. listed' \subseteq Users /\ open' \subseteq Paths
  BY <1>1, <1>3 DEF IInv, TypeOK
<1>11. faults' \in 0..MaxFaults
  BY <1>1, ServerLocksAssumption DEF IInv, TypeOK
<1> QED BY <1>1, <1>2, <1>5, <1>7, <1>8, <1>9, <1>10, <1>11, LeftInvariant DEF new

\* A client stops reading.
LEMMA WindowFullInvariant ==
  ASSUME IInv, NEW c \in Users, WindowFull(c)
  PROVE  IInv'
<1>1. /\ todo[c] # <<>> /\ Head(todo[c]).op = "say"
      /\ faults < MaxFaults /\ faults' = faults + 1
      /\ deaf' = deaf \cup {On(c)}
      /\ UNCHANGED <<lock, todo, session, listed, open, queued, up, begun>>
  BY DEF WindowFull, Fault, At, Running, tables
<1>2. Head(todo[c]) \in Steps
  BY <1>1, HeadTailProperties DEF IInv, TypeOK
<1>3. On(c) \in Users
  BY <1>1, <1>2, StepIsOn DEF On, UserOps
<1>4. faults' \in 0..MaxFaults
  BY <1>1, ServerLocksAssumption DEF IInv, TypeOK
<1>5. TypeOK'
  BY <1>1, <1>3, <1>4 DEF IInv, TypeOK
<1>6. PICK at \in [Users -> Places] : Consistent(at)
  BY DEF IInv
<1>7. Consistent(at)'
  BY <1>1, <1>6 DEF Consistent, Owned, Opened
<1> QED BY <1>5, <1>6, <1>7 DEF IInv

---------------------------------------------------------------------------
(* The invariant.                                                           *)

\* Every step keeps the invariant.
LEMMA NextInvariant == IInv /\ [Next]_vars => IInv'
<1> SUFFICES ASSUME IInv, [Next]_vars PROVE IInv'
  OBVIOUS
<1>1. CASE UNCHANGED vars
  <2>1. PICK at \in [Users -> Places] : Consistent(at)
    BY DEF IInv
  <2>2. UNCHANGED <<lock, todo, session, listed, open, deaf, queued, up, begun, faults>>
    BY <1>1 DEF vars, tables, world
  <2>3. TypeOK'
    BY <2>2 DEF IInv, TypeOK
  <2>4. Consistent(at)'
    BY <2>1, <2>2 DEF Consistent, Owned, Opened
  <2> QED BY <2>1, <2>3, <2>4 DEF IInv
<1>2. ASSUME NEW c \in Users, Command(c) PROVE IInv'
  BY <1>2, CommandInvariant
<1>3. ASSUME NEW c \in Users, Proceed(c) PROVE IInv'
  BY <1>3, AcquireSharedInvariant, AcquireExclusiveInvariant, ReleaseSharedInvariant,
     SectionInvariant, SendTextInvariant, SessionsInvariant, LookInvariant, AddressInvariant,
     FindInvariant, ListInvariant, GetInvariant, SeekInvariant, ClosePendingInvariant,
     UnlistInvariant, AppendHistoryInvariant, OpenHistoryInvariant, FinishHistoryInvariant
     DEF Proceed
<1>4. ASSUME NEW c \in Users, Fail(c) PROVE IInv'
  BY <1>4, RewindFailsInvariant, CheckFailsInvariant, SeekFailsInvariant,
     PathAllocFailsInvariant, BufferAllocFailsInvariant, WindowFullInvariant DEF Fail
<1> QED BY <1>1, <1>2, <1>3, <1>4 DEF Next

\* What a handler has still to do leads from what it holds to nothing held, and
\* the open files are accounted for, in every state.
THEOREM Inductive == Spec => []IInv
BY InitInvariant, NextInvariant, PTL DEF Spec

\* The variables keep their types: every step a handler takes is one that a
\* handler has, each lock has one exclusive owner or shared ones, and no path is
\* opened but those of users and pairs of users.
THEOREM TypeCorrect == Spec => []TypeOK
<1>1. IInv => TypeOK
  BY DEF IInv
<1> QED BY <1>1, Inductive, PTL

---------------------------------------------------------------------------
(* Who spins, and who waits for whom.                                       *)

\* Inside the lock of the files, only a pending file of a listed user can be in
\* the way, and list does not open that.
LEMMA SpinsOnClash == IInv => SpinsOnlyOnClash
<1> SUFFICES ASSUME IInv, NEW c \in Users, Spins(c)
             PROVE  \E u \in listed : At(c, {"append", "open"}) /\ On(c) = Pending(u)
  BY DEF SpinsOnlyOnClash
<1>1. PICK at \in [Users -> Places] : Consistent(at)
  BY DEF IInv
<1>2. todo[c] # <<>>
  BY DEF Spins, At, Running
<1>3. PICK r \in Places : Moves(c, Head(todo[c]), at[c], r) /\ Head(todo[c]) \in Steps
  BY <1>1, <1>2, FirstStep DEF IInv
<1>4. CASE At(c, {"append", "open"}) /\ On(c) \in open
  <2>1. at[c] = Place("files")
    BY <1>3, <1>4 DEF At, Moves
  <2>2. \E u \in listed : On(c) = Pending(u)
    BY <1>1, <1>4, <2>1, InsideFiles DEF IInv, InFiles, Place, Holding
  <2> QED BY <1>4, <2>2
<1>5. CASE At(c, {"list"}) /\ On(c) \notin listed /\ Pending(On(c)) \in open
  <2>1. at[c] \in {Place("files"), Place("inner")}
    BY <1>3, <1>5 DEF At, Moves
  <2>2. PICK u \in listed : Pending(On(c)) = Pending(u)
    BY <1>1, <1>5, <2>1, InsideFiles DEF IInv, InFiles, Place, Holding
  <2>3. On(c) \in Users /\ u \in Users
    BY <1>3, <1>5, StepIsOn DEF At, On, UserOps, IInv, TypeOK
  <2> QED BY <1>5, <2>2, <2>3, PendingInjective
<1> QED BY <1>4, <1>5 DEF Spins

\* Only the history of two users whose names, one after the other, are the name
\* of a third spins in CreateFile, in every state.
THEOREM SpinCorrect == Spec => []SpinsOnlyOnClash
BY Inductive, SpinsOnClash, PTL

\* Who waits does so at a step about a lock: for its owners, or, at a shared
\* request, for exclusive requests that wait for its readers.
LEMMA WaitsFor ==
  ASSUME IInv, NEW c \in Users, NEW b \in Blockers(c)
  PROVE  /\ todo[c] # <<>> /\ Head(todo[c]).op \in Exclusive \cup Shared
         /\ LockOf(Head(todo[c])) \in LockNames
         /\ \/ b \in Owners(LockOf(Head(todo[c]))) /\ Head(todo[c]).op \in Exclusive
            \/ b \in lock[LockOf(Head(todo[c]))].writer
            \/ /\ queued /\ Head(todo[c]).op \in Shared
               /\ b \in Users /\ Wants(b, Exclusive, LockOf(Head(todo[c])))
<1>1. At(c, Exclusive) \/ At(c, Shared)
  BY DEF Blockers
<1>2. todo[c] # <<>> /\ Head(todo[c]).op \in Exclusive \cup Shared
  BY <1>1 DEF At, Running
<1>3. LockOf(Head(todo[c])) \in LockNames
  BY <1>2, HeadTailProperties, StepIsOn DEF IInv, TypeOK
<1>4. CASE At(c, Exclusive)
  BY <1>2, <1>3, <1>4 DEF Blockers, At
<1>5. CASE ~At(c, Exclusive)
  <2>1. At(c, Shared) /\ Head(todo[c]).op \in Shared
    BY <1>1, <1>5 DEF At
  <2>2. CASE ~queued \/ lock[LockOf(Head(todo[c]))].readers = {}
    BY <1>2, <1>3, <1>5, <2>1, <2>2 DEF Blockers
  <2>3. CASE ~(~queued \/ lock[LockOf(Head(todo[c]))].readers = {})
    BY <1>2, <1>3, <1>5, <2>1, <2>3 DEF Blockers
  <2> QED BY <2>2, <2>3
<1> QED BY <1>4, <1>5

\* The lock a waiting step is about, by its kind.
LEMMA LockOfWaiting ==
  \A s : /\ s.op \in LockOps => LockOf(s) = s.on
         /\ s.op \in {"look", "address", "insert", "remove"} => LockOf(s) = "mapping"
         /\ s.op \in {"find", "get", "seek", "unlist"} => LockOf(s) = "files"
BY DEF LockOf, LockOps
 
\* Who owns a lock and waits: a broadcast that waits for the sessions or the
\* files, or a history that waits for the accounts.
LEMMA OwnersWait ==
  ASSUME IInv, NEW d \in Users, NEW l \in LockNames, d \in Owners(l), Blockers(d) # {}
  PROVE  \/ l = "accounts" /\ d \in lock[l].readers /\ LockOf(Head(todo[d])) \in {"mapping", "files"}
         \/ l = "files" /\ d \in lock[l].writer /\ Wants(d, {"share"}, "accounts")
<1>1. PICK at \in [Users -> Places] : Consistent(at)
  BY DEF IInv
<1>2. todo[d] # <<>> /\ Head(todo[d]).op \in Exclusive \cup Shared
  BY WaitsFor
<1>3. PICK r \in Places : Moves(d, Head(todo[d]), at[d], r)
  BY <1>1, <1>2, FirstStep DEF IInv
<1>4. d # Gone /\ Owned(at)
  BY <1>1, ServerLocksAssumption DEF Consistent
<1>5. CASE l = "mapping"
  <2>1. at[d].held = "sessions"
    BY <1>4, <1>5 DEF Owned, Owners
  <2>2. Head(todo[d]).op \in {"say", "unshare"}
    BY <1>3, <2>1 DEF Moves, Free, Place, Holding
  <2> QED BY <1>2, <2>2 DEF Exclusive, Shared
<1>6. CASE l = "files"
  <2>1. d \in lock[l].writer /\ at[d].held \in InFiles
    BY <1>4, <1>6 DEF Owned, Owners
  <2>2. \/ Head(todo[d]).op \in {"list", "append", "open", "say", "finish"}
        \/ Head(todo[d]).op = "share" /\ Head(todo[d]).on = "accounts"
    BY <1>3, <2>1 DEF Moves, InFiles, Free, Place, Holding
  <2>3. Head(todo[d]).op = "share" /\ Head(todo[d]).on = "accounts"
    BY <1>2, <2>2 DEF Exclusive, Shared
  <2>4. LockOf(Head(todo[d])) = "accounts"
    BY <2>3, LockOfWaiting DEF LockOps
  <2> QED BY <1>2, <1>6, <2>1, <2>3, <2>4 DEF Wants, At, Running
<1>7. CASE l = "accounts"
  <2>1. d \in lock[l].readers /\ at[d].held \in InAccounts
    BY <1>4, <1>7 DEF Owned, Owners
  <2>2. \/ Head(todo[d]).op \in {"list", "say", "finish", "unshare"}
        \/ Head(todo[d]).op \in {"use", "lock"} /\ Head(todo[d]).on = "files"
        \/ Head(todo[d]).op \in {"look", "find", "get"}
    BY <1>3, <2>1 DEF Moves, InAccounts, Free, Place, Holding
  <2>3. LockOf(Head(todo[d])) \in {"mapping", "files"}
    BY <1>2, <2>2, LockOfWaiting DEF Exclusive, Shared, LockOps
  <2> QED BY <1>7, <2>1, <2>3
<1> QED BY <1>5, <1>6, <1>7 DEF LockNames

\* Nobody in the cycle waits for the sessions: their owners only send and release.
\* Who waits for the files waits for a history, who waits for the accounts waits
\* for a broadcast, and the history's shared request waits only behind another.
LEMMA ThreeWait == IInv => DeadlockNeedsThree
<1> SUFFICES ASSUME IInv, NEW D \in SUBSET Users, D # {}, \A c \in D : Blockers(c) \cap D # {}
             PROVE  \E broadcast, history, rewind \in D :
                      /\ queued
                      /\ broadcast \in lock["accounts"].readers
                      /\ Wants(broadcast, Exclusive \cup Shared, "files")
                      /\ history \in lock["files"].writer /\ Wants(history, {"share"}, "accounts")
                      /\ Wants(rewind, Exclusive, "accounts")
  BY DEF DeadlockNeedsThree
<1> DEFINE L(c) == LockOf(Head(todo[c]))
<1>1. PICK at \in [Users -> Places] : Consistent(at)
  BY DEF IInv
<1>2. /\ Gone \notin D /\ lock["accounts"].writer \subseteq {Gone}
      /\ lock["mapping"].writer = {} /\ lock["files"].readers = {}
  BY <1>1, ServerLocksAssumption DEF Consistent, Owned
\* Someone of D owns what an exclusive request of D waits for.
<1>3. ASSUME NEW c \in D, Head(todo[c]).op \in Exclusive
      PROVE  \E d \in D : d \in Owners(L(c))
  <2>1. PICK b \in D : b \in Blockers(c)
    OBVIOUS
  <2>2. Head(todo[c]).op \notin Shared
    BY <1>3 DEF Exclusive, Shared
  <2> QED BY <2>1, <2>2, WaitsFor DEF Owners
\* And so for every request of D.
<1>4. ASSUME NEW c \in D
      PROVE  \E d \in D : d \in Owners(L(c))
  <2>1. PICK b \in D : b \in Blockers(c)
    OBVIOUS
  <2>2. CASE queued /\ Wants(b, Exclusive, L(c))
    <3>1. Head(todo[b]).op \in Exclusive /\ L(b) = L(c)
      BY <2>2 DEF Wants, At
    <3> QED BY <1>3, <3>1
  <2> QED BY <2>1, <2>2, WaitsFor DEF Owners
<1>5. \A c \in D : L(c) \in {"accounts", "files"}
  <2>1. ASSUME NEW c \in D, L(c) = "mapping" PROVE FALSE
    <3>1. PICK d \in D : d \in Owners("mapping")
      BY <1>4, <2>1
    <3> QED BY <3>1, OwnersWait DEF LockNames
  <2>2. \A c \in D : L(c) \in LockNames
    BY WaitsFor
  <2> QED BY <2>1, <2>2 DEF LockNames
\* Who owns the accounts waits for the files.
<1>6. ASSUME NEW f \in D, f \in Owners("accounts")
      PROVE  f \in lock["accounts"].readers /\ Wants(f, Exclusive \cup Shared, "files")
  <2>1. f \in lock["accounts"].readers /\ L(f) = "files"
    BY <1>5, <1>6, OwnersWait DEF LockNames
  <2>2. todo[f] # <<>> /\ Head(todo[f]).op \in Exclusive \cup Shared
    BY WaitsFor
  <2> QED BY <2>1, <2>2 DEF Wants, At, Running
<1>7. \E c \in D : L(c) = "files"
  <2>1. PICK c \in D : L(c) \in {"accounts", "files"}
    BY <1>5
  <2>2. CASE L(c) = "accounts"
    <3>1. PICK f \in D : f \in Owners("accounts")
      BY <1>4, <2>2
    <3> QED BY <1>6, <3>1 DEF Wants
  <2> QED BY <2>1, <2>2
<1>8. PICK history \in D : history \in lock["files"].writer /\ Wants(history, {"share"}, "accounts")
  <2>1. PICK d \in D : d \in Owners("files")
    BY <1>4, <1>7
  <2> QED BY <2>1, OwnersWait DEF LockNames
\* It is a shared request, so that it waits behind an exclusive one.
<1>9. PICK rewind \in D : queued /\ Wants(rewind, Exclusive, "accounts")
  <2>1. PICK b \in D : b \in Blockers(history)
    OBVIOUS
  <2>2. Head(todo[history]).op = "share" /\ L(history) = "accounts"
    BY <1>8 DEF Wants, At
  <2>3. Head(todo[history]).op \notin Exclusive
    BY <2>2 DEF Exclusive
  <2> QED BY <1>2, <2>1, <2>2, <2>3, WaitsFor
<1>10. PICK broadcast \in D :
         broadcast \in lock["accounts"].readers /\ Wants(broadcast, Exclusive \cup Shared, "files")
  <2>1. PICK f \in D : f \in Owners("accounts")
    BY <1>4, <1>9 DEF Wants
  <2> QED BY <1>6, <2>1
<1> QED BY <1>8, <1>9, <1>10

\* Handlers that wait for each other, and for nothing else, are at least a
\* broadcast, a history and an exclusive request for the accounts, in every state.
THEOREM DeadlockCorrect == Spec => []DeadlockNeedsThree
BY Inductive, ThreeWait, PTL
=============================================================================
