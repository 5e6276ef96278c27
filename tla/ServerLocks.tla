----------------------------- MODULE ServerLocks -----------------------------
(***************************************************************************)
(* The three locks of the server, taken together: which handler waits for   *)
(* which, in every command.  Broadcast uses the tables and the pending files *)
(* inside its scan of the accounts, history scans its file inside the lock   *)
(* of the files and the lock of the accounts, list sends inside the lock of  *)
(* the sessions.                                                            *)
(*                                                                         *)
(* todo[c] is what the thread of client c has still to do, a sequence of     *)
(* steps at which it may wait, or which others wait for.  A section of a lock *)
(* in which nothing waits is one step.  What the files hold is in Accounts,   *)
(* Mailbox and HistoryScan; here the outcome of a scan is any outcome.       *)
(***************************************************************************)
EXTENDS Integers, FiniteSets, Sequences, SRWLock

CONSTANTS
  Users,        \* one client and one thread each
  Name,         \* the name each logs in with, a sequence of character codes
  LoggedIn,     \* the users with a session when the behaviour begins
  Commands,     \* bound: the commands each client issues
  Gone,         \* the owner of a lock that an early return left taken
  FaultKinds,   \* which failures may occur
  MaxCommands,  \* bound: commands of each client
  MaxFaults     \* bound: failures in a behaviour

AllFaults == {"malloc", "seek", "deaf"}
AllCommands == {"register", "login", "logout", "list", "msg", "broadcast", "history"}

\* No name is empty: an empty text is received as the end of the connection
\* (connection.c:58), and RegisterClient has returned by then.
ASSUME ServerLocksAssumption ==
  /\ IsFiniteSet(Users)
  /\ Name \in [Users -> Seq(Nat) \ {<<>>}]
  /\ \A u, v \in Users : Name[u] = Name[v] => u = v
  /\ LoggedIn \subseteq Users
  /\ Commands \in [Users -> SUBSET AllCommands]
  /\ Gone \notin Users
  /\ FaultKinds \subseteq AllFaults
  /\ MaxCommands \in Nat /\ MaxFaults \in Nat

LockNames == {"accounts", "mapping", "files"}

VARIABLES
  lock,      \* g_srw_AccountsFile, g_srw_UsersMapping and g_srw_UsersFiles
  todo,      \* the steps each handler has still to do
  session,   \* gUsersMapping: the users that are logged in
  listed,    \* gUsersFiles: the users whose pending file has an entry
  open,      \* the paths of files with an open handle; none is shared
  deaf,      \* clients that have stopped reading what they are sent
  queued,    \* whether a shared request waits behind an exclusive one
  up,        \* whether the process runs
  begun,     \* commands so far
  faults     \* failures so far

vars == <<lock, todo, session, listed, open, deaf, queued, up, begun, faults>>
tables == <<session, listed, open>>
world == <<deaf, queued, up, begun, faults>>

\* Windows promises no order of the requests for a slim lock: both are checked.
Init ==
  /\ lock = [l \in LockNames |-> Unlocked]
  /\ todo = [c \in Users |-> <<>>]
  /\ session = LoggedIn
  /\ listed = {}
  /\ open = {}
  /\ deaf = {}
  /\ queued \in BOOLEAN
  /\ up = TRUE
  /\ begun = [c \in Users |-> 0]
  /\ faults = 0

---------------------------------------------------------------------------
(* The files of users and of pairs of users, all in C:\Users.                *)

\* _tcscmp(u, v) < 0
Less(u, v) ==
  \/ \E i \in DOMAIN u \cap DOMAIN v :
       SubSeq(u, 1, i - 1) = SubSeq(v, 1, i - 1) /\ u[i] < v[i]
  \/ Len(u) < Len(v) /\ SubSeq(v, 1, Len(u)) = u

Pending(u) == Name[u]
HistoryPath(u, v) == IF Less(Name[u], Name[v]) THEN Name[u] \o Name[v] ELSE Name[v] \o Name[u]

---------------------------------------------------------------------------
(* Steps.  AcquireSRWLock* and ReleaseSRWLock* are four of them; use and read *)
(* are whole sections, exclusive and shared; look, find, list, get, seek,     *)
(* insert, remove and unlist are whole sections that do or decide something. *)

LockOps   == {"lock", "share", "unshare", "use", "read", "rewind", "recheck", "search"}
UserOps   == {"say", "look", "address", "find", "list", "get", "seek", "insert",
              "remove", "close", "unlist"}
PathOps   == {"append", "open", "finish"}
Paths     == {Pending(u) : u \in Users} \cup {HistoryPath(u, v) : u \in Users, v \in Users}
Steps     == [op : LockOps, on : LockNames] \cup [op : UserOps, on : Users]
               \cup [op : PathOps, on : Paths]

Step(op, on) == [op |-> op, on |-> on]
Say(u) == Step("say", u)

Maybe(step) == {<<>>, <<step>>}

\* CheckRegisteredUser: rewind, scan.  When it fails it answers -1, which every
\* caller takes for found: a recheck may fail, a search that finds nothing not.
CheckRegisteredUser(found) ==
  <<Step(IF found THEN "recheck" ELSE "search", "accounts"), Step("read", "accounts")>>

\* From the look at gUsersFiles to WriteFile, in ProcessMsg and ProcessBroadcast.
Store(u) == <<Step("find", u), Step("get", u), Step("use", "files")>>

\* What find adds when the user has no entry.
OpenPending(u) == <<Step("lock", "files"), Step("list", u)>>

Running(c) == todo[c] # <<>>

At(c, ops) == Running(c) /\ Head(todo[c]).op \in ops
On(c) == Head(todo[c]).on

Begin(c, command, program) ==
  /\ up
  /\ command \in Commands[c]
  /\ begun[c] < MaxCommands
  /\ ~Running(c)
  /\ begun' = [begun EXCEPT ![c] = @ + 1]
  /\ todo' = [todo EXCEPT ![c] = program]
  /\ UNCHANGED <<lock, tables, deaf, queued, up, faults>>

RegisterClient(c) ==
  \/ Begin(c, "register", CheckRegisteredUser(TRUE) \o <<Say(c)>>)
  \/ Begin(c, "register", CheckRegisteredUser(FALSE) \o <<Step("use", "accounts"), Say(c)>>)

\* The scan refuses, the table refuses, or the drain of the pending file follows.
LoginClient(c) ==
  /\ c \notin session
  /\ LET scan == <<Step("rewind", "accounts"), Step("read", "accounts")>>
         drain == <<Step("find", c), Step("get", c), Step("seek", c)>>
     IN  \/ Begin(c, "login", scan \o <<Say(c)>>)
         \/ \E text \in Maybe(Say(c)) :
              Begin(c, "login", scan \o <<Step("read", "mapping"), Step("insert", c), Say(c)>>
                         \o drain \o text \o <<Step("close", c), Step("unlist", c)>>)

LogoutClient(c) ==
  /\ c \in session
  /\ Begin(c, "logout", <<Step("remove", c), Say(c)>>)

\* Mutant: the loop over the sessions returns with the lock.
ListAndKeep(c) == Begin(c, "list", <<Step("share", "mapping")>>)

\* The lines are sent under the lock.
ListClients(c) == Begin(c, "list", <<Step("share", "mapping"), Step("unshare", "mapping")>>)

\* The message goes to the history first, also when the user does not exist.
ProcessMsg(c) ==
  /\ c \in session
  /\ \E u \in Users :
       Begin(c, "msg", <<Step("lock", "files"), Step("append", HistoryPath(c, u))>>
                  \o (IF u = c THEN <<>> ELSE <<Step("address", u)>>) \o <<Say(c)>>)

\* The other users in the order of their accounts: any order, and only some of
\* them when another handler disturbs the scan.
Rounds == [c \in Users |->
             {s \in UNION {[1..n -> Users \ {c}] : n \in 0..Cardinality(Users)} :
                \A i, j \in DOMAIN s : s[i] = s[j] => i = j}]

\* The loop over the accounts is within the shared lock.
ProcessBroadcast(c) ==
  /\ c \in session
  /\ \E others \in Rounds[c] :
       Begin(c, "broadcast", <<Step("rewind", "accounts"), Step("share", "accounts")>>
                  \o [i \in DOMAIN others |-> Step("look", others[i])]
                  \o <<Step("unshare", "accounts"), Say(c)>>)

\* Mutant: the accounts lock is taken exclusively.
HistoryLocksAccounts(c) ==
  /\ c \in session
  /\ \E u \in Users :
       Begin(c, "history", CheckRegisteredUser(TRUE)
                  \o <<Step("lock", "files"), Step("open", HistoryPath(c, u)),
                       Step("lock", "accounts"), Step("finish", HistoryPath(c, u))>>)

\* The user is not found, or the file is read and sent under both locks; when it
\* is empty the answer comes after them, and a negative count has none.
ProcessHistory(c) ==
  /\ c \in session
  /\ \/ Begin(c, "history", CheckRegisteredUser(FALSE) \o <<Say(c)>>)
     \/ \E u \in Users, text, later \in Maybe(Say(c)) :
          /\ text = <<>> \/ later = <<>>
          /\ Begin(c, "history", CheckRegisteredUser(TRUE)
                        \o <<Step("lock", "files"), Step("open", HistoryPath(c, u)),
                             Step("share", "accounts")>>
                        \o text \o <<Step("finish", HistoryPath(c, u))>> \o later)

---------------------------------------------------------------------------
(* Waiting for a lock.                                                      *)

Exclusive == {"lock", "use", "rewind", "recheck", "search", "seek", "insert", "remove", "unlist"}
Shared    == {"share", "read", "look", "address", "find", "get"}

\* The lock that a step is about.
LockOf(step) ==
  CASE step.op \in LockOps -> step.on
    [] step.op \in {"look", "address", "insert", "remove"} -> "mapping"
    [] OTHER -> "files"

Wants(c, ops, l) == At(c, ops) /\ LockOf(Head(todo[c])) = l

Owners(l) == lock[l].writer \cup lock[l].readers

\* Whom c waits for: owners, or an exclusive request that waits for them.
Blockers(c) ==
  LET l == LockOf(Head(todo[c]))
  IN  IF At(c, Exclusive) THEN Owners(l)
      ELSE IF ~At(c, Shared) THEN {}
      ELSE IF ~queued \/ lock[l].readers = {} THEN lock[l].writer
      ELSE {d \in Users : Wants(d, Exclusive, l)}

---------------------------------------------------------------------------
(* The steps of a handler.                                                  *)

\* c does its first step, of one of these kinds, and goes on with `next`.
Do(c, ops, next) ==
  /\ up
  /\ At(c, ops)
  /\ Blockers(c) = {}
  /\ todo' = [todo EXCEPT ![c] = next \o Tail(@)]

\* Mutant: the shared request does not see an exclusive owner.
Intrude(c) ==
  /\ up /\ At(c, {"share"})
  /\ todo' = [todo EXCEPT ![c] = Tail(@)]
  /\ lock' = [lock EXCEPT ![On(c)] = Share(@, c)]
  /\ UNCHANGED <<tables, world>>

\* What list has to send once it has the sessions: a line for each.
Lines(c) == IF On(c) = "mapping" /\ session # {} THEN <<Say(c)>> ELSE <<>>

AcquireShared(c) ==
  /\ At(c, {"share"}) /\ Do(c, {"share"}, Lines(c))
  /\ lock' = [lock EXCEPT ![On(c)] = Share(@, c)]
  /\ UNCHANGED <<tables, world>>

AcquireExclusive(c) ==
  /\ Do(c, {"lock"}, <<>>)
  /\ lock' = [lock EXCEPT ![On(c)] = Lock(@, c)]
  /\ UNCHANGED <<tables, world>>

ReleaseShared(c) ==
  /\ Do(c, {"unshare"}, <<>>)
  /\ lock' = [lock EXCEPT ![On(c)] = Unshare(@, c)]
  /\ UNCHANGED <<tables, world>>

\* Sections that change nothing modelled here: rewind, scan, append, the test of
\* the login.
Section(c) ==
  /\ Do(c, {"use", "read", "rewind", "recheck", "search"}, <<>>)
  /\ UNCHANGED <<lock, tables, world>>

\* send() returns once the text is in the receiver's window.
SendText(c) ==
  /\ Do(c, {"say"}, <<>>)
  /\ On(c) \notin deaf
  /\ UNCHANGED <<lock, tables, world>>

InsertSession(c) ==
  /\ Do(c, {"insert"}, <<>>)
  /\ session' = session \cup {On(c)}
  /\ UNCHANGED <<lock, listed, open, world>>

RemoveSession(c) ==
  /\ Do(c, {"remove"}, <<>>)
  /\ session' = session \ {On(c)}
  /\ UNCHANGED <<lock, listed, open, world>>

\* Where a broadcast delivers to one user, and where a message does.
Look(c) ==
  /\ Do(c, {"look"}, IF On(c) \in session THEN <<Say(On(c))>> ELSE Store(On(c)))
  /\ UNCHANGED <<lock, tables, world>>

Address(c) ==
  /\ At(c, {"address"})
  /\ \E found \in BOOLEAN :
       Do(c, {"address"}, IF On(c) \in session THEN <<Say(On(c))>>
                          ELSE CheckRegisteredUser(found) \o (IF found THEN Store(On(c)) ELSE <<>>))
  /\ UNCHANGED <<lock, tables, world>>

Find(c) ==
  /\ Do(c, {"find"}, IF On(c) \in listed THEN <<>> ELSE OpenPending(On(c)))
  /\ UNCHANGED <<lock, tables, world>>

\* The second test, CreateFile until it succeeds, and the release.
List(c) ==
  /\ Do(c, {"list"}, <<>>)
  /\ IF On(c) \in listed THEN UNCHANGED <<listed, open>>
     ELSE /\ Pending(On(c)) \notin open
          /\ open' = open \cup {Pending(On(c))}
          /\ listed' = listed \cup {On(c)}
  /\ lock' = [lock EXCEPT !["files"] = Unlock(@)]
  /\ UNCHANGED <<session, world>>

\* HtGetKeyValue sets the handle, or leaves NULL: the process ends at its use.
Get(c) ==
  /\ Do(c, {"get"}, <<>>)
  /\ up' = (On(c) \in listed)
  /\ UNCHANGED <<lock, tables, deaf, queued, begun, faults>>

Seek(c) ==
  /\ Do(c, {"seek"}, <<>>)
  /\ UNCHANGED <<lock, tables, world>>

\* CloseHandle and DeleteFile, outside of the lock.
ClosePending(c) ==
  /\ Do(c, {"close"}, <<>>)
  /\ open' = open \ {Pending(On(c))}
  /\ UNCHANGED <<lock, session, listed, world>>

Unlist(c) ==
  /\ Do(c, {"unlist"}, <<>>)
  /\ listed' = listed \ {On(c)}
  /\ UNCHANGED <<lock, session, open, world>>

\* CreateFile until it succeeds, WriteFile, CloseHandle and the release.
AppendHistory(c) ==
  /\ Do(c, {"append"}, <<>>)
  /\ On(c) \notin open
  /\ lock' = [lock EXCEPT !["files"] = Unlock(@)]
  /\ UNCHANGED <<tables, world>>

OpenHistory(c) ==
  /\ Do(c, {"open"}, <<>>)
  /\ On(c) \notin open
  /\ open' = open \cup {On(c)}
  /\ UNCHANGED <<lock, session, listed, world>>

\* Mutant: the handle is not closed.
FinishUnclosed(c) ==
  /\ Do(c, {"finish"}, <<>>)
  /\ lock' = [lock EXCEPT !["accounts"] = Unshare(@, c), !["files"] = Unlock(@)]
  /\ UNCHANGED <<tables, world>>

\* The releases of both locks, and CloseHandle between them.
FinishHistory(c) ==
  /\ Do(c, {"finish"}, <<>>)
  /\ open' = open \ {On(c)}
  /\ lock' = [lock EXCEPT !["accounts"] = Unshare(@, c), !["files"] = Unlock(@)]
  /\ UNCHANGED <<session, listed, world>>

---------------------------------------------------------------------------
(* Failing calls: the early returns keep the locks of their sections.  An     *)
(* allocation that fails outside of one only ends its command.               *)

Fault(kind) == kind \in FaultKinds /\ faults < MaxFaults /\ faults' = faults + 1

\* c does not do its first step but returns, with what is left after it.
Return(c, ops, rest, left) ==
  /\ up
  /\ At(c, ops)
  /\ Blockers(c) = {}
  /\ todo' = [todo EXCEPT ![c] = rest]
  /\ lock' = left
  /\ UNCHANGED <<tables, deaf, queued, up, begun>>

LeftTaken(l) == [lock EXCEPT ![l] = Lock(@, Gone)]

\* LoginClient and ProcessBroadcast return; SetFilePointer, and in LoginClient
\* the malloc before it.
RewindFails(c) ==
  /\ Fault("seek") \/ (c \notin session /\ Fault("malloc"))
  /\ Return(c, {"rewind"}, <<>>, LeftTaken("accounts"))

\* CheckRegisteredUser returns -1, and its caller goes on.
CheckFails(c) ==
  /\ Fault("seek")
  /\ Return(c, {"recheck"}, Tail(Tail(todo[c])), LeftTaken("accounts"))

SeekFails(c) ==
  /\ Fault("seek")
  /\ Return(c, {"seek"}, <<>>, LeftTaken("files"))

\* calloc of a path fails in the broadcast's loop.
PathAllocFails(c) ==
  /\ Fault("malloc")
  /\ At(c, {"look"}) /\ On(c) \notin session
  /\ Return(c, {"look"}, <<>>,
            [lock EXCEPT !["accounts"] = Share(Unshare(@, c), Gone)])

\* malloc of the buffer fails in ProcessHistory, with the history file open.
BufferAllocFails(c) ==
  /\ Fault("malloc")
  /\ up /\ At(c, {"open"}) /\ On(c) \notin open
  /\ open' = open \cup {On(c)}
  /\ todo' = [todo EXCEPT ![c] = <<>>]
  /\ lock' = LeftTaken("files")
  /\ UNCHANGED <<session, listed, deaf, queued, up, begun>>

\* The client has stopped reading, and the window of its connection is full.
WindowFull(c) ==
  /\ up
  /\ Fault("deaf")
  /\ At(c, {"say"})
  /\ deaf' = deaf \cup {On(c)}
  /\ UNCHANGED <<lock, todo, tables, queued, up, begun>>

Command(c) ==
  \/ RegisterClient(c) \/ LoginClient(c) \/ LogoutClient(c) \/ ListClients(c)
  \/ ProcessMsg(c) \/ ProcessBroadcast(c) \/ ProcessHistory(c)

Proceed(c) ==
  /\ Running(c)
  /\ \/ AcquireShared(c) \/ AcquireExclusive(c) \/ ReleaseShared(c) \/ Section(c)
     \/ SendText(c) \/ InsertSession(c) \/ RemoveSession(c) \/ Look(c) \/ Address(c)
     \/ Find(c) \/ List(c) \/ Get(c) \/ Seek(c) \/ ClosePending(c) \/ Unlist(c)
     \/ AppendHistory(c) \/ OpenHistory(c) \/ FinishHistory(c)

Fail(c) ==
  \/ RewindFails(c) \/ CheckFails(c) \/ SeekFails(c) \/ PathAllocFails(c)
  \/ BufferAllocFails(c) \/ WindowFull(c)

Next == \E c \in Users : Command(c) \/ Proceed(c) \/ Fail(c)

Spec == Init /\ [][Next]_vars

\* The operating system runs every runnable thread, and grants a lock that is
\* free for a request in the end.
FairSpec == Spec /\ \A c \in Users : WF_vars(Proceed(c))

---------------------------------------------------------------------------
(* Properties.                                                              *)

\* Every variable has its type, and an exclusive owner is alone.
TypeOK ==
  /\ lock \in [LockNames -> Locks(Users \cup {Gone})]
  /\ \A l \in LockNames : lock[l].writer # {} =>
       lock[l].readers = {} /\ Cardinality(lock[l].writer) = 1
  /\ todo \in [Users -> Seq(Steps)]
  /\ session \subseteq Users /\ listed \subseteq Users /\ deaf \subseteq Users
  /\ open \subseteq Paths
  /\ queued \in BOOLEAN /\ up \in BOOLEAN
  /\ begun \in [Users -> 0..MaxCommands] /\ faults \in 0..MaxFaults

\* CreateFile spins, with the lock of the files held.
Spins(c) ==
  \/ At(c, {"append", "open"}) /\ On(c) \in open
  \/ At(c, {"list"}) /\ On(c) \notin listed /\ Pending(On(c)) \in open

\* Only the history of two users whose names, one after the other, are the name
\* of a third spins, and only while messages wait for the third.
SpinsOnlyOnClash ==
  \A c \in Users : Spins(c) => \E u \in listed :
    At(c, {"append", "open"}) /\ On(c) = Pending(u)

\* c sends to a client that does not read.
Stalled(c) == At(c, {"say"}) /\ On(c) \in deaf

\* Handlers that wait for each other, and for nothing else, are at least three: a
\* broadcast inside the accounts lock, a history inside the lock of the files and
\* an exclusive request for the accounts which the history's shared one stays
\* behind.
DeadlockNeedsThree ==
  \A D \in (SUBSET Users) \ {{}} :
    (\A c \in D : Blockers(c) \cap D # {}) =>
      \E broadcast, history, rewind \in D :
        /\ queued
        /\ broadcast \in lock["accounts"].readers /\ Wants(broadcast, Exclusive \cup Shared, "files")
        /\ history \in lock["files"].writer /\ Wants(history, {"share"}, "accounts")
        /\ Wants(rewind, Exclusive, "accounts")

\* c, or one it waits for, directly or through others, is held up: it sends to a
\* client that does not read, spins, waits for a lock that an early return left
\* taken, or is one of those that wait for each other.
HeldUp(c) ==
  \E D \in SUBSET Users :
    /\ c \in D
    /\ \A d \in D : Stalled(d) \/ Spins(d) \/ Blockers(d) \cap (D \cup {Gone}) # {}

\* When the commands stop coming, every handler ends its own, unless the process
\* does or one of these holds it up.
CommandsEndUnlessHeldUp ==
  <>[](\A c \in Users : Running(c) /\ up => HeldUp(c))
=============================================================================
