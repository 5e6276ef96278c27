------------------------------ MODULE Accounts ------------------------------
(***************************************************************************)
(* registration.txt, the server's account store (MessageServer.c).          *)
(*                                                                         *)
(* Every handler thread answers `register` and `login` through one shared   *)
(* file handle, gAccountsFile.  A scan of the file is                       *)
(*     measure the file, rewind the handle under an exclusive lock,         *)
(*     release, acquire the lock shared, ReadFile until the end, release    *)
(* so the file pointer set by one handler is used, after an unlock, by      *)
(* whichever handler reads first.  A registration scans and then appends    *)
(* its record under the exclusive lock.                                     *)
(*                                                                         *)
(* The file is a sequence of characters, since what a misplaced pointer     *)
(* makes a handler see depends on where in a record it stands.              *)
(***************************************************************************)
EXTENDS Integers, FiniteSets, AccountFile, SRWLock

CONSTANTS
  Handlers,       \* the ServeOneClient threads
  Names,          \* the user names clients send
  Passwords,      \* the passwords clients send
  InitialFile,    \* registration.txt as an earlier server run left it
  FaultKinds,     \* which of the failures below may occur
  MaxCommands,    \* bound: commands issued in a behaviour
  MaxFaults       \* bound: failures and restarts in a behaviour

Words      == Seq(TCHAR \ Separators) \ {<<>>}
Requests   == [op : {"register", "login"}, name : Names, pass : Passwords]
AllFaults  == {"malloc", "seek", "write", "restart"}

\* Every line of the file is a record that RegisterClient wrote.
Recorded(f) ==
  \A i \in LineBreaks(f) \ {Len(f)} :
    \E r \in Requests : OccursAt(f, i, Record(r.name, r.pass))

\* The client lets only alphanumeric names and comma-free passwords through
\* (MessageClient.c:392-410), and neither can hold a line break.
ASSUME AccountsAssumption ==
  /\ Names \subseteq Words /\ Names # {}
  /\ Passwords \subseteq Words /\ Passwords # {}
  /\ InitialFile \in Seq(TCHAR) /\ Terminated(InitialFile) /\ Recorded(InitialFile)
  /\ FaultKinds \subseteq AllFaults
  /\ MaxCommands \in Nat /\ MaxFaults \in Nat

VARIABLES
  file,     \* the characters of registration.txt
  pos,      \* the file pointer of gAccountsFile, in characters
  lock,     \* g_srw_AccountsFile
  pc,       \* where each handler is
  req,      \* the request each handler is serving
  size,     \* the file length each handler measured
  found,    \* userExists / validCombination: 0, 1, or -1 for an error return
  eof,      \* whether the first chunk was parsed
  start,    \* history: the pointer at which the parsed chunk began
  acked,    \* history: requests whose registration was answered "Success"
  issued,   \* commands issued so far
  faults    \* failures so far

vars == <<file, pos, lock, pc, req, size, found, eof, start, acked, issued, faults>>

---------------------------------------------------------------------------
Init ==
  /\ file = InitialFile
  /\ pos = 0
  /\ lock = Unlocked
  /\ pc = [h \in Handlers |-> "idle"]
  /\ req = [h \in Handlers |-> CHOOSE r \in Requests : TRUE]
  /\ size = [h \in Handlers |-> 0]
  /\ found = [h \in Handlers |-> 0]
  /\ eof = [h \in Handlers |-> FALSE]
  /\ start = [h \in Handlers |-> 0]
  /\ acked = {}
  /\ issued = 0
  /\ faults = 0

Goto(h, from, to) == pc[h] = from /\ pc' = [pc EXCEPT ![h] = to]

\* A REGISTER or LOGIN command and its two texts have arrived; the locals of
\* the handler function start afresh.
Begin(h) ==
  /\ issued < MaxCommands
  /\ issued' = issued + 1
  /\ \E r \in Requests :
       /\ req' = [req EXCEPT ![h] = r]
       /\ Goto(h, "idle", IF r.op = "register" THEN "measure" ELSE "rewind")
  /\ size' = [size EXCEPT ![h] = 0]
  /\ found' = [found EXCEPT ![h] = 0]
  /\ eof' = [eof EXCEPT ![h] = FALSE]
  /\ start' = [start EXCEPT ![h] = 0]
  /\ UNCHANGED <<file, pos, lock, acked, faults>>

\* CheckRegisteredUser calls GetFileSize before it takes the lock.
Measure(h) ==
  /\ Goto(h, "measure", "rewind")
  /\ size' = [size EXCEPT ![h] = Len(file)]
  /\ UNCHANGED <<file, pos, lock, req, found, eof, start, acked, issued, faults>>

AcquireToRewind(h) ==
  /\ Goto(h, "rewind", "rewinding")
  /\ CanLock(lock)
  /\ lock' = Lock(lock, h)
  /\ UNCHANGED <<file, pos, req, size, found, eof, start, acked, issued, faults>>

\* Mutant: the pointer is not set back, and stays where the last command left it.
KeepPointer(h) ==
  /\ Goto(h, "rewinding", "rewound")
  /\ size' = [size EXCEPT ![h] = IF req[h].op = "login" THEN Len(file) ELSE @]
  /\ UNCHANGED <<file, pos, lock, req, found, eof, start, acked, issued, faults>>

\* SetFilePointer(gAccountsFile, 0, FILE_BEGIN); LoginClient measures here.
Rewind(h) ==
  /\ Goto(h, "rewinding", "rewound")
  /\ pos' = 0
  /\ size' = [size EXCEPT ![h] = IF req[h].op = "login" THEN Len(file) ELSE @]
  /\ UNCHANGED <<file, lock, req, found, eof, start, acked, issued, faults>>

ReleaseRewound(h) ==
  /\ Goto(h, "rewound", "enter")
  /\ lock' = Unlock(lock)
  /\ UNCHANGED <<file, pos, req, size, found, eof, start, acked, issued, faults>>

EnterScan(h) ==
  /\ Goto(h, "enter", "scan")
  /\ CanShare(lock)
  /\ lock' = Share(lock, h)
  /\ UNCHANGED <<file, pos, req, size, found, eof, start, acked, issued, faults>>

\* The buffer has room for one character more than the file was long.
Chunk(h) == SubSeq(file, pos + 1, IF pos + size[h] + 1 < Len(file)
                                  THEN pos + size[h] + 1 ELSE Len(file))

\* Mutant: the pointer moves by the length asked for, not by the length read.
AdvancedByRequest(h) == pos + size[h] + 1

Advanced(h) == pos + Len(Chunk(h))

\* One ReadFile of the loop.  The first chunk is parsed and sets eof, so the
\* later ones are read and dropped; fewer than 6 bytes end the loop.
ReadChunk(h) ==
  /\ pc[h] = "scan"
  /\ pos' = Advanced(h)
  /\ IF Len(Chunk(h)) < 3
     THEN /\ pc' = [pc EXCEPT ![h] = "leave"]
          /\ UNCHANGED <<found, eof, start>>
     ELSE /\ eof' = [eof EXCEPT ![h] = TRUE]
          /\ found' = [found EXCEPT ![h] =
                         IF ~eof[h] /\ Matches(Chunk(h), req[h]) THEN 1 ELSE @]
          /\ start' = [start EXCEPT ![h] = IF eof[h] THEN @ ELSE pos]
          /\ UNCHANGED pc
  /\ UNCHANGED <<file, lock, req, size, acked, issued, faults>>

LeaveScan(h) ==
  /\ Goto(h, "leave", "verdict")
  /\ lock' = Unshare(lock, h)
  /\ UNCHANGED <<file, pos, req, size, found, eof, start, acked, issued, faults>>

\* "Error: Username already registered" (any non-zero result of
\* CheckRegisteredUser) and "Error: Invalid username / password combination".
Refuse(h) ==
  /\ Goto(h, "verdict", "idle")
  /\ IF req[h].op = "register" THEN found[h] # 0 ELSE found[h] = 0
  /\ UNCHANGED <<file, pos, lock, req, size, found, eof, start, acked, issued, faults>>

\* The combination is valid: LoginClient goes on to the session table.
AcceptLogin(h) ==
  /\ Goto(h, "verdict", "idle")
  /\ req[h].op = "login" /\ found[h] # 0
  /\ UNCHANGED <<file, pos, lock, req, size, found, eof, start, acked, issued, faults>>

AcquireToAppend(h) ==
  /\ Goto(h, "verdict", "appending")
  /\ req[h].op = "register" /\ found[h] = 0
  /\ CanLock(lock)
  /\ lock' = Lock(lock, h)
  /\ UNCHANGED <<file, pos, req, size, found, eof, start, acked, issued, faults>>

\* Mutant: the handle is opened with GENERIC_WRITE, so that WriteFile writes at
\* the shared pointer.
WriteAtPointer(h) ==
  /\ Goto(h, "appending", "appended")
  /\ LET record == Record(req[h].name, req[h].pass)
     IN  /\ file' = SubSeq(file, 1, pos) \o record
                      \o SubSeq(file, pos + Len(record) + 1, Len(file))
         /\ pos' = pos + Len(record)
  /\ UNCHANGED <<lock, req, size, found, eof, start, acked, issued, faults>>

\* WriteFile through a FILE_APPEND_DATA handle writes at the end of the file
\* and leaves the shared pointer there.
WriteRecord(h) ==
  /\ Goto(h, "appending", "appended")
  /\ file' = file \o Record(req[h].name, req[h].pass)
  /\ pos' = Len(file')
  /\ UNCHANGED <<lock, req, size, found, eof, start, acked, issued, faults>>

\* Mutant: the append returns with the lock.
KeepAppended(h) ==
  /\ Goto(h, "appended", "reply")
  /\ UNCHANGED <<file, pos, lock, req, size, found, eof, start, acked, issued, faults>>

ReleaseAppended(h) ==
  /\ Goto(h, "appended", "reply")
  /\ lock' = Unlock(lock)
  /\ UNCHANGED <<file, pos, req, size, found, eof, start, acked, issued, faults>>

Acknowledge(h) ==
  /\ Goto(h, "reply", "idle")
  /\ acked' = acked \cup {req[h]}
  /\ UNCHANGED <<file, pos, lock, req, size, found, eof, start, issued, faults>>

---------------------------------------------------------------------------
(* Failing calls and their early returns.                                   *)

Fault(kind) == kind \in FaultKinds /\ faults < MaxFaults /\ faults' = faults + 1

\* CheckRegisteredUser returns -1, which RegisterClient takes for "exists".
MeasureFails(h) ==
  /\ Fault("malloc")
  /\ Goto(h, "measure", "verdict")
  /\ found' = [found EXCEPT ![h] = -1]
  /\ UNCHANGED <<file, pos, lock, req, size, eof, start, acked, issued>>

\* Both functions return from inside the exclusive section: the lock stays taken.
LoginRewindFails(h) ==
  /\ Fault("malloc") \/ Fault("seek")
  /\ req[h].op = "login"
  /\ Goto(h, "rewinding", "idle")
  /\ UNCHANGED <<file, pos, lock, req, size, found, eof, start, acked, issued>>

CheckRewindFails(h) ==
  /\ Fault("seek")
  /\ req[h].op = "register"
  /\ Goto(h, "rewinding", "verdict")
  /\ found' = [found EXCEPT ![h] = -1]
  /\ UNCHANGED <<file, pos, lock, req, size, eof, start, acked, issued>>

\* calloc of the record fails: RegisterClient returns without any reply.
RecordAllocFails(h) ==
  /\ Fault("malloc")
  /\ req[h].op = "register" /\ found[h] = 0
  /\ Goto(h, "verdict", "idle")
  /\ UNCHANGED <<file, pos, lock, req, size, found, eof, start, acked, issued>>

\* The result of WriteFile is not looked at.
WriteFails(h) ==
  /\ Fault("write")
  /\ Goto(h, "appending", "appended")
  /\ UNCHANGED <<file, pos, lock, req, size, found, eof, start, acked, issued>>

\* The server process ends and is started again: OpenAccountsFile opens the
\* existing file, and nothing else survives.
Restart ==
  /\ Fault("restart")
  /\ pos' = 0
  /\ lock' = Unlocked
  /\ pc' = [h \in Handlers |-> "idle"]
  /\ UNCHANGED <<file, req, size, found, eof, start, acked, issued>>

Scan(h) ==
  \/ Measure(h) \/ AcquireToRewind(h) \/ Rewind(h) \/ ReleaseRewound(h)
  \/ EnterScan(h) \/ ReadChunk(h) \/ LeaveScan(h)

Conclude(h) ==
  \/ Refuse(h) \/ AcceptLogin(h)
  \/ AcquireToAppend(h) \/ WriteRecord(h) \/ ReleaseAppended(h) \/ Acknowledge(h)

Fail(h) ==
  \/ MeasureFails(h) \/ LoginRewindFails(h) \/ CheckRewindFails(h)
  \/ RecordAllocFails(h) \/ WriteFails(h)

\* The clients have sent all they will send.
Rest ==
  /\ issued = MaxCommands
  /\ \A h \in Handlers : pc[h] = "idle"
  /\ UNCHANGED vars

Next ==
  \/ \E h \in Handlers : Begin(h) \/ Scan(h) \/ Conclude(h) \/ Fail(h)
  \/ Restart
  \/ Rest

Spec == Init /\ [][Next]_vars

\* The operating system runs every runnable thread.
Fairness == \A h \in Handlers : WF_vars(Scan(h) \/ Conclude(h))

FairSpec == Spec /\ Fairness

---------------------------------------------------------------------------
(* Properties.                                                              *)

Places == {"idle", "measure", "rewind", "rewinding", "rewound", "enter", "scan",
           "leave", "verdict", "appending", "appended", "reply"}

\* Every variable has its type; the pointer never passes the end of the file.
TypeOK ==
  /\ file \in Seq(TCHAR)
  /\ pos \in 0..Len(file)
  /\ lock \in Locks(Handlers)
  /\ pc \in [Handlers -> Places]
  /\ req \in [Handlers -> Requests]
  /\ size \in [Handlers -> Nat]
  /\ found \in [Handlers -> {-1, 0, 1}]
  /\ eof \in [Handlers -> BOOLEAN]
  /\ start \in [Handlers -> Nat]
  /\ acked \subseteq Requests
  /\ issued \in 0..MaxCommands
  /\ faults \in 0..MaxFaults

\* A registration answered "Success" is in the file, whatever the other
\* handlers did meanwhile and however often the server was restarted.
Durable == \A r \in acked : Stored(file, r.name, r.pass)

\* The file changes only by growing at its end, and only while no handler is
\* reading it under the shared lock (WriteFile against the ReadFile loops).
AppendOnly ==
  [][file' # file =>
       /\ SubSeq(file', 1, Len(file)) = file
       /\ \A h \in Handlers : pc[h] \notin {"scan", "leave"}]_vars

\* A scan that really began at the start of the file gives the right answer
\* for the accounts the file held when it was measured.
UndisturbedScanIsExact ==
  \A h \in Handlers :
    pc[h] = "verdict" /\ found[h] # -1 /\ eof[h] /\ start[h] = 0 =>
      (found[h] = 1 <=>
         \E p \in Passwords :
           /\ req[h].op = "login" => p = req[h].pass
           /\ Stored(SubSeq(file, 1, size[h]), req[h].name, p))

\* A record that the request agrees with as far as a misplaced scan can tell: a
\* scan that begins inside the record has only the end of its name, one that ends
\* inside it only the beginning of its password.
Supports(account, r) ==
  /\ Len(r.name) <= Len(account.name)
  /\ OccursAt(account.name, Len(account.name) - Len(r.name), r.name)
  /\ r.op = "login" => OccursAt(account.pass, 0, r.pass)

\* A positive answer, even of a scan that other handlers disturbed, rests on one
\* record of the file: the name asked for is the end of its name and, for a login,
\* the password sent the beginning of its password.  It need not be the account
\* asked for: login a/P is accepted on the record "ba,Pq".
VerdictFromOneRecord ==
  \A h \in Handlers :
    found[h] = 1 =>
      \E i \in LineBreaks(file), account \in Requests :
        OccursAt(file, i, Record(account.name, account.pass)) /\ Supports(account, req[h])

\* WriteFile is not looked at: a registration answered "Success" may be missing,
\* but no more of them than there were failing calls, and no other with it.
LostOnlyByFailures ==
  Cardinality({r \in acked : ~Stored(file, r.name, r.pass)}) <= faults

\* The early return of a failing call has left the exclusive lock taken.
LockLeft ==
  /\ faults > 0
  /\ \E h \in lock.writer : pc[h] \notin {"rewinding", "rewound", "appending", "appended"}

\* Every command that was begun is finished: the ReadFile loop ends, and no
\* handler waits for ever on the accounts lock unless an early return kept it.
EveryCommandEnds == \A h \in Handlers : pc[h] # "idle" ~> pc[h] = "idle" \/ LockLeft

\* A name is registered once.  "Error: Username already registered" is meant
\* to prevent a second record.
UniqueAccounts == \A n \in Names : Cardinality(LinesOf(file, n)) <= 1
=============================================================================
