# A verification project for Messaging-Application

Messaging-Application is a chat program for Windows in C: a multi-threaded TCP
server (`MessageServer`), a console client (`MessageClient`) and a library both
link (`MessageCommunicationLib`). Users register, log in, write to each other,
broadcast, list who is logged in and ask for the history of a conversation.
Accounts, pending messages and histories are files.

This directory holds TLA+ modules that model the program, TLC configurations that
check them, and TLAPS proofs about the account store, the loops that scan buffers, the
hash table, the connections, the sessions, the pending messages, the server's locks and
the framing of texts. Paths below are relative to `src/MessageApp/`.

## 1. Inventory

| Part | State it keeps | Operations | Module |
|---|---|---|---|
| Account store, `MessageServer.c` | `registration.txt` through one handle `gAccountsFile` with one file pointer, `g_srw_AccountsFile` | `RegisterClient`, `CheckRegisteredUser`, the first half of `LoginClient`, `OpenAccountsFile` | `Accounts`, `AccountFile`, `AccountsScan`, `AccountStore` |
| Hash table, `CCHashTable.c` | buckets of doubly linked nodes, `Size` | set, get, has, remove, nth key, clear | `HashTable`, `EntryTable` |
| Connections, `_tmain`, `ServeOneClient`, both communication APIs | `gServer`, `gConnectedUsers`, one `CM_SERVER_CLIENT` per connection, one thread per client; in the client two threads, `gExit`, `gAllowConnection` | accept, admit or refuse, the command loop, exit, the error path of every send and receive | `Connections` |
| Sessions, second half of `LoginClient`, `LogoutClient`, `ListClients` | `gUsersMapping` (name to client pointer); in the client `gLogged`, `gLoggedUserName`, `gLastOperation` | login, logout, list, msg, broadcast, exit | `Sessions` |
| Pending messages, `LoginClient`, `ProcessMsg`, `ProcessBroadcast` | `C:\Users\<name>.txt`, `gUsersFiles` (name to file handle) | append while the user is away; send, close, delete and forget at login | `Mailbox` |
| History, `ProcessMsg`, `ProcessHistory` | `C:\Users\<pair>.txt` | append, last *n* messages | `HistoryScan`, `ServerLocks` |
| Locks taken together, all handlers | three SRW locks, the two tables, the open files | nesting in broadcast and history, sends and `CreateFile` loops under a lock, early returns that keep one | `ServerLocks` |
| Framing, `SendTextToClient`, `SendExitToClient`, `FromServer`, `connection.c` | bytes under way | length, then text | `Framing` |
| Client input, `FindInputType` and the `Process*` functions | none | parsing a line | assumptions only |
| Data buffers | buffers of one thread | allocation | its failure, in `Framing` |
| Logging, module start-up | console | output | not modelled |
| `BasicTester` | none | drives the programs | not modelled |

How the parts interact. The accept loop starts a thread per client; the threads
share the tables and the files, each under one SRW lock, and reach other clients
through the pointers in `gUsersMapping`. The client's user thread writes to the
socket and the receiving thread reads from it; they share globals without a lock.
Every access to a table is a lock section of its own, so what one section found
may be different in the next: this is the theme of nearly all the modules.

What is hard, and which properties are about it (PROJECT.json `hazards` has the
lines):

* one file pointer shared by all scans and appends of the account file
  (`UndisturbedScanIsExact`, `VerdictFromOneRecord`, `ImplementsAccountStore`,
  `EveryCommandEnds`);
* a check and its act in different lock sections: registration
  (`UniqueAccounts`), login (`SessionsAgreeUnless`, `SessionsLiveUnless`), the
  pending file (`KeptUnless`, `DiesOnlyWhenLate`), admission
  (`LimitRespected`, `CounterExact`);
* failing calls that free the client *and* the server while the caller goes on, and
  pointers to other clients that are used after the lock is released
  (`MisuseBorrowedOrAfterFailure`, `NoMisuse`);
* failing calls whose early return keeps a lock (`CommandsEndUnlessHeldUp`,
  `EveryCommandEnds`), or whose result nobody looks at (`LostOnlyByFailures`,
  `KeptUnless`);
* messages sent to a client that reads no more and kept nowhere (`KeptUnless`);
* commands and texts told apart only by their order: a handler receives the texts of its
  command and no more (`CommandsInStep`), a client takes the next text for its answer
  (`SessionsAgreeUnless`, `EveryCommandAnswered`), and a place that comes back only
  after the answer (`PlaceComesBack`);
* three locks taken in two orders (`DeadlockNeedsThree`), sends inside them
  (`CommandsEndUnlessHeldUp`), one directory for the files of users and of pairs of
  users (`SpinsOnlyOnClash`);
* two sends for one text, two receives that may return less than they ask for, and
  an empty text that looks like the end of the connection (`PrintedAsSent`,
  `EveryTextPrinted`, `EndsOnlyOnEmpty`);
* loops that walk a buffer with a cursor and count lines from the end
  (`LoopMatchesParse`, `HistoryAnswersCount`);
* restarts (`Durable`, `PrintedOnce`, `KeptUnless`);
* a loop that retries `CreateFile` under an exclusive lock (`OpenNeverSpins`,
  `HandlersEnd`);
* pointer surgery in the hash table (`Linked`, `ImplementsEntryTable`), and a clearing
  that looks for keys it has truncated (`CallsEndUnlessSpinning`).

## 2. The modules

### SRWLock, AccountFile, AccountsScan, Accounts, AccountStore

`SRWLock` is the lock of the Windows API as the server uses it: one owner or
several sharers, not re-entrant. `AccountFile` is the format of
`registration.txt`, as pure operators: `Record` is what registration writes,
`Parse` what the scanning loops of `LoginClient` and `CheckRegisteredUser` find in
a buffer that may begin and end anywhere, `Matches` their verdict. `AccountsScan`
is the loop itself, cursor by cursor (`toAdd`, `firstTime`, the in-place NULs);
`LoopMatchesParse` ties it to `Parse`: TLC checks it on every window of every small file,
and `ScansProofs` proves it for buffers of any length.

`Accounts` is the store with its handlers. `pc[h]` is where a handler is:
`Measure` (the size is read before any lock), `AcquireToRewind`, `Rewind`,
`ReleaseRewound`, `EnterScan`, `ReadChunk` (one `ReadFile` and the scan of its
buffer), `LeaveScan`, then the answer, or `AcquireToAppend`, `WriteRecord`,
`ReleaseAppended`, `Acknowledge`. `pos` is the one file pointer. The early
returns that leave the lock taken are actions of their own (`MeasureFails`,
`LoginRewindFails`, `CheckRewindFails`, `RecordAllocFails`), as is `WriteFails`.
`Restart` ends the process: file and acknowledgements stay, all else is lost.

`AccountStore` is what the store promises: a bag of accounts to which registrations add
and from which nothing is taken, not even by a restart; nothing is added under a reader;
a command that no other overlaps is answered as the accounts are, and the answer to any
other is left open, because the one file pointer leaves it open. A failing `WriteFile`
may be answered "Success" there too. `AccountsAlone` adds to `Accounts` the history
variable `alone`, the handlers whose command no other has overlapped, and states the
refinement (`ImplementsAccountStore`): the bag counts the lines of the file that are the
record of an account (`Bag`), and a handler's place is one of six stages (`Stage`).

### HashTable, EntryTable

`EntryTable` is what the table promises: a multi-map, since `HtSetKeyValue` never looks
for the key; an answer names its call and key, so that a search or removal of the wrong
entry is not explained by another call. `HashTable` has the pointers. Insertion is one
action, the searches of get, has and remove go node by node, `HtClear` bucket by bucket.
A key of 150 characters or more is stored as the empty string (`LongKeys`, `StoredKey`).
`HtClear` looks for the bucket of a node by the key stored in it, so that on a long key
outside bucket 0 it tries the same removal for ever (`ClearInVain`). `Chain` and
`NthPlaces` are `HtGetNthKey`.

### Connections

Client program: `user` is its main and user threads, `reader` its receiving
thread. Server: `mpc` is the accept loop, `pc`, `todo`, `exitted` each
`ServeOneClient` thread, where `todo` is the series of calls the running command has
still to make. Each handler (`ProcessEcho`, `RegisterClient`, ..., `ProcessHistory`,
`SendExitToClient`) is the set of series it may make: its `ReceiveText` and
`SendTextToClient` calls, which can fail, and then `Collapse` frees the client and the
server and uninitializes the module, as the code does, while the handler goes on; and
its uses of `gUsersMapping`. `mapped` is the clients whose objects that table points
to; `Insert` and `Remove` are the sections of login, logout and exit. Which users they
are for is left to `Sessions`: here a logout may remove any entry or none. `Lookup`
takes a pointer under the lock and `Forward` sends through it afterwards, as msg and
broadcast do: by then its own thread may have freed it (`ForwardToFreed`), or the send
may fail and free the other client under its running thread (`ForwardFails`). `obj`,
`server` and `wsa` are the lifetimes; `misuse` records an access to something freed,
"borrowed" that of a pointer taken from the table. A handler that has no memory for its
texts returns before it receives them and leaves them in the stream (`skipped`); what a
text is then taken for is in `Misread`. A thread that uses its freed client is
"undefined": it takes no further step and keeps its place. `Cleanup` ends the process
with all threads.

### Sessions

One action per section of `g_srw_UsersMapping`: `FindSession` and `InsertSession`
are two, `Lookup` yields a pointer that `Deliver` uses later. The client half is
in the same module (`Type*`, `Read`), because the two ideas of who is logged in
are what the properties compare. `History` answers the last messages, which for a count
of 0 are an empty text; `HistoryBelow` is a history with a negative count, which may
send nothing (both loops are in `HistoryScan`). A client that has read an empty text is
`deaf`: its receiving thread has ended. `overtaken` and `disputed` are history: clients
that took another text for their login's answer, users logged in twice.

### Mailbox

One user's pending file, with numbers for messages. `at` is where the user's login is
between `Login` (the session is inserted) and `RemoveEntry`; `pc` is where each sender
is. `Lookup` and `SendDirect` are two steps: the client found may read no more when the
message is sent (`silent`: it has typed exit, its receiving thread has ended, or its
object is freed), and the message is then printed or not. `open`, `pos` and `entry` are
the open handle, its pointer and the entry of `gUsersFiles`. An append moves the pointer
the drain reads at, as both use one handle. `late` is history: the messages on their way
to the file, or unread in it then, when a write overlapped a drain; so are `missed`, the
messages sent to a client that read no more, and `failed`, those of a `WriteFile` or
`ReadFile` that failed unnoticed (`WriteFails`, `ReadFails`). `GetMissing` is
`WriteFile(*file, ...)` with the NULL that `HtGetKeyValue` left: the process ends.

### HistoryScan

The two loops of `ProcessHistory` over the history file, cursor by cursor, as
`AccountsScan` has those over the accounts: one counts the lines (`CountLine`,
`CountEnds`), the other steps over those that were not asked for (`SkipLine`,
`SendRest`, `SkipEnds`). `FileOf` is what `ProcessMsg` has written, one line for
each message. `MCScans` runs both scans in one instance.

### ServerLocks

All handlers with all three locks: the module that composes what the others take
apart. `todo[c]` is what the handler of client `c` has still to do, a sequence of
steps at which it may wait or which others wait for; a command (`RegisterClient`,
`LoginClient`, `LogoutClient`, `ListClients`, `ProcessMsg`, `ProcessBroadcast`,
`ProcessHistory`) begins with its series, and a step that decides something
(`Look`, `Address`, `Find`, `Lines`) puts further ones in front, as
`OpenPending` where a pending file has no entry. A lock section in which nothing can
wait is one step. `lock` is the three locks, `session` and `listed` the keys of
`gUsersMapping` and `gUsersFiles`, `open` the files with an open handle, by path: a
pending file is named by one user, a history by two, and `Name` has a user whose
name is the names of two others (`ann`, `bob`, `annbob`). The scans' outcomes,
which `Accounts` and `Mailbox` explain, are any outcome here.

`Blockers` says for whom a handler waits. Windows promises no order among those who
wait for a slim lock; `queued` is chosen once and says whether a shared request stays
behind an exclusive one. The early returns keep their locks: the owner is then
`Gone`. `CheckRegisteredUser` answers -1 when it fails, which every caller takes for
found, so only a series that found its user contains a check that may fail
(`recheck`, not `search`).

### Framing

One client, several handlers that send to it, the connection between. `SendLength`
and `SendText` are the two sends of `SendTextToClient`, `SendExitLength` begins the
answer to an exit, an integer 0. The unit is a word of 4 bytes; TCP cuts the words
into segments (`Pieces`) of which any number has arrived when `ReceiveLength` or
`ReceiveSome` reads. What they read is taken for a length or a text, whatever it was
sent as (`IntOf`). `mixed` and `split` are history: a handler sent while another was
between its two sends, a receive returned less than was asked for.

`Accounts`, `Sessions` and `Mailbox` meet in `LoginClient`: `Accounts` is its
credential scan, which `Sessions` takes as a choice (`CheckCredentials`);
`Sessions` ends with the answer, after which `Mailbox` begins. Each leaves out
what the others have, and each takes the other's outcome as any outcome.

## 3. The runs

| Run | Expect | What it shows |
|---|---|---|
| `MCAccounts` | pass | types; an answered registration is missing only for a failed write; a scan nobody disturbed is exact; a disturbed one accepts no more than the end of one record's name with the beginning of its password |
| `MCAccountsLive` | pass | handlers, pointer and file are a store of accounts (`AccountStore`); acknowledged accounts survive; every register and login ends unless an early return kept the lock |
| `MCScans` | pass | the loops over the accounts answer what `Parse` says; those over a history send the last messages, as many as asked for |
| `MCAccountsUnique` | violation | two registrations of one name at once |
| `MCHashTable` | pass | chains, enumeration, clearing, refinement of `EntryTable`; every call returns but an `HtClear` at a long key outside bucket 0 |
| `MCConnections` | pass | limit, exact counter; handlers in step with commands unless one left its texts; before a failure no freed object is used but another client's, taken from the table; everyone answered, every exit completes and its place comes back |
| `MCConnectionsExit` | violation | a proper exit makes the server free its objects twice |
| `MCSessions` | pass | client and server agree, and sessions are live, except in the two named ways; commands are answered, but for list and a history with a negative count, and a client that has read an empty text |
| `MCMailbox` | pass | an answered message is lost only in the overlap with a drain, by a read or write that failed unnoticed, or to a client that read no more; the server dies only in the overlap; `CreateFile` never spins; no repetition without a restart; drains and sends end |
| `MCServerLocks` | pass | handlers wait for each other only as a broadcast, a history and an exclusive request between them; `CreateFile` spins only on a clash of names; nothing else holds a command up but a client that does not read and a lock that was left taken |
| `MCFraming` | pass | a client prints the texts sent to it, whole, in order and all of them, unless two handlers send at once or a receive returns a part; its thread ends on an empty text |
| `MCMailboxLost` | violation | an acknowledged message is deleted with the file |

**Bounds.** *Accounts*: three handlers, three commands, one fault, names `a` and `ba`
where one is the tail of the other, and three passwords where one is the head of the
next; one account from an earlier run, so that chunks end inside a record. A scan that
begins inside the record of `ba` then accepts a login of `a`, which is not registered,
and one that ends inside a record accepts the beginning of its password: both happen,
and `VerdictFromOneRecord` says that no positive verdict rests on less. Two handlers
disturb each other's scan, a third disturbs both; `MCAccountsLive` has two handlers,
three commands and two failures, so that a lock is kept and the process restarted, and a
command that is alone finds what a failed or overlapped one, or a restart, left behind.
Its instance has no failing `WriteFile`, without which `Durable` is meant; the proof of
the refinement has. *Scans*: every window of every file of three records, so that a
comma that was cut, a line break before the first comma and a further record can meet;
histories of up to three messages and counts from -1 to 4, one beyond either end.
*HashTable*: two buckets, three nodes, so head, middle and tail of a chain, and a
colliding key; a key too long to be stored in each bucket. *Connections*: two clients
and one place, so one admitted and one refused in every order, and a client whose entry
in the table outlives it while the other takes its place; one command each besides exit,
of login, echo, list and history for one client and msg, register, logout and broadcast
for the other; loops of at most one round; a misplaced text is taken for an unknown
command; one fault: a killed client, a failed thread, or an allocation. With one place
two handlers overlap only between `Decrement` and `AbandonAtEnd`; two places are beyond
this run (millions of states): the theorems cover the safety properties for any limit.
`MCConnectionsExit` types echo only. *Sessions*: two clients, two users, all commands;
besides exit three commands of one client and two of the other: both log in as the same
user or as each other's recipient, and one can log in again after a logout that took the
other's session. *Mailbox*: two senders and two messages, since each property is about
one message and what another does to it; two logins, so that a second finds what the
first left; one restart, and reads, writes and clients that fail at any time;
`MCMailboxLost` has three messages and no faults. *ServerLocks*: three users, a command
each, as a wait that goes round takes three; one fails in a behaviour. The commands are
dealt out so that a broadcast, a history and a command of the third meet, and so do
list, logout, msg, register and login with those of the other users; the run has all of
them in 330,000 states. *Framing*: the client's own handler and another, three texts of
no, one or three words in segments of two, so that a text comes in two parts and the
rest of it, the next length and the next text follow. The bounds `MaxTexts`,
`MaxCommands`, `MaxFaults`, `MaxTyped`, `MaxSent`, `MaxLogins` and `MaxStops` occur only
in guards of actions that begin something or fail.

`CHECK_DEADLOCK FALSE` stands where the system may come to rest: all commands
served, the process ended, nobody typing.

**Fairness.** Weak fairness of each server thread and of each client thread that
does not wait for the user: the operating systems run every runnable thread.
Nobody has to type, connect, log in or send. Two remarks. `EveryCommandEnds`
needs no fairness of the lock: SRW locks do not promise that a writer gets in
under a stream of readers, but the commands of a behaviour are bounded, so the
stream ends. The same holds of `CommandsEndUnlessHeldUp`, for both orders of the
lock. `HandlersEnd` and the properties of `Connections` assume that sends to clients do
not block for ever; a client that stops reading is a matter of `ServerLocks`.
`HandlersEnd` and
`CommandsEndUnlessHeldUp` say that all is done in the end (`<>[]`), which with bounded
commands is that each ends.

**Properties with exceptions.** `SessionsAgreeUnless`, `SessionsLiveUnless`,
`KeptUnless`, `DiesOnlyWhenLate`, `MisuseBorrowedOrAfterFailure`, `CommandsInStep`,
`PrintedAsSent` and `EveryTextPrinted` name how the program goes wrong: the exception is
a race or a failure recorded in a history variable, and the property says that in the
model there is no other. The violation runs show that two of the races happen. In
`ServerLocks` the exceptions are states (`HeldUp`): a client that does not read, a
spinning `CreateFile`, a lock left taken, handlers that wait for each other;
`DeadlockNeedsThree` and `SpinsOnlyOnClash` then say when the second and the last of
them can be. Each of the four is reachable: the negation of each, run as an invariant,
is violated in the instance. `MCSessions` has users who await each answer (`Patient`);
users who type ahead get out of step more easily. A patient user whose client has gone
deaf waits in vain for the next answer: `EveryCommandAnswered` excepts it, and typing on
is `Patient = FALSE`.

**Findings**: `UniqueAccounts`, `NoMisuse`, `NoLostMessage`, each with the sentence of
the code or of the assignment (`Proiect 2.pdf`) it contradicts, in PROJECT.json. Other
behaviour met while modelling, not a finding: a message delivered between the insertion
of a session and the answer to the login is taken for that answer, and the client misses
its login (`overtaken`); a broadcast, a history and a login may wait for each other for
ever, if the system queues a shared request behind an exclusive one
(`DeadlockNeedsThree`); a message to a user whose history with another has the name of a
third's open pending file stops the server (`SpinsOnlyOnClash`); a misplaced scan
accepts a login with the end of a registered name and the beginning of its password
(`VerdictFromOneRecord`); a failing `WriteFile` is answered "Success"
(`LostOnlyByFailures`, `KeptUnless`); msg and broadcast may send through the pointer of
a client that was freed meanwhile (`MisuseBorrowedOrAfterFailure`); `HtClear` spins on a
key too long to be stored whose bucket is not 0 (`CallsEndUnlessSpinning`); `history
<user> 0` sends an empty text, on which the client's receiving thread ends
(`HistoryAnswersCount`, `EndsOnlyOnEmpty`). Not checked by a run: a login with right
credentials may be refused when another handler moves the file pointer during its scan,
and a new name refused when a scan begins inside a record; two pairs of users whose
names joined are equal share a history; one killed client destroys the server under all
others; a client may be refused although the only other one has just left.

## 4. The proofs

Each component with proofs has a module of them, which holds its inductive invariant
and the lemmas it needs. The theorems hold for every value of the constants that the
component's `ASSUME` admits; what that asks is said below where it is more than a type.
Every safety property that a passing run checks is stated by a theorem, and so are
both refinements.

**`AccountsProofs`**: any number of handlers, any faults, any names and passwords without
comma and line break, which the client's input checks guarantee. `InitialFile` is a
sequence of records of such names (`Recorded`): every line of the file was written by
`RegisterClient`, in this life of the process or in an earlier one.

* `TypeCorrect`: `TypeOK`; the pointer never passes the end of the file.
* `LockHeld`: who is in which section of the lock is exactly what the places of
  the handlers and the early returns say. Inductive together with `TypeOK`;
  everything below rests on it, because an append must know that nobody reads.
* `LinesComplete`: the file is a sequence of complete lines. Inductive with the
  two above: the only step that changes the file appends a whole `Record`.
* `FileAppendOnly`: `AppendOnly`, no step changes what the file has and none appends under a
  reader; from `LockHeld`.
* `AcknowledgedIsDurable`: `Durable`, if `WriteFile` does not fail. The
  strengthening says where between writing and acknowledging a record is already
  in the file; the step needs that a line of a file is a line of every file that
  extends it at a line end, hence `LinesComplete`.
* `FoundInOneRecord`: `VerdictFromOneRecord`. First (`FoundIsInFile`), the characters of the
  request, its name, a comma and for a login its password, stand somewhere in the file: what
  was read of the file lies between the positions where the chunk began and ended, and
  lemmas about `Parse` say that an account found in a window occurs in it. Then
  (`EvidenceInRecord`), as the file is a sequence of records, the comma is that of one of
  them; before and behind it there are no separators, so that the name is the end of that
  record's name and the password the beginning of its password.
* `LossesCounted`: `LostOnlyByFailures`. The registrations that were answered, or are
  about to be, and are not in the file (`Missing`) are at most the failures so far: the
  one step that adds to them is `WriteFails`, and it is a failure.
* `UndisturbedIsExact`: `UndisturbedScanIsExact`. What a handler measured stays the end
  of a line although the file grows under it, and what it found in a chunk that began
  at 0 is the answer for that much of the file (`ScanOf`). The lemmas read a file of
  records position by position (`Stands`): where names, commas, passwords and line breaks
  are, so that the scan sees each record before the measured end and nothing else, even
  when its chunk has one character more.
* `StoreImplemented`: `ImplementsAccountStore`, step by step. That nothing is added
  under a reader is `LockHeld`. That a registration adds one copy of one account and
  none of another is a lemma about files of records (`CopiesGrow`): one line can be the
  record of one account only (`OneAccountThere`). That a command alone is answered right
  is the invariant `AloneInv` on top of that of `UndisturbedIsExact`: while a handler is
  alone, all others are idle, the pointer is at 0 from its rewinding until it reads, its
  chunk begins there, and the file is as long as it measured, so that what is exact for
  that length is exact.
* `ChunksAreLined`: whatever part of the file `ReadFile` returns has the shape (`Lined`)
  that `ScanCorrect` below asks of a buffer, and the names of a request have no separator:
  no terminator in the buffer, CR before LF, a comma between two line breaks.

**`ScansProofs`**: the loops themselves, over any characters (`CharactersAssumption`: the
separators are among them and NUL is not), for buffers of any length.

* `ScanCorrect`: `LoopMatchesParse`, for every buffer that is `Lined`, as those of
  `Accounts` are by `ChunksAreLined`. The invariant (`ScanInv`) says that from
  `toAdd` on the buffer is still the chunk (`Agrees`), that `toAdd` is at the line break
  before the next line, or at 1 the first time, and that no line before that is an
  account that answers the request (`Reading`). The other way to be in the loop is
  `Blocked`: a buffer that begins behind a comma has a line break before its first comma,
  the loop has cut that comma, meets its NUL in the next round and ends with nothing found,
  which is what `Parse` says of such a buffer too.
* `HistoryCorrect`: `HistoryAnswersCount`, for all histories of messages without line
  breaks and all counts. The invariant (`HistoryInv`) is that the cursor is where the
  lines counted, or skipped, so far end.

`FileOf` is defined with `FlattenSeq`, which is recursive, and the induction theorems
cannot be used. What is needed of it, that the file of the first *i* messages is a prefix
of the file and ends at its *i*th line break, is proved from the equations of the
recursive function by the least number that would be a counterexample.

**`HashTableProofs`**: any finite set of nodes, any number of buckets, any keys and values.
The invariant reads the pointers as places: there are functions that give each node of
the table its bucket and its position there, different for different nodes, and the
pointers lead from position to position (`Placed`); a search is at a node of the right
bucket and has passed no match. That positions are without gaps is what makes
`HtGetNthKey` count every key, by a pigeonhole argument, and no induction along a chain
is needed anywhere.

* `TypeCorrect`, `ClearCorrect`, `LinksCorrect`: `TypeOK`, where `Size` is the number of
  nodes; `HtClear` finds a node as long as there is one; `Linked`.
* `ListingCorrect`: `EveryEntryListed`.
* `TableImplementsEntries`: `ImplementsEntryTable`. Every step of the table is one of
  `EntryTable` or none: the answer of a search is an entry of its key, and "not found"
  holds because every node of the bucket was passed.

**`ConnectionsProofs`**: any finite set of clients, any `Limit` and any failing calls.

* `LimitHolds`: `LimitRespected`, at all times.
* `CounterCounts`: `CounterExact`, until a call fails.
* `EarlyMisuseBorrowed`: `MisuseBorrowedOrAfterFailure`.
* `TypeCorrect`: `TypeOK`; `gConnectedUsers` is never negative.
* `CommandsFound`: `CommandsInStep`, until a call fails and for clients whose handlers had
  the memory for their texts.

None of them is inductive. `IInv` adds what the orders of the accept loop, the
threads and the clients leave possible: a client is in the backlog once and has no
thread yet, and while the accept loop decides, counts and greets it, it has neither
sent nor received anything, so that its thread stays at its first receive
(`Arrivals`); until a call fails, the object of a running thread is not freed
(`Objects`); the served clients are at most the counter and the one still uncounted,
which is at most `Limit` (`Counted`). That the accept loop greets through a pointer
which the thread frees is safe because of `Arrivals` and nothing else: a client that
typed before its greeting would break it, as the mutant `ConnectAndType` does. A client
whose pointer is in the table or in another thread's hand has been greeted (`Met`), so
that a msg does not disturb the greeting. For
`CommandsFound` the queue of a client is read as frames (`InFrames`): the texts its
handler has still to receive, then commands each with its texts; a function over the
positions of the queue says how many texts are expected at each. Every series of calls
receives its texts first and no text later (`Leads`), which is shown of each handler
(`CallLists`).

**`SessionsProofs`**: any clients, users and numbers of commands.

* `TypeCorrect`: `TypeOK`, whether users await their answers or not. It needs a count:
  the commands a user has not seen answered are those in its queue, the one its handler
  serves and the answers under way (`Counted`).
* `AgreementCorrect`, `LiveCorrect`: `SessionsAgreeUnless` and `SessionsLiveUnless`, if
  users await their answers (`Patient`). From the count there is one command under way
  at most (`PendFew`, `WorkingAlone`), so that what the client remembers tells what it
  is (`Matched`) and whom it is about (`Addressed`). `In(c)` says of a client, wherever
  its command is, whether the table should have it: between the insertion and the
  reading of "Success" it is in although `gLogged` is 0, between the typing of a logout
  and the removal it is still in. `Kept` says that the table has exactly these, one per
  user, but for `overtaken` clients and `disputed` users.

The attempt to prove the first version of `SessionsAgreeUnless` failed for a reason that
its bound had hidden: with two commands per client the property held in a stronger
form, which a third command breaks, because a logout of a disputed user takes some
entry of the name, and the client whose entry went can log in once more. The property now
excepts the user, and the run has the third command.

**`MailboxProofs`**: any set of senders, any bounds on messages, logins and ends of the
process.

* `NeverSpins`: `OpenNeverSpins`.
* `AnsweredIsKept`: `KeptUnless`.
* `DeathIsLate`: `DiesOnlyWhenLate`.
* `TypeCorrect`: `TypeOK`; one open handle at most.
* `RepeatedOnlyByStops`: `PrintedOnce`.

`IInv` says where the handle is open (`Handles`: the entry and the open handle come and
go together, but for the login's close, during which the entry keeps everybody from
opening), that whoever could miss the drain is noted while it lasts (`Overlaps`) and is
still noted when its handle is stale or gone (`Stale`), and that what the login passed,
and before the deletion all of the file, is printed, noted as late, or one of the
`failed` or `missed` messages (`Drained`). The step that needs all of these is `Write`
during the drain: it moves the pointer past messages that the login has not read. For
`RepeatedOnlyByStops` a message is with one sender or at one place of the file
(`OnePlace`), and what a login may yet print was printed at most once per end of the
process (`Counted`).

**`ServerLocksProofs`**: any finite set of users, any different names that are not
empty, any failures, both orders of the lock.

* `TypeCorrect`: `TypeOK`.
* `SpinCorrect`: `SpinsOnlyOnClash`.
* `DeadlockCorrect`: `DeadlockNeedsThree`.

What a handler holds follows from what it has still to do, but not by looking at its
first step. The invariant says that there is a place for each handler (`HeldNames`: the
locks it holds and the file it has open) from which its remaining steps lead, one by one
(`Moves`), to holding nothing; that the owners of the locks are who these places say, or
`Gone`; and that the open files are those of listed users, of a history under way or of
one that failed. `DeadlockCorrect` follows from who can own a lock and wait
(`OwnersWait`): the owners of the sessions do not, so nobody in the cycle waits for
those; who waits for the files waits for a history, who waits for the accounts for a
broadcast, and a history's shared request waits for readers only behind an exclusive
one.

**`FramingProofs`**: any finite or infinite set of handlers, any number of texts, any
segments; lengths are at most `LongestText`, which is as far as `StringCbLength` counts in
`SendTextToClient`.

* `TypeCorrect`: `TypeOK`.
* `PrintedCorrect`: `PrintedAsSent`.
* `EndsCorrect`: `EndsOnlyOnEmpty`.

The texts sent so far are one stream of words, a length and the words of its text in
turn, with a position between any two words; `Moves` says which word leads from one
position to which. While nothing disturbed them, the words that arrived and then the
segments on the wire lead from the position of the reader to the position that the
sends have reached (`Coming`), and the printed texts are those to be printed before it
(`Ordered`). A send adds words at the end, however `Pieces` cuts them (`PiecesCut`); a
receive takes them at the front, and because a position has one next word, what it takes
is the next length or, if all of it has arrived, the whole next text (`Whole`).
For this `PrintedAsSent` is stated with the number of texts to be printed before each and
not with `SelectSeq`, whose definition is recursive.

**Only model-checked** is liveness, which the prover does not do: `EveryCommandEnds`,
`CallsEndUnlessSpinning`, `EveryClientAnswered`, `ExitCompletes`, `PlaceComesBack`,
`EveryCommandAnswered`, `HandlersEnd`, `CommandsEndUnlessHeldUp`, `EveryTextPrinted`. The
violation runs are TLC's counterexamples, and nothing is proved about them.

## 5. What is not modelled, and why

* Several lines of a client that leave mid-command are one loss of connection; TCP
  delivers in order and does not lose bytes of an open connection.
* Handles are not reused by Windows for other files at once: a write to a closed
  handle is either nothing or a write to the newer handle of the same file.
* A text longer than the buffer it is received or copied into: the process is undefined
  from there on. `Connections` takes the buffer a thread creates before its loop as
  created, and has no failing allocations in the client.
* `echo` and `register` do not touch sessions; `sendfile` does nothing.
* `Mailbox` does not have a `CloseHandle` or `DeleteFile` that fails (but for an open
  handle), nor the login's `SetFilePointer` that fails and keeps the lock, which
  `ServerLocks` has.
* An allocation that fails outside of a lock section ends its command; `ServerLocks`
  has those that fail inside of one.
* A client that stops reading does so for ever; one that starts again releases what
  waited for it. The section in which an exit removes a session, and two connections
  of one user, are in `Sessions` and not in `ServerLocks`.
* `Framing` does not cut inside a word of 4 bytes, and a length is 4 bytes: the
  program is taken as built for Win32. In a 64-bit build the client's `size_t` length
  does not fit its buffer, and no text is sent. A text of one character is read by
  `FromServer` as an integer of 4 bytes; what follows its 2 bytes is undefined and
  taken for non-zero. `ReceiveText`, the other direction, has one sender.
* A name may be typed as empty text (two blanks in a row): the server receives 0
  bytes, takes the connection for ended and destroys client and server
  (`Connections` has the error path, not this way into it).
* A history larger than `STANDARD_SIZE` is read in several chunks by loops that are
  made for one.
* Logging, `BasicTester`, copying of data buffers: sequential, no shared state.

## 6. Plan

Done: (1) `Accounts` with its file, scan and proofs; (2) `HashTable` and the
abstract table; (3) `Connections`; (4) `Sessions`; (5) `Mailbox`;
(6) `ServerLocks`, the handlers with all locks; (7) `Framing`; (8) `HistoryScan`, the
loops of history, while its file's name and lock are in `ServerLocks`; (9) `AccountStore`,
what `Accounts` implements.

Next module: (10) a composition of `Sessions` and `Mailbox` in which two connections
log one user in and drain one file.

Next proof: that `Framing`, undisturbed, implements a queue of texts.
