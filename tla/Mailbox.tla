------------------------------- MODULE Mailbox -------------------------------
(***************************************************************************)
(* The messages that wait for one user: the file C:\Users\<name>.txt, its    *)
(* handle in gUsersFiles, the handlers of msg and broadcast that append to   *)
(* it while the user has no session, and the user's login, which sends its   *)
(* contents, closes it, deletes it and forgets the handle.                   *)
(*                                                                         *)
(* Each access to gUsersFiles is one section of its lock, and so one step;   *)
(* the login's ReadFile loop, CloseHandle and DeleteFile run outside of it.   *)
(* One connection at a time logs the user in; Sessions shows where two do.   *)
(* What the server has sent to a client that still reads is printed: a text   *)
(* on its way arrives, even if the server ends behind it.                     *)
(***************************************************************************)
EXTENDS Integers, FiniteSets, Sequences, SequencesExt

CONSTANTS
  Senders,     \* the handlers of clients that send to the user
  FaultKinds,  \* which of the events below may occur
  MaxSent,     \* bound: messages in a behaviour
  MaxLogins,   \* bound: logins of the user
  MaxStops     \* bound: ends of the server process from outside

\* The server process ends and is started again; ReadFile or WriteFile fails; a
\* client of the user reads no more.
AllFaults == {"restart", "read", "write", "silent"}

ASSUME MailboxAssumption ==
  /\ FaultKinds \subseteq AllFaults
  /\ MaxSent \in Nat /\ MaxLogins \in Nat /\ MaxStops \in Nat

NoHandle == 0

VARIABLES
  session,    \* whether gUsersMapping has the user
  content,    \* the messages in the pending file
  open,       \* the open handles of the file
  pos,        \* the file pointer of the open handle, in messages
  entry,      \* the user's entry in gUsersFiles
  opened,     \* handles given out by CreateFile so far
  at,         \* where the user's login is
  userFile,   \* the handle the login works with
  pc,         \* where each sender is
  msg,        \* the message it sends
  file,       \* the handle it found
  target,     \* the connection whose pointer it found
  sent,       \* messages sent so far; their numbers name them
  logins,     \* logins so far; their numbers name the client's connections
  silent,     \* the connections whose client reads no more
  stops,      \* ends of the server process so far
  printed,    \* history: what the user's clients were sent
  acked,      \* history: messages answered "Success"
  missed,     \* history: messages sent to a client that read no more
  failed,     \* history: messages whose WriteFile or ReadFile failed
  late        \* history: messages on their way to the file, or unread in it then,
              \* while it was drained

recipient == <<session, at, userFile, logins>>
sender == <<pc, msg, file, target, sent, acked>>
disk == <<content, open, pos, entry, opened>>
fate == <<printed, missed, failed>>
vars == <<recipient, silent, sender, disk, stops, fate, late>>

Init ==
  /\ session = FALSE
  /\ content = <<>>
  /\ open = {}
  /\ pos = 0
  /\ entry = NoHandle
  /\ opened = 0
  /\ at = "away"
  /\ userFile = NoHandle
  /\ pc = [s \in Senders |-> "idle"]
  /\ msg = [s \in Senders |-> 0]
  /\ file = [s \in Senders |-> NoHandle]
  /\ target = [s \in Senders |-> 0]
  /\ sent = 0
  /\ logins = 0
  /\ silent = {}
  /\ stops = 0
  /\ printed = <<>>
  /\ missed = {}
  /\ failed = {}
  /\ acked = {}
  /\ late = {}

---------------------------------------------------------------------------
(* gUsersFiles and the file.                                                *)

\* Mutant: the file is opened shared, and without the second test.
OpenShared ==
  /\ opened' = opened + 1
  /\ entry' = opened'
  /\ open' = open \cup {opened'}
  /\ pos' = 0
  /\ UNCHANGED content

\* Mutant: without the second test of the key.
OpenAlways ==
  /\ open = {}
  /\ opened' = opened + 1
  /\ entry' = opened'
  /\ open' = {opened'}
  /\ pos' = 0
  /\ UNCHANGED content

\* Mutant: the handle is not put in the table.
OpenUnlisted ==
  IF entry # NoHandle THEN UNCHANGED disk
  ELSE /\ open = {}
       /\ opened' = opened + 1
       /\ open' = {opened'}
       /\ pos' = 0
       /\ UNCHANGED <<content, entry>>

\* The second test of the key and CreateFile, under the exclusive lock.  The
\* file is opened without sharing: while a handle is open CreateFile fails, and
\* the loop around it spins with the lock held.
OpenUnlessPresent ==
  IF entry # NoHandle THEN UNCHANGED disk
  ELSE /\ open = {}
       /\ opened' = opened + 1
       /\ entry' = opened'
       /\ open' = {opened'}
       /\ pos' = 0
       /\ UNCHANGED content

\* Senders between their look at the session and their write.
Storing == {s \in Senders : pc[s] \in {"find", "open", "get", "write"}}

Draining == at \in {"read", "close", "delete", "remove"}

\* A write that overlaps the drain moves the file pointer to the end, past what
\* the login has not read yet.
Unread == ToSet(SubSeq(content, pos + 1, Len(content)))

NoteLate ==
  late' = IF Draining' /\ Storing' # {} THEN late \cup {msg'[s] : s \in Storing'} \cup Unread'
          ELSE late

---------------------------------------------------------------------------
(* LoginClient, from the insertion of the session on.                       *)

Recipient(from, to) == at = from /\ at' = to /\ UNCHANGED <<silent, sender, stops>>

Login ==
  /\ logins < MaxLogins
  /\ Recipient("away", "find")
  /\ session' = TRUE
  /\ logins' = logins + 1
  /\ UNCHANGED <<userFile, disk, fate>>

LoginFind ==
  /\ Recipient("find", IF entry = NoHandle THEN "open" ELSE "get")
  /\ UNCHANGED <<session, userFile, logins, disk, fate>>

LoginOpen ==
  /\ Recipient("open", "get")
  /\ OpenUnlessPresent
  /\ UNCHANGED <<session, userFile, logins, fate>>

LoginGet ==
  /\ Recipient("get", "rewind")
  /\ userFile' = entry
  /\ UNCHANGED <<session, logins, disk, fate>>

LoginRewind ==
  /\ Recipient("rewind", "read")
  /\ pos' = 0
  /\ UNCHANGED <<session, userFile, logins, content, open, entry, opened, fate>>

\* A text with these messages is sent over the connection c.  The client prints it,
\* unless it has typed exit (gExit ends its receiving thread) or the thread has
\* ended on an empty text.  The send may then fail, or go through an object that the
\* handler of c has freed; what becomes of the process is a Restart.
Deliver(messages, c) ==
  /\ \/ printed' = printed \o messages /\ UNCHANGED missed
     \/ c \in silent /\ missed' = missed \cup ToSet(messages) /\ UNCHANGED printed
  /\ UNCHANGED failed

\* One ReadFile and the text sent with it.  The buffer is as large as
\* registration.txt, so that it may hold less than the file.
ReadPending ==
  /\ at = "read" /\ pos < Len(content)
  /\ \E end \in (pos + 1)..Len(content) :
       /\ Deliver(SubSeq(content, pos + 1, end), logins)
       /\ pos' = end
  /\ UNCHANGED <<recipient, silent, sender, stops, content, open, entry, opened>>

EndOfPending ==
  /\ Recipient("read", "close")
  /\ pos >= Len(content)
  /\ UNCHANGED <<session, userFile, logins, disk, fate>>

\* The result of ReadFile is not looked at: a failing one ends the loop.
ReadFails ==
  /\ "read" \in FaultKinds
  /\ Recipient("read", "close")
  /\ failed' = failed \cup Unread
  /\ UNCHANGED <<session, userFile, logins, disk, printed, missed>>

\* Mutant: the handle is not closed.
KeepOpen ==
  /\ Recipient("close", "delete")
  /\ UNCHANGED <<session, userFile, logins, disk, fate>>

ClosePending ==
  /\ Recipient("close", "delete")
  /\ open' = open \ {userFile}
  /\ UNCHANGED <<session, userFile, logins, content, pos, entry, opened, fate>>

\* Mutant: the file is not deleted.
KeepPending ==
  /\ Recipient("delete", "remove")
  /\ UNCHANGED <<session, userFile, logins, disk, fate>>

\* DeleteFile fails while a handle is open.
DeletePending ==
  /\ Recipient("delete", "remove")
  /\ content' = IF open = {} THEN <<>> ELSE content
  /\ UNCHANGED <<session, userFile, logins, open, pos, entry, opened, fate>>

RemoveEntry ==
  /\ Recipient("remove", "online")
  /\ entry' = NoHandle
  /\ userFile' = NoHandle
  /\ UNCHANGED <<session, logins, content, open, pos, opened, fate>>

\* LogoutClient, or the answer to the exit of a client that is logged in.
Logout ==
  /\ Recipient("online", "away")
  /\ session' = FALSE
  /\ UNCHANGED <<userFile, logins, disk, fate>>

\* The client of a connection prints no more: it has typed exit, which the handler
\* of the connection may yet have to see, or its receiving thread has ended.
FallSilent(c) ==
  /\ "silent" \in FaultKinds
  /\ c \notin silent
  /\ silent' = silent \cup {c}
  /\ UNCHANGED <<recipient, sender, disk, stops, fate>>

---------------------------------------------------------------------------
(* ProcessMsg, and ProcessBroadcast for this user.                          *)

Sender(s, from, to) ==
  /\ pc[s] = from
  /\ pc' = [pc EXCEPT ![s] = to]
  /\ UNCHANGED <<recipient, silent, stops>>

Send(s) ==
  /\ sent < MaxSent
  /\ Sender(s, "idle", "lookup")
  /\ sent' = sent + 1
  /\ msg' = [msg EXCEPT ![s] = sent']
  /\ UNCHANGED <<file, target, acked, disk, fate>>

\* HtHasKey and HtGetKeyValue on gUsersMapping, under the shared lock.
Lookup(s) ==
  /\ Sender(s, "lookup", IF session THEN "direct" ELSE "find")
  /\ target' = [target EXCEPT ![s] = IF session THEN logins ELSE @]
  /\ UNCHANGED <<msg, file, sent, acked, disk, fate>>

\* The text is sent through the pointer after the lock was released.
SendDirect(s) ==
  /\ Sender(s, "direct", "reply")
  /\ Deliver(<<msg[s]>>, target[s])
  /\ UNCHANGED <<msg, file, target, sent, acked, disk>>

Find(s) ==
  /\ Sender(s, "find", IF entry = NoHandle THEN "open" ELSE "get")
  /\ UNCHANGED <<msg, file, target, sent, acked, disk, fate>>

Open(s) ==
  /\ Sender(s, "open", "get")
  /\ OpenUnlessPresent
  /\ UNCHANGED <<msg, file, target, sent, acked, fate>>

Get(s) ==
  /\ Sender(s, "get", "write")
  /\ entry # NoHandle
  /\ file' = [file EXCEPT ![s] = entry]
  /\ UNCHANGED <<msg, target, sent, acked, disk, fate>>

\* Mutant: the handle is opened anew, at the start of the file.
WriteOver(s) ==
  /\ Sender(s, "write", "reply")
  /\ IF file[s] \in open
     THEN /\ content' = <<msg[s]>> \o SubSeq(content, 2, Len(content))
          /\ pos' = 1
     ELSE UNCHANGED <<content, pos>>
  /\ UNCHANGED <<msg, file, target, sent, acked, open, entry, opened, fate>>

\* WriteFile appends and leaves the pointer at the end.  The number of a closed
\* handle names nothing, another user's file, or a later handle of this one.
Write(s) ==
  /\ Sender(s, "write", "reply")
  /\ \/ /\ open # {}
        /\ content' = Append(content, msg[s])
        /\ pos' = Len(content')
     \/ file[s] \notin open /\ UNCHANGED <<content, pos>>
  /\ UNCHANGED <<msg, file, target, sent, acked, open, entry, opened, fate>>

\* The result of WriteFile is not looked at.
WriteFails(s) ==
  /\ "write" \in FaultKinds
  /\ Sender(s, "write", "reply")
  /\ failed' = failed \cup {msg[s]}
  /\ UNCHANGED <<msg, file, target, sent, acked, disk, printed, missed>>

Reply(s) ==
  /\ Sender(s, "reply", "idle")
  /\ acked' = acked \cup {msg[s]}
  /\ msg' = [msg EXCEPT ![s] = 0]
  /\ file' = [file EXCEPT ![s] = NoHandle]
  /\ target' = [target EXCEPT ![s] = 0]
  /\ UNCHANGED <<sent, disk, fate>>

---------------------------------------------------------------------------
(* The end of the process: by a pointer that HtGetKeyValue did not set, or    *)
(* from outside.  The file and its contents stay.                            *)

Stop ==
  /\ stops' = stops + 1
  /\ session' = FALSE
  /\ at' = "away"
  /\ userFile' = NoHandle
  /\ pc' = [s \in Senders |-> "idle"]
  /\ msg' = [s \in Senders |-> 0]
  /\ file' = [s \in Senders |-> NoHandle]
  /\ target' = [s \in Senders |-> 0]
  /\ silent' = silent \cup 1..logins
  /\ open' = {} /\ entry' = NoHandle
  /\ pos' = 0
  /\ UNCHANGED <<logins, sent, acked, content, opened, fate>>

\* WriteFile(*file, ...) with file = NULL.
GetMissing(s) ==
  /\ pc[s] = "get" /\ entry = NoHandle
  /\ Stop

Restart == "restart" \in FaultKinds /\ stops < MaxStops /\ Stop

Drain ==
  /\ \/ LoginFind \/ LoginOpen \/ LoginGet \/ LoginRewind \/ ReadPending \/ EndOfPending
     \/ ReadFails \/ ClosePending \/ DeletePending \/ RemoveEntry
  /\ NoteLate

Serve(s) ==
  /\ \/ Lookup(s) \/ SendDirect(s) \/ Find(s) \/ Open(s) \/ Get(s) \/ Write(s) \/ WriteFails(s)
     \/ Reply(s) \/ GetMissing(s)
  /\ NoteLate

Arrive ==
  /\ \/ Login \/ Logout \/ Restart
     \/ \E c \in 1..logins : FallSilent(c)
     \/ \E s \in Senders : Send(s)
  /\ NoteLate

Next == Drain \/ Arrive \/ \E s \in Senders : Serve(s)

Spec == Init /\ [][Next]_vars

FairSpec == Spec /\ WF_vars(Drain) /\ \A s \in Senders : WF_vars(Serve(s))

---------------------------------------------------------------------------
(* Properties.                                                              *)

\* Every variable has its type; at most one handle of the file is open.
TypeOK ==
  /\ session \in BOOLEAN
  /\ content \in Seq(1..MaxSent)
  /\ open \in SUBSET (1..opened) /\ Cardinality(open) <= 1
  /\ pos \in Nat
  /\ entry \in 0..opened
  /\ at \in {"away", "find", "open", "get", "rewind", "read", "close", "delete",
             "remove", "online"}
  /\ userFile \in 0..opened
  /\ pc \in [Senders -> {"idle", "lookup", "direct", "find", "open", "get", "write", "reply"}]
  /\ msg \in [Senders -> 0..MaxSent]
  /\ file \in [Senders -> 0..opened]
  /\ target \in [Senders -> 0..MaxLogins] /\ silent \subseteq 1..MaxLogins
  /\ sent \in 0..MaxSent /\ logins \in 0..MaxLogins /\ stops \in 0..(MaxStops + MaxSent)
  /\ \A S \in {acked, late, missed, failed} : S \subseteq 1..MaxSent

\* CreateFile never finds the file open, so its loop never spins with the lock
\* of gUsersFiles held: the handle is closed before the entry is removed.
OpenNeverSpins == entry = NoHandle => open = {}

\* An acknowledged message is printed or in the file, unless a write overlapped the
\* drain (it was on its way then, or unread), its WriteFile or ReadFile failed, or it
\* was sent to a client that read no more.  The end of the process loses none.
KeptUnless ==
  \A m \in acked : m \in ToSet(printed) \cup ToSet(content) \cup late \cup failed \cup missed

\* The process dies of a missing entry only in that same overlap.
DiesOnlyWhenLate ==
  [][\A s \in Senders : GetMissing(s) => msg[s] \in late]_vars

\* A message is printed once, or once more for each time the process ended
\* between the sending of the file and its deletion.
PrintedOnce ==
  \A m \in 1..sent : Cardinality({i \in DOMAIN printed : printed[i] = m}) <= 1 + stops

\* When logins and messages stop coming, every login has got to the end of its
\* drain and every sender to its reply.
HandlersEnd == <>[](at \in {"online", "away"} /\ \A s \in Senders : pc[s] = "idle")

\* An acknowledged message reaches the user or waits in the file.
NoLostMessage == \A m \in acked : m \in ToSet(printed) \cup ToSet(content)
=============================================================================
