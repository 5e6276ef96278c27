---------------------------- MODULE MailboxProofs ----------------------------
(***************************************************************************)
(* What holds of a user's mailbox for any number of senders, messages,       *)
(* logins and ends of the process: the handle and the waiting messages.      *)
(***************************************************************************)
EXTENDS Mailbox, SequenceTheorems, FiniteSetTheorems, TLAPS

---------------------------------------------------------------------------
(* The inductive invariant.                                                 *)

SenderPlaces == {"idle", "lookup", "direct", "find", "open", "get", "write", "reply"}

Shape ==
  /\ content \in Seq(Nat) /\ printed \in Seq(Nat)
  /\ pos \in Nat /\ entry \in Nat /\ opened \in Nat /\ sent \in Nat
  /\ pc \in [Senders -> SenderPlaces]
  /\ msg \in [Senders -> Nat]
  /\ file \in [Senders -> Nat]

\* The entry and the open handle come and go together, but for the login's close.
Handles ==
  /\ at \in {"get", "rewind", "read", "close", "delete", "remove"} => entry # NoHandle
  /\ at \in {"rewind", "read", "close"} => userFile = entry
  /\ open = IF entry = NoHandle \/ at \in {"delete", "remove"} THEN {} ELSE {entry}

\* Where an accepted message can be found, and where it was on account of which it
\* cannot.
Saved == ToSet(printed) \cup ToSet(content) \cup late \cup failed \cup missed

\* A message that may miss the drain is noted.
Overlaps ==
  /\ Draining => \A s \in Storing : msg[s] \in late
  /\ Draining /\ Storing # {} => Unread \subseteq late

\* A sender with a stale handle, or none, got so far during a drain.
Stale ==
  \A s \in Senders :
    /\ pc[s] = "write" /\ file[s] \notin open => msg[s] \in late
    /\ pc[s] = "get" /\ entry = NoHandle => msg[s] \in late

\* The messages that are not left to the file.
Past == ToSet(printed) \cup late \cup failed \cup missed

\* What the login has read, and in the end all of the file, is past.
Drained ==
  /\ at = "read" => \A i \in 1..Len(content) : i <= pos => content[i] \in Past
  /\ at \in {"close", "delete"} => ToSet(content) \subseteq Past

Kept ==
  /\ \A s \in Senders : pc[s] = "reply" => msg[s] \in Saved
  /\ acked \subseteq Saved

IInv == Shape /\ Handles /\ Overlaps /\ Stale /\ Drained /\ Kept

---------------------------------------------------------------------------
(* Sets of messages.                                                        *)

\* Appending a message adds it to the set.
LEMMA SetOfAppend ==
  ASSUME NEW s \in Seq(Nat), NEW m \in Nat
  PROVE  ToSet(Append(s, m)) = ToSet(s) \cup {m}
BY AppendProperties DEF ToSet

\* So does printing a sequence of messages, for all of them.
LEMMA SetOfConcat ==
  ASSUME NEW s \in Seq(Nat), NEW t \in Seq(Nat)
  PROVE  ToSet(s \o t) = ToSet(s) \cup ToSet(t)
<1>1. /\ Len(s) \in Nat /\ Len(t) \in Nat /\ Len(s \o t) = Len(s) + Len(t)
      /\ DOMAIN s = 1..Len(s) /\ DOMAIN t = 1..Len(t) /\ DOMAIN (s \o t) = 1..Len(s \o t)
      /\ \A i \in 1..(Len(s) + Len(t)) :
           (s \o t)[i] = IF i <= Len(s) THEN s[i] ELSE t[i - Len(s)]
  BY ConcatProperties
<1>2. ToSet(s \o t) \subseteq ToSet(s) \cup ToSet(t)
  BY <1>1 DEF ToSet
<1>3. ToSet(s) \subseteq ToSet(s \o t)
  BY <1>1 DEF ToSet
<1>4. ASSUME NEW i \in 1..Len(t) PROVE t[i] \in ToSet(s \o t)
  <2>1. Len(s) + i \in 1..(Len(s) + Len(t)) /\ (s \o t)[Len(s) + i] = t[i]
    BY <1>1
  <2> QED BY <1>1, <2>1 DEF ToSet
<1> QED BY <1>1, <1>2, <1>3, <1>4 DEF ToSet

\* One ReadFile returns every message that it passes.
LEMMA ReadPart ==
  ASSUME NEW s \in Seq(Nat), NEW from \in Nat, NEW end \in (from + 1)..Len(s)
  PROVE  /\ SubSeq(s, from + 1, end) \in Seq(Nat)
         /\ \A i \in (from + 1)..end : s[i] \in ToSet(SubSeq(s, from + 1, end))
<1> DEFINE part == SubSeq(s, from + 1, end)
<1>1. /\ part \in Seq(Nat) /\ Len(part) = end - from
      /\ \A i \in 1..(end - from) : part[i] = s[from + i]
  BY SubSeqProperties, LenProperties
<1>2. ASSUME NEW i \in (from + 1)..end PROVE s[i] \in ToSet(part)
  <2>1. i - from \in 1..Len(part) /\ part[i - from] = s[i]
    BY <1>1
  <2> QED BY <1>1, <2>1, LenProperties DEF ToSet
<1> QED BY <1>1, <1>2

---------------------------------------------------------------------------
(* What every step keeps.                                                   *)

\* What overlaps a drain is noted when it does.
LEMMA LateNoted ==
  ASSUME NoteLate
  PROVE  /\ late \subseteq late'
         /\ Draining' => \A s \in Storing' : msg'[s] \in late'
         /\ Draining' /\ Storing' # {} => Unread' \subseteq late'
BY DEF NoteLate

\* What is delivered is printed, or the client read no more.
LEMMA Delivered ==
  ASSUME NEW m \in Seq(Nat), NEW c, Deliver(m, c), printed \in Seq(Nat)
  PROVE  /\ printed' \in Seq(Nat) /\ failed' = failed /\ missed \subseteq missed'
         /\ ToSet(printed) \subseteq ToSet(printed')
         /\ ToSet(m) \subseteq ToSet(printed') \cup missed'
<1>1. CASE printed' = printed \o m /\ UNCHANGED missed
  BY <1>1, SetOfConcat, ConcatProperties DEF Deliver
<1>2. CASE missed' = missed \cup ToSet(m) /\ UNCHANGED printed
  BY <1>2 DEF Deliver
<1> QED BY <1>1, <1>2 DEF Deliver

\* Nothing that is saved is lost, and nothing new is answered.
LEMMA KeptGrows ==
  ASSUME Kept, Saved \subseteq Saved', acked' = acked,
         \A s \in Senders : pc'[s] = "reply" => pc[s] = "reply" /\ msg'[s] = msg[s]
  PROVE  Kept'
BY DEF Kept

\* CreateFile is only called when the file is not open.
LEMMA Opened ==
  ASSUME Shape, Handles, OpenUnlessPresent, at \notin {"delete", "remove"}
  PROVE  /\ entry' \in Nat /\ opened' \in Nat /\ pos' \in Nat /\ content' = content
         /\ entry' # NoHandle /\ open' = {entry'}
         /\ entry # NoHandle => UNCHANGED disk
         /\ open \subseteq open'
<1>1. CASE entry # NoHandle
  BY <1>1 DEF OpenUnlessPresent, disk, Shape, Handles
<1>2. CASE entry = NoHandle
  BY <1>2 DEF OpenUnlessPresent, disk, Shape, Handles, NoHandle
<1> QED BY <1>1, <1>2

---------------------------------------------------------------------------
(* Init and the steps of the login.                                         *)

\* It holds before the first login and the first message.
LEMMA InitInvariant == Init => IInv
<1> SUFFICES ASSUME Init PROVE IInv
  OBVIOUS
<1>1. Shape
  BY EmptySeq DEF Init, Shape, SenderPlaces, NoHandle
<1>2. Handles /\ Overlaps /\ Stale /\ Drained /\ Kept
  BY DEF Init, Handles, Overlaps, Draining, Stale, Drained, Kept
<1> QED BY <1>1, <1>2 DEF IInv

\* The login's steps that neither read nor touch the file.
LEMMA DrainQuietly ==
  ASSUME IInv, NoteLate, LoginFind \/ LoginOpen \/ LoginGet \/ LoginRewind
  PROVE  IInv'
<1> USE DEF IInv, Shape, Recipient, sender, NoHandle
<1>1. late \subseteq late' /\ Overlaps'
  BY LateNoted DEF Overlaps
<1>2. UNCHANGED <<sender, content, fate>>
  BY DEF LoginFind, LoginOpen, LoginGet, LoginRewind, OpenUnlessPresent, disk
<1>3. Kept'
  BY <1>1, <1>2, KeptGrows DEF Saved, fate
<1>4. CASE LoginFind
  <2>1. Shape' /\ Handles' /\ Stale' /\ Drained'
    BY <1>1, <1>4 DEF LoginFind, disk, fate, Handles, Stale, Drained
  <2> QED BY <1>1, <1>3, <2>1
<1>5. CASE LoginOpen
  <2>1. at = "open" /\ at' = "get" /\ OpenUnlessPresent
    BY <1>5 DEF LoginOpen
  <2>2. Shape' /\ Handles'
    BY <1>2, <2>1, Opened DEF Handles, fate
  <2>3. Stale' /\ Drained'
    BY <1>1, <1>2, <2>1, Opened DEF Stale, Drained
  <2> QED BY <1>1, <1>3, <2>2, <2>3
<1>6. CASE LoginGet
  <2>1. Shape' /\ Handles' /\ Stale' /\ Drained'
    BY <1>1, <1>6 DEF LoginGet, disk, fate, Handles, Stale, Drained
  <2> QED BY <1>1, <1>3, <2>1
<1>7. CASE LoginRewind
  <2>1. Shape' /\ Handles' /\ Stale'
    BY <1>1, <1>7 DEF LoginRewind, fate, Handles, Stale
  <2>2. Drained'
    BY <1>7 DEF LoginRewind, Drained
  <2> QED BY <1>1, <1>3, <2>1, <2>2
<1> QED BY <1>4, <1>5, <1>6, <1>7

\* The login reads: what it passes is printed, or sent to a client that reads no more.
LEMMA DrainReads ==
  ASSUME IInv, NoteLate, ReadPending \/ EndOfPending \/ ReadFails
  PROVE  IInv'
<1> USE DEF IInv, Shape, NoHandle
<1>1. late \subseteq late' /\ Overlaps'
  BY LateNoted DEF Overlaps
<1>2. Len(content) \in Nat /\ DOMAIN content = 1..Len(content)
  BY LenProperties
<1>3. CASE ReadPending
  <2>1. PICK end \in (pos + 1)..Len(content) :
           Deliver(SubSeq(content, pos + 1, end), logins) /\ pos' = end
    BY <1>3 DEF ReadPending
  <2>2. UNCHANGED <<recipient, sender, content, open, entry, opened>> /\ at = "read"
    BY <1>3 DEF ReadPending
  <2> DEFINE part == SubSeq(content, pos + 1, end)
  <2>3. part \in Seq(Nat) /\ \A i \in (pos + 1)..end : content[i] \in ToSet(part)
    BY ReadPart
  <2>4. Deliver(part, logins)
    BY <2>1
  <2> HIDE DEF part
  <2>5. /\ printed' \in Seq(Nat) /\ failed' = failed /\ missed \subseteq missed'
        /\ ToSet(printed) \subseteq ToSet(printed')
        /\ ToSet(part) \subseteq ToSet(printed') \cup missed'
    BY <2>3, <2>4, Delivered
  <2>6. Shape' /\ Handles' /\ Stale'
    BY <1>1, <1>2, <2>1, <2>2, <2>5 DEF recipient, sender, Handles, Stale
  <2>7. \A i \in 1..Len(content') : i <= pos' => content'[i] \in Past'
    BY <1>1, <1>2, <2>1, <2>2, <2>3, <2>5 DEF Drained, Past
  <2>8. Drained'
    BY <2>2, <2>7 DEF Drained, recipient
  <2>9. Kept'
    BY <1>1, <2>2, <2>5, KeptGrows DEF Saved, sender
  <2> QED BY <1>1, <2>6, <2>8, <2>9
<1>4. CASE EndOfPending
  <2>1. UNCHANGED <<sender, disk, fate, userFile>> /\ at = "read" /\ at' = "close"
        /\ pos >= Len(content)
    BY <1>4 DEF EndOfPending, Recipient
  <2>2. Shape' /\ Handles' /\ Stale'
    BY <1>1, <2>1 DEF sender, disk, fate, Handles, Stale
  <2>3. ToSet(content) \subseteq Past
    BY <1>2, <2>1 DEF Drained, ToSet
  <2>4. Drained'
    BY <1>1, <2>1, <2>3 DEF Drained, Past, disk, fate
  <2>5. Kept'
    BY <1>1, <2>1, KeptGrows DEF Saved, sender, disk, fate
  <2> QED BY <1>1, <2>2, <2>4, <2>5
<1>5. CASE ReadFails
  <2>1. UNCHANGED <<sender, disk, printed, missed, userFile>> /\ at = "read" /\ at' = "close"
        /\ failed' = failed \cup Unread
    BY <1>5 DEF ReadFails, Recipient
  <2>2. Shape' /\ Handles' /\ Stale'
    BY <1>1, <2>1 DEF sender, disk, Handles, Stale
  <2>3. \A i \in 1..Len(content) : content[i] \in Past \cup Unread
    <3>1. ASSUME NEW i \in 1..Len(content), i > pos PROVE content[i] \in Unread
      <4>1. Len(content) \in (pos + 1)..Len(content) /\ i \in (pos + 1)..Len(content)
        BY <1>2, <3>1
      <4> QED BY <4>1, ReadPart DEF Unread
    <3> QED BY <1>2, <2>1, <3>1 DEF Drained
  <2>4. ToSet(content) \subseteq Past'
    BY <1>1, <1>2, <2>1, <2>3 DEF Past, ToSet
  <2>5. Drained'
    BY <2>1, <2>4 DEF Drained, disk
  <2>6. Kept'
    BY <1>1, <2>1, KeptGrows DEF Saved, sender, disk
  <2> QED BY <1>1, <2>2, <2>5, <2>6
<1> QED BY <1>3, <1>4, <1>5

\* The login closes the file, deletes it and forgets the handle.  Who waits for
\* the handle, or holds it, is noted before it becomes stale.
LEMMA DrainEnds ==
  ASSUME IInv, NoteLate, ClosePending \/ DeletePending \/ RemoveEntry
  PROVE  IInv'
<1> USE DEF IInv, Shape, Recipient, sender, NoHandle
<1>1. late \subseteq late' /\ Overlaps'
  BY LateNoted DEF Overlaps
<1>2. UNCHANGED <<sender, fate>> /\ Draining
  BY DEF ClosePending, DeletePending, RemoveEntry, Draining
<1>3. \A s \in Senders : pc[s] \in {"get", "write"} => msg[s] \in late
  BY <1>2 DEF Overlaps, Storing
<1>4. Stale'
  BY <1>1, <1>2, <1>3 DEF Stale
<1>5. CASE ClosePending
  <2>1. Shape' /\ Handles' /\ Drained'
    BY <1>1, <1>5 DEF ClosePending, Handles, Drained, Past, fate
  <2>2. Kept'
    BY <1>1, <1>5, KeptGrows DEF ClosePending, Saved, fate
  <2> QED BY <1>1, <1>4, <2>1, <2>2
<1>6. CASE DeletePending
  <2>1. open = {} /\ content' = <<>> /\ content' \in Seq(Nat)
    BY <1>6, EmptySeq DEF DeletePending, Handles
  <2>2. Shape' /\ Handles' /\ Drained'
    BY <1>1, <1>6, <2>1 DEF DeletePending, Handles, Drained, fate
  <2>3. Saved \subseteq Saved'
    BY <1>1, <1>6 DEF DeletePending, Drained, Saved, Past, fate
  <2>4. Kept'
    BY <1>6, <2>3, KeptGrows DEF DeletePending
  <2> QED BY <1>1, <1>4, <2>2, <2>4
<1>7. CASE RemoveEntry
  <2>1. Shape' /\ Handles' /\ Drained'
    BY <1>1, <1>7 DEF RemoveEntry, Handles, Drained, fate
  <2>2. Kept'
    BY <1>1, <1>7, KeptGrows DEF RemoveEntry, Saved, fate
  <2> QED BY <1>1, <1>4, <2>1, <2>2
<1> QED BY <1>5, <1>6, <1>7

---------------------------------------------------------------------------
(* The steps of the senders, and the rest.                                  *)

\* Before its write a sender takes a handle of the open file, or is late.
LEMMA ServeBefore ==
  ASSUME IInv, NoteLate, NEW s \in Senders,
         Lookup(s) \/ SendDirect(s) \/ Find(s) \/ Open(s) \/ Get(s)
  PROVE  IInv'
<1> USE DEF IInv, Shape, Sender, SenderPlaces, recipient, NoHandle
<1>1. late \subseteq late' /\ Overlaps'
  BY LateNoted DEF Overlaps
<1>2. CASE Lookup(s) \/ Find(s)
  <2>1. Shape' /\ Handles' /\ Stale' /\ Drained'
    BY <1>1, <1>2 DEF Lookup, Find, disk, fate, Handles, Stale, Drained, Past
  <2>2. Kept'
    BY <1>1, <1>2, KeptGrows DEF Lookup, Find, disk, fate, Saved
  <2> QED BY <1>1, <2>1, <2>2
<1>3. CASE SendDirect(s)
  <2>1. /\ printed' \in Seq(Nat) /\ failed' = failed /\ missed \subseteq missed'
        /\ ToSet(printed) \subseteq ToSet(printed')
        /\ msg[s] \in ToSet(printed') \cup missed'
    <3>1. <<msg[s]>> \in Seq(Nat) /\ msg[s] \in ToSet(<<msg[s]>>)
      <4>1. <<msg[s]>> \in Seq(Nat) /\ DOMAIN <<msg[s]>> = 1..1 /\ <<msg[s]>>[1] = msg[s]
        OBVIOUS
      <4> QED BY <4>1 DEF ToSet
    <3>2. Deliver(<<msg[s]>>, target[s])
      BY <1>3 DEF SendDirect
    <3> QED BY <3>1, <3>2, Delivered
  <2>2. Shape' /\ Handles' /\ Stale' /\ Drained'
    BY <1>1, <1>3, <2>1 DEF SendDirect, disk, Handles, Stale, Drained, Past
  <2>3. Saved \subseteq Saved' /\ msg[s] \in Saved'
    BY <1>1, <1>3, <2>1 DEF SendDirect, disk, Saved
  <2>4. Kept'
    BY <1>3, <2>3 DEF SendDirect, Kept
  <2> QED BY <1>1, <2>2, <2>4
<1>4. CASE Open(s)
  <2>1. /\ pc' = [pc EXCEPT ![s] = "get"] /\ OpenUnlessPresent
        /\ UNCHANGED <<recipient, msg, file, sent, acked, fate>>
    BY <1>4 DEF Open
  <2>2. CASE entry # NoHandle
    <3>1. UNCHANGED disk
      BY <2>1, <2>2 DEF OpenUnlessPresent
    <3>2. Shape' /\ Handles' /\ Stale' /\ Drained'
      BY <1>1, <2>1, <2>2, <3>1 DEF disk, fate, Handles, Stale, Drained, Past
    <3>3. Kept'
      BY <1>1, <2>1, <3>1, KeptGrows DEF Saved, disk, fate
    <3> QED BY <1>1, <3>2, <3>3
  <2>3. CASE entry = NoHandle
    <3>1. at \notin {"get", "rewind", "read", "close", "delete", "remove"}
      BY <2>3 DEF Handles
    <3>2. /\ entry' \in Nat /\ opened' \in Nat /\ pos' \in Nat /\ content' = content
          /\ entry' # NoHandle /\ open' = {entry'} /\ open \subseteq open'
      BY <2>1, <3>1, Opened
    <3>3. Shape' /\ Handles' /\ Stale' /\ Drained'
      BY <1>1, <2>1, <3>1, <3>2 DEF Handles, Stale, Drained, fate
    <3>4. Kept'
      BY <1>1, <2>1, <3>2, KeptGrows DEF Saved, fate
    <3> QED BY <1>1, <3>3, <3>4
  <2> QED BY <2>2, <2>3
<1>5. CASE Get(s)
  <2>1. Shape' /\ Handles' /\ Drained'
    BY <1>1, <1>5 DEF Get, disk, fate, Handles, Drained, Past
  <2>2. CASE Draining
    <3>1. msg[s] \in late
      BY <1>5, <2>2 DEF Get, Overlaps, Storing
    <3>2. Stale'
      BY <1>1, <1>5, <3>1 DEF Get, disk, Stale
    <3> QED BY <1>1, <1>5, <2>1, <3>2, KeptGrows DEF Get, Saved, disk, fate
  <2>3. CASE ~Draining
    <3>1. open = {entry}
      BY <1>5, <2>3 DEF Get, Handles, Draining
    <3>2. Stale'
      BY <1>1, <1>5, <3>1 DEF Get, disk, Stale
    <3> QED BY <1>1, <1>5, <2>1, <3>2, KeptGrows DEF Get, Saved, disk, fate
  <2> QED BY <2>2, <2>3
<1> QED BY <1>2, <1>3, <1>4, <1>5

\* A write puts the message into the file, or was late.  During the drain it
\* moves the pointer past messages that are noted.
LEMMA ServeWrite ==
  ASSUME IInv, NoteLate, NEW s \in Senders, Write(s)
  PROVE  IInv'
<1> USE DEF IInv, Shape, Sender, SenderPlaces, recipient, NoHandle
<1>1. late \subseteq late' /\ Overlaps'
  BY LateNoted DEF Overlaps
<1>2. /\ pc[s] = "write" /\ pc' = [pc EXCEPT ![s] = "reply"]
      /\ UNCHANGED <<recipient, msg, file, sent, acked, open, entry, opened, printed, missed, failed>>
  BY DEF Write, fate
<1>3. Handles' /\ Stale'
  BY <1>1, <1>2 DEF Handles, Stale
<1>4. CASE open # {} /\ content' = Append(content, msg[s]) /\ pos' = Len(content')
  <2>1. /\ content' \in Seq(Nat) /\ Len(content) \in Nat /\ Len(content') = Len(content) + 1
        /\ \A i \in 1..Len(content) : content'[i] = content[i]
        /\ content'[Len(content) + 1] = msg[s]
    BY <1>4, AppendProperties, LenProperties
  <2>2. ToSet(content') = ToSet(content) \cup {msg[s]}
    BY <1>4, SetOfAppend
  <2>3. Shape'
    BY <1>2, <1>4, <2>1
  <2>4. Kept'
    BY <1>1, <1>2, <2>2 DEF Kept, Saved
  <2>5. CASE ~Draining
    BY <1>1, <1>2, <1>3, <2>3, <2>4, <2>5 DEF Draining, Drained
  <2>6. CASE Draining
    <3>1. msg[s] \in late /\ Unread \subseteq late
      BY <1>2, <2>6 DEF Overlaps, Storing
    <3>2. at' = "read" => \A i \in 1..Len(content') :
            i <= pos' => content'[i] \in Past'
      <4> SUFFICES ASSUME at = "read", NEW i \in 1..Len(content')
                   PROVE  content'[i] \in Past
        BY <1>1, <1>2 DEF Past
      <4>1. CASE i = Len(content) + 1
        BY <2>1, <3>1, <4>1 DEF Past
      <4>2. CASE i <= pos /\ i <= Len(content)
        <5>1. i \in 1..Len(content) /\ content'[i] = content[i]
          BY <2>1, <4>2
        <5>2. content[i] \in Past
          BY <4>2, <5>1 DEF Drained
        <5> QED BY <5>1, <5>2
      <4>3. CASE i > pos /\ i <= Len(content)
        <5>1. Len(content) \in (pos + 1)..Len(content) /\ i \in (pos + 1)..Len(content)
          BY <2>1, <4>3
        <5>2. content[i] \in Unread
          BY <5>1, ReadPart DEF Unread
        <5> QED BY <2>1, <3>1, <4>3, <5>2 DEF Past
      <4> QED BY <2>1, <4>1, <4>2, <4>3
    <3>3. Drained'
      BY <1>1, <1>2, <2>2, <3>1, <3>2 DEF Drained, Past
    <3> QED BY <1>1, <1>3, <2>3, <2>4, <3>3
  <2> QED BY <2>5, <2>6
<1>5. CASE file[s] \notin open /\ UNCHANGED <<content, pos>>
  <2>1. Shape' /\ Drained'
    BY <1>1, <1>2, <1>5 DEF Drained, Past
  <2>2. msg[s] \in late
    BY <1>2, <1>5 DEF Stale
  <2>3. Kept'
    BY <1>1, <1>2, <1>5, <2>2 DEF Kept, Saved
  <2> QED BY <1>1, <1>3, <2>1, <2>3
<1> QED BY <1>4, <1>5 DEF Write

\* A write that fails is noted.
LEMMA ServeWriteFails ==
  ASSUME IInv, NoteLate, NEW s \in Senders, WriteFails(s)
  PROVE  IInv'
<1> USE DEF IInv, Shape, Sender, SenderPlaces, recipient, NoHandle
<1>1. late \subseteq late' /\ Overlaps'
  BY LateNoted DEF Overlaps
<1>2. Shape' /\ Handles' /\ Stale' /\ Drained'
  BY <1>1 DEF WriteFails, disk, Handles, Stale, Drained, Past
<1>3. Kept'
  BY <1>1 DEF WriteFails, disk, Kept, Saved
<1> QED BY <1>1, <1>2, <1>3

\* An answered message is where it was before.
LEMMA ServeReply ==
  ASSUME IInv, NoteLate, NEW s \in Senders, Reply(s)
  PROVE  IInv'
<1> USE DEF IInv, Shape, Sender, SenderPlaces, recipient, NoHandle
<1>1. late \subseteq late' /\ Overlaps'
  BY LateNoted DEF Overlaps
<1>2. Shape' /\ Handles' /\ Stale' /\ Drained'
  BY <1>1 DEF Reply, disk, fate, Handles, Stale, Drained, Past
<1>3. Kept'
  BY <1>1 DEF Reply, disk, fate, Kept, Saved
<1> QED BY <1>1, <1>2, <1>3

\* The file and the printed messages outlive the process; its handle does not.
LEMMA StopStep ==
  ASSUME IInv, NoteLate, Stop
  PROVE  IInv'
<1> USE DEF IInv, Shape, SenderPlaces, NoHandle, Stop
<1>1. late \subseteq late' /\ Overlaps'
  BY LateNoted DEF Overlaps
<1>2. Shape' /\ Handles' /\ Stale' /\ Drained'
  BY DEF Handles, Stale, Drained, fate
<1>3. Kept'
  BY <1>1, KeptGrows DEF Saved, fate
<1> QED BY <1>1, <1>2, <1>3

\* Who comes and goes, but for the process.
Turns == Login \/ Logout \/ \E c \in 1..logins : FallSilent(c)

Comes ==
  \/ Turns
  \/ \E s \in Senders : Send(s)

\* A login or a message that begins, a logout, and a client that reads no more move
\* nothing.
LEMMA Arrivals ==
  ASSUME IInv, NoteLate, Comes
  PROVE  IInv'
<1> USE DEF IInv, Shape, SenderPlaces, NoHandle, recipient, sender, disk, fate, Past
<1>1. late \subseteq late' /\ Overlaps'
  BY LateNoted DEF Overlaps
<1>2. CASE Login \/ Logout
  <2>1. Shape' /\ Handles' /\ Stale' /\ Drained'
    BY <1>1, <1>2 DEF Login, Logout, Recipient, Handles, Stale, Drained
  <2>2. Kept'
    BY <1>1, <1>2, KeptGrows DEF Login, Logout, Recipient, Saved
  <2> QED BY <1>1, <2>1, <2>2
<1>3. ASSUME NEW s \in Senders, Send(s) PROVE IInv'
  <2>1. Shape' /\ Handles' /\ Stale' /\ Drained'
    BY <1>1, <1>3 DEF Send, Sender, Handles, Stale, Drained
  <2>2. Kept'
    BY <1>1, <1>3, KeptGrows DEF Send, Sender, Saved
  <2> QED BY <1>1, <2>1, <2>2
<1>4. ASSUME NEW c \in 1..logins, FallSilent(c) PROVE IInv'
  <2>1. Shape' /\ Handles' /\ Stale' /\ Drained'
    BY <1>1, <1>4 DEF FallSilent, Handles, Stale, Drained
  <2>2. Kept'
    BY <1>1, <1>4, KeptGrows DEF FallSilent, Saved
  <2> QED BY <1>1, <2>1, <2>2
<1> QED BY <1>2, <1>3, <1>4 DEF Comes, Turns

---------------------------------------------------------------------------
(* Theorems.                                                                *)

\* The invariant holds of the mailbox, whatever the order of login and senders.
THEOREM Inductive == Spec => []IInv
<1>1. IInv /\ [Next]_vars => IInv'
  <2> SUFFICES ASSUME IInv, [Next]_vars PROVE IInv'
    OBVIOUS
  <2>1. CASE UNCHANGED vars
    BY <2>1 DEF vars, recipient, sender, disk, fate, IInv, Shape, Handles, Overlaps, Stale,
                Drained, Kept, Draining, Storing, Unread, Saved, Past
  <2>2. CASE Drain
    BY <2>2, DrainQuietly, DrainReads, DrainEnds DEF Drain
  <2>3. CASE Arrive
    BY <2>3, Arrivals, StopStep DEF Arrive, Restart, Comes, Turns
  <2>4. ASSUME NEW s \in Senders, Serve(s) PROVE IInv'
    BY <2>4, ServeBefore, ServeWrite, ServeWriteFails, ServeReply, StopStep DEF Serve, GetMissing
  <2> QED BY <2>1, <2>2, <2>3, <2>4 DEF Next
<1> QED BY <1>1, InitInvariant, PTL DEF Spec

\* CreateFile never meets the open file, so that its loop does not spin with the
\* lock of gUsersFiles held (OpenNeverSpins).
THEOREM NeverSpins == Spec => []OpenNeverSpins
<1>1. IInv => OpenNeverSpins
  BY DEF IInv, Handles, OpenNeverSpins
<1> QED BY <1>1, Inductive, PTL

\* A message answered with Success is printed or in the file, unless it was on its way
\* or unread while a write overlapped the drain, its WriteFile or ReadFile failed, or it
\* was sent to a client that read no more (KeptUnless).
THEOREM AnsweredIsKept == Spec => []KeptUnless
<1>1. IInv => KeptUnless
  BY DEF IInv, Kept, Saved, KeptUnless
<1> QED BY <1>1, Inductive, PTL

\* The process dies of a missing handle only in that overlap (DiesOnlyWhenLate).
THEOREM DeathIsLate == Spec => DiesOnlyWhenLate
<1>1. IInv /\ [Next]_vars => [\A s \in Senders : GetMissing(s) => msg[s] \in late]_vars
  BY DEF IInv, Stale, GetMissing
<1> QED BY <1>1, Inductive, PTL DEF Spec, DiesOnlyWhenLate

---------------------------------------------------------------------------
(* Types.                                                                   *)

RecipientPlaces == {"away", "find", "open", "get", "rewind", "read", "close", "delete",
                    "remove", "online"}

\* The handles are those CreateFile gave out.
Handed == entry <= opened /\ userFile \in 0..opened /\ \A s \in Senders : file[s] <= opened

\* The messages are those sent so far.
Numbered ==
  /\ sent <= MaxSent
  /\ content \in Seq(1..sent) /\ printed \in Seq(1..sent)
  /\ \A s \in Senders : msg[s] <= sent /\ (pc[s] # "idle" => msg[s] \in 1..sent)
  /\ acked \subseteq 1..sent /\ late \subseteq 1..sent

\* The process dies of a missing handle at most once for each message.
Ended ==
  /\ stops \in Nat /\ stops <= MaxStops + sent
  /\ \A s \in Senders : pc[s] # "idle" => stops + 1 <= MaxStops + sent

\* What became of the others, and where they were sent.
Excused ==
  /\ target \in [Senders -> 0..MaxLogins] /\ silent \subseteq 1..MaxLogins
  /\ missed \subseteq 1..sent /\ failed \subseteq 1..sent

TInv ==
  /\ session \in BOOLEAN /\ at \in RecipientPlaces /\ logins \in 0..MaxLogins
  /\ Handed /\ Numbered /\ Ended

\* What is in a sequence over S is in S.
LEMMA ElementsIn ==
  ASSUME NEW S, NEW s \in Seq(S)
  PROVE  ToSet(s) \subseteq S
BY LenProperties DEF ToSet

\* A part of a sequence has elements of it.
LEMMA PartOf ==
  ASSUME NEW S, NEW s \in Seq(S), NEW from \in Nat, NEW end \in Nat, end <= Len(s)
  PROVE  /\ SubSeq(s, from + 1, end) \in Seq(S)
         /\ ToSet(SubSeq(s, from + 1, end)) \subseteq S
<1> DEFINE part == SubSeq(s, from + 1, end)
<1>1. Len(s) \in Nat
  BY LenProperties
<1>2. \A i \in (from + 1)..end : s[i] \in S
  <2>1. ASSUME NEW i \in (from + 1)..end PROVE s[i] \in S
    <3>1. i \in 1..Len(s)
      BY <1>1
    <3> QED BY <3>1, ElementOfSeq
  <2> QED BY <2>1
<1>3. part \in Seq(S)
  <2>1. from + 1 \in Int /\ end \in Int
    OBVIOUS
  <2> QED BY <1>2, <2>1, SubSeqProperties
<1> HIDE DEF part
<1>4. ToSet(part) \subseteq S
  BY <1>3, ElementsIn
<1> QED BY <1>3, <1>4 DEF part

\* Only messages that were sent are noted.
LEMMA LateIsNumbered ==
  ASSUME NoteLate, late \subseteq 1..sent, sent \in Nat, sent' \in Nat, sent <= sent',
         content' \in Seq(1..sent'), pos' \in Nat,
         \A s \in Senders : pc'[s] # "idle" => msg'[s] \in 1..sent'
  PROVE  late' \subseteq 1..sent'
<1>1. late \subseteq 1..sent'
  OBVIOUS
<1>2. Unread' \subseteq 1..sent'
  <2>1. PICK S : S = 1..sent'
    OBVIOUS
  <2>2. PICK c \in Seq(S) : c = content'
    BY <2>1
  <2>3. PICK n \in Nat : n = Len(c) /\ n <= Len(c)
    BY LenProperties
  <2>4. ToSet(SubSeq(c, pos' + 1, n)) \subseteq S
    BY <2>3, PartOf
  <2> QED BY <2>1, <2>2, <2>3, <2>4 DEF Unread
<1>3. {msg'[s] : s \in Storing'} \subseteq 1..sent'
  BY DEF Storing
<1> QED BY <1>1, <1>2, <1>3 DEF NoteLate

\* The types at the start.
LEMMA InitTypes == Init => TInv
<1> SUFFICES ASSUME Init PROVE TInv
  OBVIOUS
<1>1. content \in Seq(1..sent) /\ printed \in Seq(1..sent)
  BY EmptySeq DEF Init
<1>2. Handed /\ Numbered /\ Ended
  BY <1>1, MailboxAssumption DEF Init, Handed, Numbered, Ended, NoHandle
<1>3. session \in BOOLEAN /\ at \in RecipientPlaces /\ logins \in 0..MaxLogins
  <2>1. session \in BOOLEAN /\ at \in RecipientPlaces
    BY DEF Init, RecipientPlaces
  <2>2. logins \in 0..MaxLogins
    BY MailboxAssumption DEF Init
  <2> QED BY <2>1, <2>2
<1> QED BY <1>2, <1>3 DEF TInv

\* The steps of the login move the file and what it printed.
LEMMA DrainTypes ==
  ASSUME IInv, IInv', TInv, Drain
  PROVE  TInv'
<1> USE DEF TInv, Handed, Numbered, Ended, IInv, Shape
<1>1. UNCHANGED <<sender, stops, logins, session>> /\ at' \in RecipientPlaces
  <2>1. CASE ReadPending
    BY <2>1 DEF ReadPending, recipient
  <2>2. CASE ~ ReadPending
    BY <2>2 DEF Drain, LoginFind, LoginOpen, LoginGet, LoginRewind, EndOfPending, ReadFails,
         ClosePending, DeletePending, RemoveEntry, Recipient, RecipientPlaces
  <2> QED BY <2>1, <2>2
<1>2. Handed'
  <2>1. CASE LoginOpen
    BY <1>1, <2>1 DEF LoginOpen, OpenUnlessPresent, disk, sender
  <2>2. CASE ~ LoginOpen
    BY <1>1, <2>2 DEF Drain, LoginFind, LoginGet, LoginRewind, ReadPending, EndOfPending,
         ReadFails, ClosePending, DeletePending, RemoveEntry, recipient, sender, disk, NoHandle
  <2> QED BY <2>1, <2>2
<1>3. content' \in Seq(1..sent)
  <2>1. content' = content \/ content' = <<>>
    BY DEF Drain, LoginFind, LoginOpen, LoginGet, LoginRewind, ReadPending, EndOfPending,
         ReadFails, ClosePending, DeletePending, RemoveEntry, disk, OpenUnlessPresent
  <2> QED BY <2>1, EmptySeq
<1>4. printed' \in Seq(1..sent)
  <2>1. CASE ReadPending
    <3>1. PICK end \in (pos + 1)..Len(content) :
            printed' = printed \/ printed' = printed \o SubSeq(content, pos + 1, end)
      BY <2>1 DEF ReadPending, Deliver
    <3>2. end \in Nat /\ end <= Len(content)
      BY LenProperties
    <3>3. SubSeq(content, pos + 1, end) \in Seq(1..sent)
      BY <3>2, PartOf
    <3> QED BY <3>1, <3>3, ConcatProperties
  <2>2. CASE ~ ReadPending
    <3>1. printed' = printed
      BY <2>2 DEF Drain, LoginFind, LoginOpen, LoginGet, LoginRewind, EndOfPending,
         ReadFails, ClosePending, DeletePending, RemoveEntry, fate
    <3> QED BY <3>1
  <2> QED BY <2>1, <2>2
<1>5. late' \subseteq 1..sent'
  BY <1>1, <1>3, LateIsNumbered DEF Drain, sender
<1> QED BY <1>1, <1>2, <1>3, <1>4, <1>5 DEF sender

\* The steps of a sender.
LEMMA ServeTypes ==
  ASSUME IInv, IInv', TInv, NEW s \in Senders, Serve(s), ~ GetMissing(s)
  PROVE  TInv'
<1> USE DEF TInv, Handed, Numbered, Ended, IInv, Shape
<1>1. /\ pc[s] # "idle" /\ \E to : pc' = [pc EXCEPT ![s] = to]
      /\ UNCHANGED <<recipient, stops, sent>>
  BY DEF Serve, Lookup, SendDirect, Find, Open, Get, Write, WriteFails, Reply, Sender
<1>2. Handed'
  <2>1. CASE Open(s)
    BY <2>1 DEF Open, OpenUnlessPresent, disk, Sender, recipient
  <2>2. CASE ~ Open(s)
    <3>1. /\ UNCHANGED <<entry, opened, userFile>>
          /\ file' = file \/ file' = [file EXCEPT ![s] = entry]
               \/ file' = [file EXCEPT ![s] = NoHandle]
      BY <2>2 DEF Serve, Lookup, SendDirect, Find, Get, Write, WriteFails, Reply, Sender,
                  recipient, disk
    <3>2. ASSUME NEW t \in Senders PROVE file'[t] <= opened
      <4>1. file[t] <= opened /\ entry <= opened /\ 0 <= opened
        OBVIOUS
      <4> QED BY <3>1, <4>1 DEF NoHandle
    <3> QED BY <3>1, <3>2
  <2> QED BY <2>1, <2>2
<1>3. msg[s] \in 1..sent
  BY <1>1
<1>4. content' \in Seq(1..sent)
  <2>1. content' = content \/ content' = Append(content, msg[s])
    BY DEF Serve, Lookup, SendDirect, Find, Open, Get, Write, WriteFails, Reply, disk,
           OpenUnlessPresent
  <2>2. Append(content, msg[s]) \in Seq(1..sent)
    BY <1>3, AppendProperties
  <2> QED BY <2>1, <2>2
<1>5. printed' \in Seq(1..sent)
  <2>1. printed' = printed \/ printed' = Append(printed, msg[s])
    <3>1. <<msg[s]>> = <<msg[s]>> /\ printed \o <<msg[s]>> = Append(printed, msg[s])
      BY AppendIsConcat
    <3> QED BY <3>1 DEF Serve, Lookup, SendDirect, Find, Open, Get, Write, WriteFails, Reply,
                        Deliver, fate
  <2>2. Append(printed, msg[s]) \in Seq(1..sent)
    BY <1>3, AppendProperties
  <2> QED BY <2>1, <2>2
<1>6. \A t \in Senders : msg'[t] <= sent /\ (pc'[t] # "idle" => msg'[t] \in 1..sent)
  <2>1. CASE Reply(s)
    BY <2>1 DEF Reply, Sender
  <2>2. CASE ~ Reply(s)
    <3>1. msg' = msg
      BY <2>2 DEF Serve, Lookup, SendDirect, Find, Open, Get, Write, WriteFails
    <3> QED BY <1>1, <3>1
  <2> QED BY <2>1, <2>2
<1>7. acked' \subseteq 1..sent
  BY <1>3 DEF Serve, Lookup, SendDirect, Find, Open, Get, Write, WriteFails, Reply
<1>8. late' \subseteq 1..sent'
  BY <1>1, <1>4, <1>6, LateIsNumbered DEF Serve
<1>9. \A t \in Senders : pc'[t] # "idle" => stops + 1 <= MaxStops + sent
  BY <1>1
<1> QED BY <1>1, <1>2, <1>4, <1>5, <1>6, <1>7, <1>8, <1>9 DEF recipient

\* The process ends: no sender is left that could end it again.
LEMMA StopTypes ==
  ASSUME IInv, IInv', TInv, NoteLate, Stop, stops + 1 <= MaxStops + sent
  PROVE  TInv'
<1> USE DEF TInv, Handed, Numbered, Ended, IInv, Shape
<1>1. late' \subseteq 1..sent'
  BY LateIsNumbered DEF Stop
<1>2. Handed'
  BY DEF Stop, NoHandle
<1>3. Numbered'
  BY <1>1 DEF Stop, fate
<1>4. Ended'
  BY DEF Stop
<1> QED BY <1>2, <1>3, <1>4 DEF Stop, RecipientPlaces

\* Who comes.
LEMMA ArriveTypes ==
  ASSUME IInv, IInv', TInv, Arrive
  PROVE  TInv'
<1> USE DEF TInv, Handed, Numbered, Ended, IInv, Shape
<1>1. CASE Turns
  <2>1. UNCHANGED <<sender, disk, fate, stops>> /\ userFile' = userFile
    BY <1>1 DEF Turns, Login, Logout, FallSilent, Recipient, recipient
  <2>2. late' \subseteq 1..sent'
    BY <2>1, LateIsNumbered DEF Arrive, sender, disk
  <2>3. Handed' /\ Numbered' /\ Ended'
    BY <2>1, <2>2 DEF sender, disk, fate
  <2>4. session' \in BOOLEAN /\ at' \in RecipientPlaces /\ logins' \in 0..MaxLogins
    <3>1. CASE Login
      BY <3>1, MailboxAssumption DEF Login, Recipient, RecipientPlaces
    <3>2. CASE Logout
      BY <3>2 DEF Logout, Recipient, RecipientPlaces
    <3>3. CASE \E c \in 1..logins : FallSilent(c)
      BY <3>3 DEF FallSilent, recipient
    <3> QED BY <1>1, <3>1, <3>2, <3>3 DEF Turns
  <2> QED BY <2>3, <2>4
<1>2. CASE Restart
  <2>1. stops + 1 <= MaxStops + sent
    BY <1>2, MailboxAssumption DEF Restart
  <2> QED BY <1>2, <2>1, StopTypes DEF Restart, Arrive
<1>3. ASSUME NEW s \in Senders, Send(s) PROVE TInv'
  <2>1. /\ sent < MaxSent /\ sent' = sent + 1
        /\ pc' = [pc EXCEPT ![s] = "lookup"] /\ msg' = [msg EXCEPT ![s] = sent + 1]
        /\ UNCHANGED <<recipient, stops, file, acked, disk, printed>>
    BY <1>3 DEF Send, Sender, fate
  <2>2. 1..sent \subseteq 1..sent' /\ sent + 1 \in 1..sent'
    BY <2>1
  <2>3. \A t \in Senders : msg'[t] <= sent' /\ (pc'[t] # "idle" => msg'[t] \in 1..sent')
    BY <2>1, <2>2
  <2>4. content' = content /\ printed' = printed
    BY <2>1 DEF disk
  <2>5. content' \in Seq(1..sent') /\ printed' \in Seq(1..sent')
    BY <2>2, <2>4, SeqMonotonic
  <2>6. late' \subseteq 1..sent'
    BY <2>1, <2>3, <2>5, LateIsNumbered DEF Arrive
  <2>7. sent' <= MaxSent
    BY <2>1, MailboxAssumption
  <2>8. Numbered'
    BY <2>1, <2>2, <2>3, <2>4, <2>5, <2>6, <2>7
  <2>9. Handed'
    BY <2>1 DEF disk, recipient
  <2>10. Ended'
    BY <2>1, MailboxAssumption
  <2> QED BY <2>1, <2>8, <2>9, <2>10 DEF recipient
<1> QED BY <1>1, <1>2, <1>3 DEF Arrive, Turns

\* Every step keeps the types.
LEMMA NextTypes == IInv /\ IInv' /\ TInv /\ [Next]_vars => TInv'
<1> SUFFICES ASSUME IInv, IInv', TInv, [Next]_vars PROVE TInv'
  OBVIOUS
<1>1. CASE UNCHANGED vars
  BY <1>1 DEF vars, recipient, sender, disk, fate, TInv, Handed, Numbered, Ended
<1>2. CASE Drain
  BY <1>2, DrainTypes
<1>3. CASE Arrive
  BY <1>3, ArriveTypes
<1>4. ASSUME NEW s \in Senders, Serve(s) PROVE TInv'
  <2>1. CASE GetMissing(s)
    <3>1. NoteLate /\ Stop /\ stops + 1 <= MaxStops + sent
      BY <1>4, <2>1 DEF Serve, GetMissing, TInv, Ended
    <3> QED BY <3>1, StopTypes
  <2>2. CASE ~ GetMissing(s)
    BY <1>4, <2>2, ServeTypes
  <2> QED BY <2>1, <2>2
<1> QED BY <1>1, <1>2, <1>3, <1>4 DEF Next

\* Only messages that were sent are missed or fail, and only connections that were made
\* are looked up or fall silent.
LEMMA NextExcused == IInv /\ TInv /\ Excused /\ [Next]_vars => Excused'
<1> SUFFICES ASSUME IInv, TInv, Excused, [Next]_vars PROVE Excused'
  OBVIOUS
<1> USE DEF Excused
<1>1. content \in Seq(1..sent) /\ sent \in Nat /\ logins \in 0..MaxLogins /\ MaxLogins \in Nat
  BY MailboxAssumption DEF TInv, Numbered, IInv, Shape
<1>2. CASE UNCHANGED vars
  BY <1>2 DEF vars, sender, fate
<1>3. CASE Drain
  <2>1. UNCHANGED <<target, silent, sent>>
    BY <1>3 DEF Drain, LoginFind, LoginOpen, LoginGet, LoginRewind, ReadPending, EndOfPending,
         ReadFails, ClosePending, DeletePending, RemoveEntry, Recipient, sender
  <2>2. CASE ReadPending
    <3>1. PICK end \in (pos + 1)..Len(content) :
            /\ missed' = missed \/ missed' = missed \cup ToSet(SubSeq(content, pos + 1, end))
            /\ failed' = failed
      BY <2>2 DEF ReadPending, Deliver
    <3>2. end \in Nat /\ end <= Len(content) /\ pos \in Nat
      BY LenProperties DEF IInv, Shape
    <3>3. ToSet(SubSeq(content, pos + 1, end)) \subseteq 1..sent
      BY <1>1, <3>2, PartOf
    <3> QED BY <2>1, <3>1, <3>3
  <2>3. CASE ReadFails
    <3>1. Unread \subseteq 1..sent
      <4>1. Len(content) \in Nat /\ Len(content) <= Len(content) /\ pos \in Nat
        BY <1>1, LenProperties DEF IInv, Shape
      <4> QED BY <1>1, <4>1, PartOf DEF Unread
    <3> QED BY <2>1, <2>3, <3>1 DEF ReadFails
  <2>4. CASE ~ ReadPending /\ ~ ReadFails
    BY <1>3, <2>1, <2>4 DEF Drain, LoginFind, LoginOpen, LoginGet, LoginRewind, EndOfPending,
         ClosePending, DeletePending, RemoveEntry, fate
  <2> QED BY <2>2, <2>3, <2>4
<1>4. CASE Turns
  <2>1. UNCHANGED <<sender, fate>>
    BY <1>4 DEF Turns, Login, Logout, FallSilent, Recipient
  <2>2. silent' \subseteq silent \cup 1..logins
    <3>1. CASE Login \/ Logout
      BY <3>1 DEF Login, Logout, Recipient
    <3>2. ASSUME NEW c \in 1..logins, FallSilent(c) PROVE silent' \subseteq silent \cup 1..logins
      BY <3>2 DEF FallSilent
    <3> QED BY <1>4, <3>1, <3>2 DEF Turns
  <2> QED BY <1>1, <2>1, <2>2 DEF sender, fate
<1>5. CASE Stop
  BY <1>1, <1>5 DEF Stop, fate
<1>6. ASSUME NEW s \in Senders, Send(s) PROVE Excused'
  BY <1>1, <1>6 DEF Send, Sender, fate
<1>7. ASSUME NEW s \in Senders, Serve(s), ~ Stop PROVE Excused'
  <2>1. UNCHANGED <<silent, sent>> /\ pc[s] # "idle"
    BY <1>7 DEF Serve, Lookup, SendDirect, Find, Open, Get, Write, WriteFails, Reply, GetMissing,
                Sender
  <2>2. msg[s] \in 1..sent
    BY <2>1 DEF TInv, Numbered
  <2>3. target' \in [Senders -> 0..MaxLogins]
    BY <1>1, <1>7 DEF Serve, Lookup, SendDirect, Find, Open, Get, Write, WriteFails, Reply,
                      GetMissing
  <2>4. missed' \subseteq 1..sent /\ failed' \subseteq 1..sent
    <3>1. ToSet(<<msg[s]>>) = {msg[s]}
      BY DEF ToSet
    <3>2. CASE SendDirect(s)
      BY <2>2, <3>1, <3>2 DEF SendDirect, Deliver
    <3>3. CASE WriteFails(s)
      BY <2>2, <3>3 DEF WriteFails
    <3>4. CASE ~ SendDirect(s) /\ ~ WriteFails(s)
      BY <1>7, <3>4 DEF Serve, Lookup, Find, Open, Get, Write, Reply, GetMissing, fate
    <3> QED BY <3>2, <3>3, <3>4
  <2> QED BY <2>1, <2>3, <2>4
<1> QED BY <1>2, <1>3, <1>4, <1>5, <1>6, <1>7 DEF Next, Arrive, Turns, Restart

\* The types, and what keeps them, hold in every state.
LEMMA TypesHold == Spec => [](TInv /\ Excused)
<1>1. Init => Excused
  BY MailboxAssumption DEF Init, Excused
<1> QED BY <1>1, Inductive, InitTypes, NextTypes, NextExcused, PTL DEF Spec

\* Every variable has its type; one handle of the file is open at most, and the number of
\* ends of the process stays within its bound.
THEOREM TypeCorrect == Spec => []TypeOK
<1>1. ASSUME IInv, TInv, Excused PROVE TypeOK
  <2> USE <1>1 DEF IInv, TInv, Excused, Shape, Handed, Numbered, Ended
  <2>1. content \in Seq(1..MaxSent)
    <3>1. 1..sent \subseteq 1..MaxSent
      BY MailboxAssumption
    <3> QED BY <3>1, SeqMonotonic
  <2>2. open \in SUBSET (1..opened) /\ Cardinality(open) <= 1
    <3>1. CASE open = {}
      BY <3>1, FS_EmptySet
    <3>2. CASE open = {entry} /\ entry # NoHandle
      <4>1. Cardinality(open) = 1
        BY <3>2, FS_Singleton
      <4> QED BY <3>2, <4>1 DEF NoHandle
    <3> QED BY <3>1, <3>2 DEF Handles
  <2>3. /\ 1..sent \subseteq 1..MaxSent /\ 0..sent \subseteq 0..MaxSent
        /\ stops \in 0..(MaxStops + MaxSent)
    BY MailboxAssumption
  <2>4. msg \in [Senders -> 0..MaxSent] /\ file \in [Senders -> 0..opened]
    BY MailboxAssumption
  <2>5. \A S \in {acked, late, missed, failed} : S \subseteq 1..MaxSent
    BY <2>3
  <2>6. sent \in 0..MaxSent /\ userFile \in 0..opened /\ entry \in 0..opened
    BY MailboxAssumption
  <2> QED BY <2>1, <2>2, <2>3, <2>4, <2>5, <2>6
          DEF TypeOK, RecipientPlaces, SenderPlaces
<1> QED BY <1>1, Inductive, TypesHold, PTL

---------------------------------------------------------------------------
(* How often a message is printed.                                          *)

\* The senders that have not delivered their message.
Carrying(s) == pc[s] \in {"lookup", "direct", "find", "open", "get", "write"}

\* How often q has m.
Times(q, m) == Cardinality({i \in DOMAIN q : q[i] = m})

Distinct(q) == \A i, j \in 1..Len(q) : q[i] = q[j] => i = j

\* A message is with one sender, then at one place of the file.
OnePlace ==
  /\ \A s \in Senders : Carrying(s) => msg[s] \notin ToSet(printed) \cup ToSet(content)
  /\ \A s, t \in Senders : Carrying(s) /\ Carrying(t) /\ msg[s] = msg[t] => s = t
  /\ Distinct(content)

\* The messages of the file that a login may yet print: in a drain, those that it has
\* not passed; after its last read, none.
ToPrint(i) == at \notin {"read", "close", "delete"} \/ (at = "read" /\ i > pos)

\* A message that may yet be printed was printed in earlier lives of the process only, and
\* the drain leaves nothing in the file.
Counted ==
  /\ at = "remove" => content = <<>>
  /\ \A m \in Nat : Times(printed, m) <= 1 + stops
  /\ \A i \in 1..Len(content) : ToPrint(i) => Times(printed, content[i]) <= stops

\* The occurrences are finitely many, and none if the message is not in the sequence.
LEMMA TimesType ==
  ASSUME NEW q \in Seq(Nat), NEW m
  PROVE  /\ IsFiniteSet({i \in DOMAIN q : q[i] = m}) /\ Times(q, m) \in Nat
         /\ m \notin ToSet(q) => Times(q, m) = 0
<1> DEFINE I == {i \in DOMAIN q : q[i] = m}
<1>1. Len(q) \in Nat /\ DOMAIN q = 1..Len(q)
  BY LenProperties
<1>2. IsFiniteSet(1..Len(q)) /\ I \in SUBSET (1..Len(q))
  BY <1>1, FS_Interval
<1>3. IsFiniteSet(I)
  BY <1>2, FS_Subset
<1>4. m \notin ToSet(q) => I = {}
  BY DEF ToSet
<1> QED BY <1>3, <1>4, FS_CardinalityType, FS_EmptySet DEF Times

\* A sequence of different messages adds one occurrence of each.
LEMMA TimesConcat ==
  ASSUME NEW q \in Seq(Nat), NEW t \in Seq(Nat), Distinct(t), NEW m
  PROVE  Times(q \o t, m) = IF m \in ToSet(t) THEN Times(q, m) + 1 ELSE Times(q, m)
<1> DEFINE I == {i \in DOMAIN q : q[i] = m}  J == {i \in DOMAIN (q \o t) : (q \o t)[i] = m}
<1>1. /\ Len(q) \in Nat /\ Len(t) \in Nat
      /\ DOMAIN q = 1..Len(q) /\ DOMAIN t = 1..Len(t) /\ DOMAIN (q \o t) = 1..(Len(q) + Len(t))
      /\ \A i \in 1..(Len(q) + Len(t)) :
           (q \o t)[i] = IF i <= Len(q) THEN q[i] ELSE t[i - Len(q)]
  <2>1. q \o t \in Seq(Nat) /\ Len(q \o t) = Len(q) + Len(t)
    BY ConcatProperties
  <2> QED BY <2>1, ConcatProperties, LenProperties
<1>2. I = {i \in 1..Len(q) : q[i] = m}
  BY <1>1
<1>3. J = {i \in 1..(Len(q) + Len(t)) : (q \o t)[i] = m}
  BY <1>1
<1>4. IsFiniteSet(I) /\ Times(q, m) = Cardinality(I) /\ Times(q \o t, m) = Cardinality(J)
  BY TimesType DEF Times
<1> HIDE DEF I, J
<1>5. CASE m \notin ToSet(t)
  <2>1. \A i \in 1..Len(t) : t[i] # m
    BY <1>1, <1>5 DEF ToSet
  <2>2. I = J
    BY <1>1, <1>2, <1>3, <2>1
  <2> QED BY <1>4, <1>5, <2>2
<1>6. CASE m \in ToSet(t)
  <2>1. PICK k \in 1..Len(t) : t[k] = m
    BY <1>1, <1>6 DEF ToSet
  <2>2. \A i \in 1..Len(t) : t[i] = m => i = k
    BY <2>1 DEF Distinct
  <2>3. Len(q) + k \in 1..(Len(q) + Len(t)) /\ (Len(q) + k) - Len(q) = k /\ ~ (Len(q) + k <= Len(q))
    BY <1>1
  <2>4. Len(q) + k \in J
    BY <1>1, <1>3, <2>1, <2>3
  <2>5. \A i \in J : i \in I \/ i = Len(q) + k
    <3>1. ASSUME NEW i \in J PROVE i \in I \/ i = Len(q) + k
      <4>1. i \in 1..(Len(q) + Len(t)) /\ (q \o t)[i] = m
        BY <1>3
      <4>2. CASE i <= Len(q)
        BY <1>1, <1>2, <4>1, <4>2
      <4>3. CASE ~ (i <= Len(q))
        <5>1. i - Len(q) \in 1..Len(t) /\ t[i - Len(q)] = m
          BY <1>1, <4>1, <4>3
        <5>2. i - Len(q) = k
          BY <2>2, <5>1
        <5> QED BY <1>1, <4>1, <5>2
      <4> QED BY <4>2, <4>3
    <3> QED BY <3>1
  <2>6. I \subseteq J
    BY <1>1, <1>2, <1>3
  <2>7. J = I \cup {Len(q) + k} /\ Len(q) + k \notin I
    <3>1. Len(q) + k \notin I
      BY <1>1, <1>2, <2>3
    <3> QED BY <2>4, <2>5, <2>6, <3>1
  <2> QED BY <1>4, <1>6, <2>7, FS_AddElement
<1> QED BY <1>5, <1>6

\* One message adds one occurrence of it.
LEMMA TimesAppend ==
  ASSUME NEW q \in Seq(Nat), NEW x \in Nat, NEW m
  PROVE  Times(Append(q, x), m) = IF m = x THEN Times(q, m) + 1 ELSE Times(q, m)
<1>1. <<x>> \in Seq(Nat) /\ Distinct(<<x>>) /\ ToSet(<<x>>) = {x}
  BY DEF Distinct, ToSet
<1>2. Append(q, x) = q \o <<x>>
  BY AppendIsConcat
<1> QED BY <1>1, <1>2, TimesConcat

\* A part of a file without repetitions has none, and is made of the messages passed.
LEMMA ReadDistinct ==
  ASSUME NEW s \in Seq(Nat), Distinct(s), NEW from \in Nat, NEW end \in (from + 1)..Len(s)
  PROVE  /\ Distinct(SubSeq(s, from + 1, end))
         /\ \A i \in 1..Len(s) :
              s[i] \in ToSet(SubSeq(s, from + 1, end)) => from < i /\ i <= end
         /\ \A m \in ToSet(SubSeq(s, from + 1, end)) : \E i \in (from + 1)..end : m = s[i]
<1> DEFINE part == SubSeq(s, from + 1, end)
<1>1. Len(s) \in Nat
  BY LenProperties
<1>2. /\ part \in Seq(Nat) /\ Len(part) = end - from
      /\ \A i \in 1..(end - from) : part[i] = s[from + i]
  BY SubSeqProperties, LenProperties
<1>3. DOMAIN part = 1..(end - from)
  BY <1>2, LenProperties
<1> HIDE DEF part
<1>4. Distinct(part)
  <2>1. ASSUME NEW i \in 1..(end - from), NEW j \in 1..(end - from), part[i] = part[j]
        PROVE  i = j
    <3>1. from + i \in 1..Len(s) /\ from + j \in 1..Len(s)
      BY <1>1
    <3>2. s[from + i] = s[from + j]
      BY <1>2, <2>1
    <3>3. from + i = from + j
      BY <3>1, <3>2 DEF Distinct
    <3> QED BY <3>3
  <2> QED BY <1>2, <2>1 DEF Distinct
<1>5. ASSUME NEW i \in 1..Len(s), s[i] \in ToSet(part) PROVE from < i /\ i <= end
  <2>1. PICK k \in 1..(end - from) : part[k] = s[i]
    BY <1>3, <1>5 DEF ToSet
  <2>2. from + k \in 1..Len(s) /\ s[from + k] = s[i]
    BY <1>1, <1>2, <2>1
  <2>3. from + k = i
    BY <2>2 DEF Distinct
  <2> QED BY <1>1, <2>3
<1>6. ASSUME NEW m \in ToSet(part) PROVE \E i \in (from + 1)..end : m = s[i]
  <2>1. PICK k \in 1..(end - from) : part[k] = m
    BY <1>3 DEF ToSet
  <2> DEFINE i == from + k
  <2>2. i \in (from + 1)..end
    BY <1>1
  <2>3. m = s[i]
    BY <1>2, <2>1
  <2> HIDE DEF i
  <2> QED BY <2>2, <2>3
<1> QED BY <1>4, <1>5, <1>6 DEF part

\* The part of the file up to end is printed.
Prints(end) == printed' = printed \o SubSeq(content, pos + 1, end)

\* A login's read prints what had not been printed in this life.
LEMMA ReadPrinted ==
  ASSUME IInv, TInv, OnePlace, Counted, ReadPending, NEW end \in (pos + 1)..Len(content),
         Prints(end), pos' = end
  PROVE  OnePlace' /\ Counted'
<1>1. /\ content \in Seq(Nat) /\ printed \in Seq(Nat) /\ pos \in Nat
      /\ Distinct(content) /\ stops \in Nat
  BY DEF IInv, Shape, TInv, Ended, OnePlace
<1>3. at = "read" /\ UNCHANGED <<at, content, pc, msg, stops>>
  BY DEF ReadPending, recipient, sender
<1> DEFINE part == SubSeq(content, pos + 1, end)
<1>4. part \in Seq(Nat)
  BY <1>1, ReadPart
<1>5. /\ Distinct(part)
      /\ \A i \in 1..Len(content) : content[i] \in ToSet(part) => pos < i /\ i <= end
      /\ \A m \in ToSet(part) : \E i \in (pos + 1)..end : m = content[i]
  BY <1>1, ReadDistinct
<1>6. printed' = printed \o part
  BY DEF Prints
<1>7. Len(content) \in Nat /\ DOMAIN content = 1..Len(content)
  BY <1>1, LenProperties
<1> HIDE DEF part
<1>8. ToSet(part) \subseteq ToSet(content)
  <2>1. ASSUME NEW m \in ToSet(part) PROVE m \in ToSet(content)
    <3>1. PICK i \in (pos + 1)..end : m = content[i]
      BY <1>5
    <3>2. i \in DOMAIN content
      BY <1>1, <1>7
    <3> QED BY <3>1, <3>2 DEF ToSet
  <2> QED BY <2>1
<1>9. OnePlace'
  <2>1. ToSet(printed') = ToSet(printed) \cup ToSet(part)
    BY <1>1, <1>4, <1>6, SetOfConcat
  <2> QED BY <1>3, <1>8, <2>1 DEF OnePlace, Carrying
<1>10. \A m \in Nat : Times(printed', m) = IF m \in ToSet(part) THEN Times(printed, m) + 1
                                           ELSE Times(printed, m)
  BY <1>1, <1>4, <1>5, <1>6, TimesConcat
<1>11. ASSUME NEW m \in Nat PROVE Times(printed', m) <= 1 + stops
  <2>1. CASE m \in ToSet(part)
    <3>1. PICK i \in (pos + 1)..end : m = content[i]
      BY <1>5, <2>1
    <3>2. i \in 1..Len(content) /\ ToPrint(i)
      BY <1>1, <1>3, <1>7 DEF ToPrint
    <3>3. Times(printed, m) <= stops /\ Times(printed, m) \in Nat
      BY <1>1, <3>1, <3>2, TimesType DEF Counted
    <3> QED BY <1>1, <1>10, <2>1, <3>3
  <2>2. CASE m \notin ToSet(part)
    BY <1>10, <2>2 DEF Counted
  <2> QED BY <2>1, <2>2
<1>12. ASSUME NEW i \in 1..Len(content), i > end PROVE Times(printed', content[i]) <= stops
  <2>1. content[i] \notin ToSet(part) /\ content[i] \in Nat
    BY <1>1, <1>5, <1>7, <1>12, LenProperties
  <2>2. ToPrint(i)
    BY <1>1, <1>3, <1>7, <1>12 DEF ToPrint
  <2> QED BY <1>10, <2>1, <2>2 DEF Counted
<1>13. Counted'
  BY <1>3, <1>11, <1>12 DEF Counted, ToPrint
<1> QED BY <1>9, <1>13

\* Where no message moves and none becomes printable, the counts stay.
LEMMA SameCounted ==
  ASSUME OnePlace, Counted, UNCHANGED <<content, printed, msg, stops>>,
         \A s \in Senders : Carrying(s)' => Carrying(s),
         at' = "remove" => content = <<>>,
         \A i \in 1..Len(content) : ToPrint(i)' => ToPrint(i)
  PROVE  OnePlace' /\ Counted'
<1>1. OnePlace'
  BY DEF OnePlace
<1>2. Counted'
  BY DEF Counted
<1> QED BY <1>1, <1>2

\* Or nothing, and goes on in the file.
LEMMA ReadCounted ==
  ASSUME IInv, TInv, OnePlace, Counted, ReadPending
  PROVE  OnePlace' /\ Counted'
<1>1. PICK end \in (pos + 1)..Len(content) :
        Deliver(SubSeq(content, pos + 1, end), logins) /\ pos' = end
  BY DEF ReadPending
<1>2. CASE Prints(end)
  BY <1>1, <1>2, ReadPrinted
<1>3. CASE printed' = printed
  <2>1. /\ at = "read" /\ UNCHANGED <<at, content, pc, msg, stops>>
        /\ pos \in Nat /\ Len(content) \in Nat
    BY LenProperties DEF ReadPending, recipient, sender, IInv, Shape
  <2>2. \A i \in 1..Len(content) : ToPrint(i)' => ToPrint(i)
    BY <1>1, <2>1 DEF ToPrint
  <2> QED BY <1>3, <2>1, <2>2, SameCounted DEF Carrying
<1> QED BY <1>1, <1>2, <1>3 DEF Deliver, Prints

\* The other steps of the login.
LEMMA DrainCounted ==
  ASSUME IInv, TInv, OnePlace, Counted, Drain, ~ ReadPending
  PROVE  OnePlace' /\ Counted'
<1>1. UNCHANGED <<pc, msg, stops, printed>>
  BY DEF Drain, LoginFind, LoginOpen, LoginGet, LoginRewind, EndOfPending, ReadFails,
         ClosePending, DeletePending, RemoveEntry, Recipient, sender, fate
<1>2. CASE DeletePending
  <2>1. open = {} /\ content' = <<>> /\ at' = "remove"
    BY <1>2 DEF DeletePending, Recipient, IInv, Handles
  <2>2. OnePlace'
    BY <1>1, <2>1 DEF OnePlace, Carrying, ToSet, Distinct
  <2>3. Counted'
    BY <1>1, <2>1 DEF Counted
  <2> QED BY <2>2, <2>3
<1>3. CASE LoginFind \/ LoginOpen \/ LoginGet \/ LoginRewind
  <2>1. content' = content /\ at \notin {"read", "close", "delete"} /\ at' # "remove"
    BY <1>3 DEF LoginFind, LoginOpen, LoginGet, LoginRewind, Recipient, OpenUnlessPresent, disk
  <2> QED BY <1>1, <2>1, SameCounted DEF Carrying, ToPrint
<1>4. CASE EndOfPending \/ ReadFails \/ ClosePending
  <2>1. content' = content /\ at' \in {"close", "delete"}
    BY <1>4 DEF EndOfPending, ReadFails, ClosePending, Recipient, disk
  <2> QED BY <1>1, <2>1, SameCounted DEF Carrying, ToPrint
<1>5. CASE RemoveEntry
  <2>1. content' = content /\ at = "remove" /\ at' = "online"
    BY <1>5 DEF RemoveEntry, Recipient
  <2> QED BY <1>1, <2>1, SameCounted DEF Carrying, ToPrint
<1> QED BY <1>2, <1>3, <1>4, <1>5 DEF Drain

\* A sender delivers its message once.
LEMMA ServeCounted ==
  ASSUME IInv, TInv, OnePlace, Counted, NEW s \in Senders, Serve(s), ~ GetMissing(s)
  PROVE  OnePlace' /\ Counted'
<1>1. /\ content \in Seq(Nat) /\ printed \in Seq(Nat) /\ stops \in Nat
      /\ msg \in [Senders -> Nat] /\ pc \in [Senders -> SenderPlaces]
      /\ msg[s] \in Nat
  BY DEF IInv, Shape, TInv, Ended
<1>2. UNCHANGED <<at, stops>>
  BY DEF Serve, Lookup, SendDirect, Find, Open, Get, Write, WriteFails, Reply, Sender, recipient
<1>3. CASE Lookup(s) \/ Find(s) \/ Open(s) \/ Get(s)
  <2>1. /\ UNCHANGED <<content, printed, msg>>
        /\ Carrying(s) /\ \E to : pc' = [pc EXCEPT ![s] = to]
        /\ pos' = pos \/ entry = NoHandle
    BY <1>3 DEF Lookup, Find, Open, Get, Sender, OpenUnlessPresent, disk, fate, Carrying
  <2>2. \A t \in Senders : Carrying(t)' => Carrying(t)
    BY <1>1, <2>1 DEF Carrying
  <2>3. at = "read" => entry # NoHandle
    BY DEF IInv, Handles
  <2>4. \A i \in 1..Len(content) : ToPrint(i)' => ToPrint(i)
    BY <1>2, <2>1, <2>3 DEF ToPrint
  <2>5. at' = "remove" => content = <<>>
    BY <1>2 DEF Counted
  <2> QED BY <1>2, <2>1, <2>2, <2>4, <2>5, SameCounted
<1>4. CASE SendDirect(s) /\ printed' = printed \o <<msg[s]>>
  <2>1. /\ UNCHANGED <<content, msg, pos>> /\ printed' = Append(printed, msg[s])
        /\ Carrying(s) /\ pc' = [pc EXCEPT ![s] = "reply"]
    BY <1>1, <1>4, AppendIsConcat DEF SendDirect, Sender, disk, Carrying
  <2>2. msg[s] \notin ToSet(printed) \cup ToSet(content)
    BY <2>1 DEF OnePlace
  <2>3. ToSet(printed') = ToSet(printed) \cup {msg[s]}
    BY <1>1, <2>1, SetOfAppend
  <2>4. \A t \in Senders : Carrying(t)' => Carrying(t) /\ t # s
    BY <1>1, <2>1 DEF Carrying
  <2>5. OnePlace'
    BY <2>1, <2>3, <2>4 DEF OnePlace
  <2>6. \A m \in Nat : Times(printed', m) = IF m = msg[s] THEN Times(printed, m) + 1
                                            ELSE Times(printed, m)
    BY <1>1, <2>1, TimesAppend
  <2>7. Times(printed, msg[s]) = 0
    BY <1>1, <2>2, TimesType
  <2>8. \A m \in Nat : Times(printed', m) <= 1 + stops
    BY <1>1, <2>6, <2>7 DEF Counted
  <2>9. \A i \in 1..Len(content) : content[i] # msg[s] /\ content[i] \in Nat
    BY <1>1, <2>2, LenProperties DEF ToSet
  <2>10. Counted'
    <3>1. \A i \in 1..Len(content) : ToPrint(i)' => ToPrint(i)
      BY <1>2, <2>1 DEF ToPrint
    <3>2. \A i \in 1..Len(content) : Times(printed', content[i]) = Times(printed, content[i])
      BY <2>6, <2>9
    <3> QED BY <1>2, <2>1, <2>8, <3>1, <3>2 DEF Counted
  <2> QED BY <2>5, <2>10
<1>5. CASE (SendDirect(s) /\ printed' = printed) \/ WriteFails(s)
  <2>1. /\ UNCHANGED <<content, printed, msg, pos>>
        /\ Carrying(s) /\ pc' = [pc EXCEPT ![s] = "reply"]
    BY <1>5 DEF SendDirect, WriteFails, Sender, disk, Carrying
  <2>2. \A t \in Senders : Carrying(t)' => Carrying(t)
    BY <1>1, <2>1 DEF Carrying
  <2>3. \A i \in 1..Len(content) : ToPrint(i)' => ToPrint(i)
    BY <1>2, <2>1 DEF ToPrint
  <2>4. at' = "remove" => content = <<>>
    BY <1>2 DEF Counted
  <2> QED BY <1>2, <2>1, <2>2, <2>3, <2>4, SameCounted
<1>6. CASE Write(s)
  <2>1. /\ UNCHANGED <<printed, msg>>
        /\ Carrying(s) /\ pc' = [pc EXCEPT ![s] = "reply"]
    BY <1>6 DEF Write, Sender, fate, Carrying
  <2>2. \A t \in Senders : Carrying(t)' => Carrying(t) /\ t # s
    BY <1>1, <2>1 DEF Carrying
  <2>3. CASE UNCHANGED <<content, pos>>
    <3>1. \A i \in 1..Len(content) : ToPrint(i)' => ToPrint(i)
      BY <1>2, <2>3 DEF ToPrint
    <3>2. at' = "remove" => content = <<>>
      BY <1>2 DEF Counted
    <3> QED BY <1>2, <2>1, <2>2, <2>3, <3>1, <3>2, SameCounted
  <2>4. CASE open # {} /\ content' = Append(content, msg[s]) /\ pos' = Len(content')
    <3>1. /\ content' \in Seq(Nat) /\ Len(content) \in Nat /\ Len(content') = Len(content) + 1
          /\ \A i \in 1..Len(content) : content'[i] = content[i]
          /\ content'[Len(content) + 1] = msg[s]
      BY <1>1, <2>4, AppendProperties, LenProperties
    <3>2. ToSet(content') = ToSet(content) \cup {msg[s]}
      BY <1>1, <2>4, SetOfAppend
    <3>3. msg[s] \notin ToSet(printed) \cup ToSet(content)
      BY <2>1 DEF OnePlace
    <3>4. \A i \in 1..Len(content) : content[i] # msg[s]
      BY <1>1, <3>3, LenProperties DEF ToSet
    <3>5. Distinct(content')
      BY <3>1, <3>4 DEF OnePlace, Distinct
    <3>6. OnePlace'
      BY <2>1, <2>2, <3>2, <3>5 DEF OnePlace
    <3>7. Times(printed, msg[s]) = 0
      BY <1>1, <3>3, TimesType
    <3>8. at # "remove"
      BY <2>4 DEF IInv, Handles
    <3>9. ASSUME NEW i \in 1..Len(content'), ToPrint(i)' PROVE Times(printed, content'[i]) <= stops
      <4>1. CASE i = Len(content) + 1
        BY <1>1, <3>1, <3>7, <4>1
      <4>2. CASE i # Len(content) + 1
        <5>1. i \in 1..Len(content) /\ content'[i] = content[i] /\ ~ (i > pos')
          BY <2>4, <3>1, <4>2
        <5>2. ToPrint(i)
          BY <1>2, <3>9, <5>1 DEF ToPrint
        <5> QED BY <5>1, <5>2 DEF Counted
      <4> QED BY <4>1, <4>2
    <3>10. Counted'
      BY <1>2, <2>1, <3>8, <3>9 DEF Counted
    <3> QED BY <3>6, <3>10
  <2> QED BY <1>6, <2>3, <2>4 DEF Write
<1>7. CASE Reply(s)
  <2>1. /\ UNCHANGED <<content, printed, pos>>
        /\ pc' = [pc EXCEPT ![s] = "idle"] /\ msg' = [msg EXCEPT ![s] = 0]
    BY <1>7 DEF Reply, Sender, disk, fate
  <2>2. \A t \in Senders : Carrying(t)' => Carrying(t) /\ msg'[t] = msg[t]
    BY <1>1, <2>1 DEF Carrying
  <2>3. OnePlace'
    BY <2>1, <2>2 DEF OnePlace
  <2>4. Counted'
    BY <1>2, <2>1 DEF Counted, ToPrint
  <2> QED BY <2>3, <2>4
<1>8. SendDirect(s) => printed' = printed \/ printed' = printed \o <<msg[s]>>
  BY DEF SendDirect, Deliver
<1> QED BY <1>3, <1>4, <1>5, <1>6, <1>7, <1>8 DEF Serve

\* With the end of the process every message of the file may be printed once more.
LEMMA StopCounted ==
  ASSUME IInv, TInv, OnePlace, Counted, Stop
  PROVE  OnePlace' /\ Counted'
<1>1. content \in Seq(Nat) /\ printed \in Seq(Nat) /\ stops \in Nat
  BY DEF IInv, Shape, TInv, Ended
<1>2. OnePlace'
  BY DEF Stop, fate, OnePlace, Carrying
<1>3. \A m \in Nat : Times(printed, m) \in Nat
  BY <1>1, TimesType
<1>4. \A i \in 1..Len(content) : content[i] \in Nat
  BY <1>1, LenProperties
<1>5. Counted'
  <2>1. at' = "away" /\ stops' = stops + 1 /\ printed' = printed /\ content' = content
    BY DEF Stop, fate
  <2>2. ASSUME NEW m \in Nat
        PROVE  Times(printed, m) <= stops + 1 /\ Times(printed, m) <= 1 + (stops + 1)
    <3>1. Times(printed, m) \in Nat /\ Times(printed, m) <= 1 + stops
      BY <1>3 DEF Counted
    <3> QED BY <1>1, <3>1
  <2> QED BY <1>4, <2>1, <2>2 DEF Counted
<1> QED BY <1>2, <1>5

\* A new message is nowhere else.
LEMMA ArriveCounted ==
  ASSUME IInv, TInv, OnePlace, Counted, Turns \/ \E s \in Senders : Send(s)
  PROVE  OnePlace' /\ Counted'
<1>1. CASE Turns
  <2>1. /\ UNCHANGED <<content, printed, msg, pc, pos, stops>>
        /\ at' = at \/ (at \in {"away", "online"} /\ at' # "remove")
    BY <1>1 DEF Turns, Login, Logout, FallSilent, Recipient, recipient, sender, disk, fate
  <2>2. at' = "remove" => content = <<>>
    BY <2>1 DEF Counted
  <2> QED BY <2>1, <2>2, SameCounted DEF Carrying, ToPrint
<1>2. ASSUME NEW s \in Senders, Send(s) PROVE OnePlace' /\ Counted'
  <2>1. /\ UNCHANGED <<content, printed, pos, stops, at>>
        /\ pc' = [pc EXCEPT ![s] = "lookup"] /\ msg' = [msg EXCEPT ![s] = sent + 1]
    BY <1>2 DEF Send, Sender, disk, fate, recipient
  <2>2. /\ sent \in Nat /\ pc \in [Senders -> SenderPlaces] /\ msg \in [Senders -> Nat]
        /\ \A t \in Senders : pc[t] # "idle" => msg[t] \in 1..sent
    BY DEF IInv, Shape, TInv, Numbered
  <2>3. ToSet(printed) \subseteq 1..sent /\ ToSet(content) \subseteq 1..sent
    <3>1. printed \in Seq(1..sent) /\ content \in Seq(1..sent)
      BY DEF TInv, Numbered
    <3> QED BY <3>1, ElementsIn
  <2>4. sent + 1 \notin 1..sent
    BY <2>2
  <2>5. msg'[s] = sent + 1 /\ \A t \in Senders \ {s} : msg'[t] = msg[t] /\ pc'[t] = pc[t]
    BY <2>1, <2>2
  <2>6. \A t \in Senders \ {s} : Carrying(t)' => Carrying(t) /\ msg[t] \in 1..sent
    BY <2>2, <2>5 DEF Carrying
  <2>7. OnePlace'
    BY <2>1, <2>3, <2>4, <2>5, <2>6 DEF OnePlace
  <2>8. Counted'
    BY <2>1 DEF Counted, ToPrint
  <2> QED BY <2>7, <2>8
<1> QED BY <1>1, <1>2

\* Nothing is printed, sent or stored at the start.
LEMMA InitCounted == Init => OnePlace /\ Counted
<1> SUFFICES ASSUME Init PROVE OnePlace /\ Counted
  OBVIOUS
<1>1. printed = <<>> /\ content = <<>> /\ stops = 0 /\ \A s \in Senders : ~ Carrying(s)
  BY DEF Init, Carrying
<1>2. <<>> \in Seq(Nat) /\ Len(<<>>) = 0 /\ ToSet(<<>>) = {}
  BY EmptySeq DEF ToSet
<1>3. \A m \in Nat : Times(<<>>, m) = 0
  BY <1>2, TimesType
<1>4. OnePlace
  BY <1>1, <1>2 DEF OnePlace, Distinct
<1>5. Counted
  BY <1>1, <1>2, <1>3 DEF Counted
<1> QED BY <1>4, <1>5

\* Every step keeps the counts.
LEMMA NextCounted == IInv /\ TInv /\ OnePlace /\ Counted /\ [Next]_vars => OnePlace' /\ Counted'
<1> SUFFICES ASSUME IInv, TInv, OnePlace, Counted, [Next]_vars PROVE OnePlace' /\ Counted'
  OBVIOUS
<1>1. CASE UNCHANGED vars
  BY <1>1, SameCounted DEF vars, recipient, sender, disk, fate, Carrying, ToPrint, Counted
<1>2. CASE Drain
  BY <1>2, DrainCounted, ReadCounted
<1>3. CASE Arrive
  BY <1>3, ArriveCounted, StopCounted DEF Arrive, Turns, Restart
<1>4. ASSUME NEW s \in Senders, Serve(s) PROVE OnePlace' /\ Counted'
  <2>1. CASE GetMissing(s)
    BY <2>1, StopCounted DEF GetMissing
  <2>2. CASE ~ GetMissing(s)
    BY <1>4, <2>2, ServeCounted
  <2> QED BY <2>1, <2>2
<1> QED BY <1>1, <1>2, <1>3, <1>4 DEF Next

\* A message is printed once, or once more for each end of the process between the
\* printing of the file and its deletion (PrintedOnce).
THEOREM RepeatedOnlyByStops == Spec => []PrintedOnce
<1>1. Counted => PrintedOnce
  BY DEF Counted, PrintedOnce, Times
<1> QED BY <1>1, Inductive, TypesHold, InitCounted, NextCounted, PTL DEF Spec
=============================================================================
