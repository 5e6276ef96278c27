--------------------------- MODULE AccountsProofs ---------------------------
(***************************************************************************)
(* What holds of the account store for every number of handlers, every set  *)
(* of names and passwords and every failure.  An unnoticed failing WriteFile *)
(* loses a registration: what is acknowledged survives without one, and with *)
(* them the registrations lost are no more than the failures.                *)
(***************************************************************************)
EXTENDS AccountsAlone, FiniteSetTheorems, SequenceTheorems, WellFoundedInduction, TLAPS

---------------------------------------------------------------------------
(* Lemmas about the file format.                                            *)

\* A set of natural numbers that is not empty has a least element.
LEMMA LeastNat ==
  ASSUME NEW T \in SUBSET Nat, T # {}
  PROVE  \E k \in T : \A j \in T : k <= j
<1> USE DEF OpToRel
<1>1. PICK k \in T : \A j \in T : ~ (<<j, k>> \in OpToRel(<, Nat))
  BY NatLessThanWellFounded, WFMin
<1>2. \A j \in T : ~ (j < k)
  BY <1>1
<1> QED BY <1>2

\* FirstAt returns an index that holds a wanted character, unless there is none.
LEMMA FirstAtFinds ==
  ASSUME NEW S, NEW w \in Seq(S), NEW i \in Nat \ {0}, NEW chars
  PROVE  /\ FirstAt(w, i, chars) \in 1..(Len(w) + 1)
         /\ FirstAt(w, i, chars) <= Len(w) =>
              FirstAt(w, i, chars) >= i /\ w[FirstAt(w, i, chars)] \in chars
<1> DEFINE hits == {k \in i..Len(w) : w[k] \in chars}
<1>1. CASE hits = {}
  BY <1>1, LenProperties DEF FirstAt
<1>2. CASE hits # {}
  <2>1. hits \in SUBSET Nat
    BY LenProperties
  <2>2. \E k \in hits : \A j \in hits : k <= j
    BY <1>2, <2>1, LeastNat
  <2>3. FirstAt(w, i, chars) = CHOOSE k \in hits : \A j \in hits : k <= j
    BY <1>2 DEF FirstAt
  <2>4. FirstAt(w, i, chars) \in hits
    BY <2>2, <2>3
  <2> QED BY <2>4, LenProperties
<1> QED BY <1>1, <1>2

\* A text that occurs in a file still occurs, at the same place, when the file
\* has grown.
LEMMA OccursGrows ==
  ASSUME NEW S, NEW f \in Seq(S), NEW g \in Seq(S), NEW text \in Seq(S),
         text # <<>>, NEW i \in Nat, OccursAt(f, i, text)
  PROVE  OccursAt(f \o g, i, text)
<1>1. Len(text) \in Nat \ {0} /\ Len(f) \in Nat /\ Len(g) \in Nat
  BY EmptySeq, LenProperties
<1>2. i + 1 \in 1..Len(f) /\ i + Len(text) \in 1..Len(f)
  BY <1>1 DEF OccursAt
<1>3. SubSeq(f \o g, i + 1, i + Len(text)) = SubSeq(f, i + 1, i + Len(text))
  BY <1>2, SubSeqOfConcat1
<1>4. Len(f \o g) = Len(f) + Len(g)
  BY ConcatProperties
<1> QED BY <1>1, <1>3, <1>4 DEF OccursAt

\* A text that occurs in a window of a file occurs in the file.
LEMMA OccursInWindow ==
  ASSUME NEW S, NEW f \in Seq(S), NEW a \in 1..Len(f), NEW b \in 1..Len(f), a <= b,
         NEW text \in Seq(S), text # <<>>, NEW i \in Nat,
         OccursAt(SubSeq(f, a, b), i, text)
  PROVE  i + a - 1 \in 0..Len(f) /\ OccursAt(f, i + a - 1, text)
<1>1. Len(text) \in Nat \ {0} /\ Len(f) \in Nat
  BY EmptySeq, LenProperties
<1>2. \A k \in a..b : f[k] \in S
  BY ElementOfSeq
<1>3. SubSeq(f, a, b) \in Seq(S) /\ Len(SubSeq(f, a, b)) = b - a + 1
  BY <1>2, SubSeqProperties
<1>4. i + 1 \in 1..(b - a + 1) /\ i + Len(text) \in 1..(b - a + 1)
  BY <1>1, <1>3 DEF OccursAt
<1>5. SubSeq(SubSeq(f, a, b), i + 1, i + Len(text))
        = SubSeq(f, a + (i + 1) - 1, a + (i + Len(text)) - 1)
  BY <1>3, <1>4, SubSeqOfSubSeq
<1>6. a + (i + 1) - 1 = (i + a - 1) + 1 /\ a + (i + Len(text)) - 1 = (i + a - 1) + Len(text)
  BY <1>1
<1>7. (i + a - 1) + Len(text) <= Len(f)
  BY <1>1, <1>4
<1>8. SubSeq(SubSeq(f, a, b), i + 1, i + Len(text)) = text
  BY DEF OccursAt
<1>9. SubSeq(f, (i + a - 1) + 1, (i + a - 1) + Len(text)) = text
  BY <1>5, <1>6, <1>8
<1>10. i + a - 1 \in 0..Len(f)
  BY <1>1, <1>7
<1> QED BY <1>7, <1>9, <1>10 DEF OccursAt

\* A line break of a file is one of every longer file.
LEMMA LineBreaksGrow ==
  ASSUME NEW S, NEW f \in Seq(S), NEW g \in Seq(S)
  PROVE  LineBreaks(f) \subseteq LineBreaks(f \o g)
BY ConcatProperties, LenProperties DEF LineBreaks

\* Records are made of the file's characters and end their line.
LEMMA RecordType ==
  ASSUME NEW r \in Requests
  PROVE  /\ r.name \in Seq(TCHAR) /\ r.name # <<>>
         /\ r.pass \in Seq(TCHAR)
         /\ Record(r.name, r.pass) \in Seq(TCHAR)
         /\ Record(r.name, r.pass) # <<>>
         /\ Terminated(Record(r.name, r.pass))
<1> DEFINE head == r.name \o <<Comma>>
           rec  == Record(r.name, r.pass)
<1>1. r.name \in Words /\ r.pass \in Words
  BY AccountsAssumption DEF Requests
<1>2. r.name \in Seq(TCHAR) /\ r.name # <<>> /\ r.pass \in Seq(TCHAR)
  BY <1>1, SeqMonotonic DEF Words
<1>3. Comma \in TCHAR /\ CR \in TCHAR /\ LF \in TCHAR
  BY CharactersAssumption DEF Separators
<1>4. <<Comma>> \in Seq(TCHAR) /\ <<CR, LF>> \in Seq(TCHAR)
  BY <1>3
<1>5. head \in Seq(TCHAR)
  BY <1>2, <1>4, ConcatProperties
<1>6. head \o r.pass \in Seq(TCHAR)
  BY <1>2, <1>5, ConcatProperties
<1>7. rec = (head \o r.pass) \o <<CR, LF>>
  BY <1>2, <1>4, <1>5, ConcatAssociative DEF Record
<1>8. /\ rec \in Seq(TCHAR)
      /\ Len(rec) > 1
      /\ rec[Len(rec) - 1] = CR /\ rec[Len(rec)] = LF
  <2> HIDE DEF head, rec
  <2>1. Len(<<CR, LF>>) = 2 /\ <<CR, LF>>[1] = CR /\ <<CR, LF>>[2] = LF
    OBVIOUS
  <2>2. Len(head \o r.pass) \in Nat
    BY <1>6, LenProperties
  <2>3. Len(rec) = Len(head \o r.pass) + 2
    BY <1>4, <1>6, <1>7, <2>1, ConcatProperties
  <2> QED BY <1>4, <1>6, <1>7, <2>1, <2>2, <2>3, ConcatProperties
<1>9. rec # <<>>
  BY <1>8, EmptySeq
<1> QED BY <1>2, <1>8, <1>9 DEF Terminated

\* Appending a record leaves every stored record stored, stores the new one,
\* and leaves the file's last line terminated.
LEMMA AppendedRecord ==
  ASSUME NEW f \in Seq(TCHAR), Terminated(f), NEW r \in Requests
  PROVE  LET g == f \o Record(r.name, r.pass)
         IN  /\ g \in Seq(TCHAR) /\ Terminated(g) /\ Len(f) <= Len(g)
             /\ SubSeq(g, 1, Len(f)) = f
             /\ OccursAt(g, Len(f), Record(r.name, r.pass)) /\ Stored(g, r.name, r.pass)
             /\ \A q \in Requests : Stored(f, q.name, q.pass) => Stored(g, q.name, q.pass)
<1> DEFINE rec == Record(r.name, r.pass)
           g   == f \o rec
<1>1. rec \in Seq(TCHAR) /\ rec # <<>> /\ Terminated(rec)
  BY RecordType
<1> HIDE DEF rec
<1>2. Len(f) \in Nat /\ Len(rec) \in Nat /\ Len(rec) > 1
      /\ rec[Len(rec) - 1] = CR /\ rec[Len(rec)] = LF
  BY <1>1, LenProperties DEF Terminated
<1>3. /\ g \in Seq(TCHAR) /\ Len(g) = Len(f) + Len(rec)
      /\ \A i \in 1..Len(g) : g[i] = IF i <= Len(f) THEN f[i] ELSE rec[i - Len(f)]
  BY <1>1, ConcatProperties
<1>4. Terminated(g)
  BY <1>2, <1>3 DEF Terminated
<1>5. SubSeq(g, 1, Len(f)) = f
  <2>1. CASE f = <<>>
    BY <2>1, EmptySeq, SubSeqEmpty
  <2>2. CASE f # <<>>
    <3>1. 1 \in 1..Len(f) /\ Len(f) \in 1..Len(f)
      BY <2>2, EmptySeq
    <3>2. SubSeq(g, 1, Len(f)) = SubSeq(f, 1, Len(f))
      BY <1>1, <3>1, SubSeqOfConcat1
    <3> QED BY <3>2, SubSeqFull
  <2> QED BY <2>1, <2>2
<1>6. OccursAt(g, Len(f), rec) /\ Stored(g, r.name, r.pass)
  <2>1. Len(f) \in LineBreaks(g)
    BY <1>2, <1>3, EmptySeq DEF LineBreaks, Terminated
  <2>2. SubSeq(g, Len(f) + 1, Len(f) + Len(rec)) = rec
    <3>1. /\ Len(f) + 1 \in Len(f) + 1 .. Len(f) + Len(rec)
          /\ Len(f) + Len(rec) \in Len(f) + 1 .. Len(f) + Len(rec)
      BY <1>2
    <3>2. SubSeq(g, Len(f) + 1, Len(f) + Len(rec))
            = SubSeq(rec, (Len(f) + 1) - Len(f), (Len(f) + Len(rec)) - Len(f))
      BY <1>1, <3>1, SubSeqOfConcat2
    <3>3. (Len(f) + 1) - Len(f) = 1 /\ (Len(f) + Len(rec)) - Len(f) = Len(rec)
      BY <1>2
    <3>4. SubSeq(rec, 1, Len(rec)) = rec
      BY <1>1, SubSeqFull
    <3> QED BY <3>2, <3>3, <3>4
  <2>3. OccursAt(g, Len(f), rec)
    BY <1>2, <1>3, <2>2 DEF OccursAt
  <2> QED BY <2>1, <2>3 DEF Stored, rec
<1>7. ASSUME NEW q \in Requests, Stored(f, q.name, q.pass)
      PROVE  Stored(g, q.name, q.pass)
  <2>1. PICK i \in LineBreaks(f) : OccursAt(f, i, Record(q.name, q.pass))
    BY <1>7 DEF Stored
  <2>2. Record(q.name, q.pass) \in Seq(TCHAR) /\ Record(q.name, q.pass) # <<>>
    BY RecordType
  <2>3. i \in Nat /\ i \in LineBreaks(g)
    BY <1>1, LineBreaksGrow DEF LineBreaks
  <2>4. OccursAt(g, i, Record(q.name, q.pass))
    BY <1>1, <2>1, <2>2, <2>3, OccursGrows
  <2> QED BY <2>3, <2>4 DEF Stored
<1>8. Len(f) <= Len(g)
  BY <1>2, <1>3
<1> QED BY <1>3, <1>4, <1>5, <1>6, <1>7, <1>8 DEF rec

\* What a chunk holds in which a scan finds a request: the name followed by a
\* comma and, for a login, by the password.
Evidence(r) ==
  r.name \o <<Comma>> \o (IF r.op = "login" THEN r.pass ELSE <<>>)

\* Evidence is a text of the file's characters.
LEMMA EvidenceType ==
  ASSUME NEW r \in Requests
  PROVE  Evidence(r) \in Seq(TCHAR) /\ Evidence(r) # <<>>
<1> DEFINE tail == IF r.op = "login" THEN r.pass ELSE <<>>
<1>1. r.name \in Seq(TCHAR) /\ tail \in Seq(TCHAR)
  BY RecordType, EmptySeq
<1>2. <<Comma>> \in Seq(TCHAR) /\ Len(<<Comma>>) = 1
  BY CharactersAssumption DEF Separators
<1>3. Evidence(r) = (r.name \o <<Comma>>) \o tail
  BY DEF Evidence
<1> HIDE DEF tail
<1>4. r.name \o <<Comma>> \in Seq(TCHAR) /\ Len(r.name \o <<Comma>>) = Len(r.name) + 1
  BY <1>1, <1>2, ConcatProperties
<1>5. r.name \o <<Comma>> # <<>>
  BY <1>1, <1>4, EmptySeq, LenProperties
<1>6. (r.name \o <<Comma>>) \o tail # <<>>
  BY <1>1, <1>4, <1>5, ConcatEqualIffEmpty
<1> QED BY <1>1, <1>3, <1>4, <1>6, ConcatProperties

\* A chunk in which the scan finds a request holds the evidence for it.
LEMMA MatchHasEvidence ==
  ASSUME NEW w \in Seq(TCHAR), NEW r \in Requests, Matches(w, r)
  PROVE  \E i \in 0..Len(w) : OccursAt(w, i, Evidence(r))
<1>1. PICK account \in Parse(w) :
        account.name = r.name /\ (r.op = "login" => account.pass = r.pass)
  BY DEF Matches
<1>2. PICK k \in LineStarts(w) :
        FirstAt(w, k, {Comma}) <= Len(w) /\ account = AccountAt(w, k)
  BY DEF Parse
<1> DEFINE comma == FirstAt(w, k, {Comma})
           end   == FirstAt(w, comma, {CR})
           stop  == IF r.op = "login" THEN end - 1 ELSE comma
<1>3. k \in Nat \ {0} /\ Len(w) \in Nat
  BY LenProperties DEF LineStarts
<1>4. comma \in 1..Len(w) /\ k <= comma /\ w[comma] = Comma
  BY <1>2, <1>3, FirstAtFinds
<1>5. end \in 1..(Len(w) + 1) /\ (end <= Len(w) => end >= comma /\ w[end] = CR)
  BY <1>3, <1>4, FirstAtFinds
<1>6. end > comma
  <2>1. Comma # CR
    BY DEF Comma, CR
  <2> HIDE DEF comma, end
  <2> QED BY <1>3, <1>4, <1>5, <2>1
<1>7. r.name = SubSeq(w, k, comma - 1) /\ (r.op = "login" => r.pass = SubSeq(w, comma + 1, end - 1))
  BY <1>1, <1>2 DEF AccountAt
<1> HIDE DEF comma, end
<1>8. r.name \o <<Comma>> = SubSeq(w, k, comma)
  <2>1. SubSeq(w, comma, comma) = <<Comma>>
    <3>1. \A i \in comma..comma : w[i] \in TCHAR
      BY <1>3, <1>4, ElementOfSeq
    <3>2. Len(SubSeq(w, comma, comma)) = 1 /\ SubSeq(w, comma, comma)[1] = Comma
          /\ SubSeq(w, comma, comma) \in Seq(TCHAR)
      BY <1>3, <1>4, <3>1, SubSeqProperties
    <3>3. /\ <<Comma>> \in Seq(TCHAR) /\ Len(<<Comma>>) = 1
          /\ \A i \in 1..1 : <<Comma>>[i] = Comma
      BY CharactersAssumption DEF Separators
    <3>4. \A i \in 1..1 : SubSeq(w, comma, comma)[i] = <<Comma>>[i]
      BY <3>2, <3>3
    <3> QED BY <3>2, <3>3, <3>4, SeqEqual
  <2>2. SubSeq(w, k, comma - 1) \o SubSeq(w, (comma - 1) + 1, comma) = SubSeq(w, k, comma)
    BY <1>3, <1>4, ConcatAdjacentSubSeq
  <2>3. (comma - 1) + 1 = comma
    BY <1>4
  <2> QED BY <1>7, <2>1, <2>2, <2>3
<1>9. Evidence(r) = SubSeq(w, k, stop)
  <2>1. CASE r.op = "login"
    <3>1. Evidence(r) = (r.name \o <<Comma>>) \o r.pass
      <4>1. r.name \in Seq(TCHAR) /\ r.pass \in Seq(TCHAR) /\ <<Comma>> \in Seq(TCHAR)
        BY RecordType, CharactersAssumption DEF Separators
      <4> QED BY <2>1, <4>1, ConcatAssociative DEF Evidence
    <3>2. SubSeq(w, k, comma) \o SubSeq(w, comma + 1, end - 1) = SubSeq(w, k, end - 1)
      BY <1>3, <1>4, <1>5, <1>6, ConcatAdjacentSubSeq
    <3> QED BY <1>7, <1>8, <2>1, <3>1, <3>2
  <2>2. CASE r.op # "login"
    <3>1. Evidence(r) = r.name \o (<<Comma>> \o <<>>)
      BY <2>2 DEF Evidence
    <3>2. <<Comma>> \o <<>> = <<Comma>>
      BY ConcatEmptySeq
    <3> QED BY <1>8, <2>2, <3>1, <3>2
  <2> QED BY <2>1, <2>2
<1>10. stop \in Nat /\ k <= stop /\ stop <= Len(w)
  BY <1>3, <1>4, <1>5, <1>6
<1>11. Len(Evidence(r)) = stop - k + 1
  <2>1. \A i \in k..stop : w[i] \in TCHAR
    BY <1>3, <1>10, ElementOfSeq
  <2> QED BY <1>3, <1>9, <1>10, <2>1, SubSeqProperties
<1> HIDE DEF stop
<1>12. OccursAt(w, k - 1, Evidence(r))
  <2>1. (k - 1) + 1 = k /\ (k - 1) + Len(Evidence(r)) = stop
    BY <1>3, <1>10, <1>11
  <2> QED BY <1>9, <1>10, <2>1 DEF OccursAt
<1>13. k - 1 \in 0..Len(w)
  BY <1>3, <1>10
<1> QED BY <1>12, <1>13

---------------------------------------------------------------------------
(* Type correctness.                                                        *)

\* A chunk is a window of the file that starts at the pointer; reading it
\* leaves the pointer within the file.
LEMMA ChunkIsWindow ==
  ASSUME TypeOK, NEW h \in Handlers
  PROVE  /\ Chunk(h) \in Seq(TCHAR)
         /\ pos + Len(Chunk(h)) \in 0..Len(file)
         /\ Len(Chunk(h)) > 0 =>
              \E b \in 1..Len(file) :
                 pos + 1 <= b /\ pos + 1 \in 1..Len(file) /\ Chunk(h) = SubSeq(file, pos + 1, b)
<1> DEFINE last == IF pos + size[h] + 1 < Len(file) THEN pos + size[h] + 1 ELSE Len(file)
<1>1. Len(file) \in Nat /\ pos \in Nat /\ pos <= Len(file) /\ size[h] \in Nat
  BY LenProperties DEF TypeOK
<1>2. last \in pos..Len(file)
  BY <1>1
<1>3. \A i \in pos + 1..last : file[i] \in TCHAR
  BY <1>1, <1>2, ElementOfSeq DEF TypeOK
<1>4. Chunk(h) = SubSeq(file, pos + 1, last)
  BY DEF Chunk
<1> HIDE DEF last
<1>5. /\ Chunk(h) \in Seq(TCHAR)
      /\ Len(Chunk(h)) = IF pos + 1 <= last THEN last - (pos + 1) + 1 ELSE 0
  BY <1>1, <1>2, <1>3, <1>4, SubSeqProperties
<1> QED BY <1>1, <1>2, <1>4, <1>5

\* Every variable keeps its type (see TypeOK in Accounts).
THEOREM TypeCorrect == Spec => []TypeOK
<1>1. Init => TypeOK
  <2> SUFFICES ASSUME Init PROVE TypeOK
    OBVIOUS
  <2>1. Len(InitialFile) \in Nat
    BY AccountsAssumption, LenProperties
  <2>2. req \in [Handlers -> Requests]
    <3>1. PICK n \in Names, p \in Passwords : TRUE
      BY AccountsAssumption
    <3>2. [op |-> "login", name |-> n, pass |-> p] \in Requests
      BY DEF Requests
    <3>3. (CHOOSE r \in Requests : TRUE) \in Requests
      BY <3>2
    <3> QED BY <3>3 DEF Init
  <2> QED BY <2>1, <2>2, AccountsAssumption
          DEF Init, TypeOK, Locks, Unlocked, Places
<1>2. TypeOK /\ [Next]_vars => TypeOK'
  <2> SUFFICES ASSUME TypeOK, [Next]_vars PROVE TypeOK'
    OBVIOUS
  <2> USE DEF Goto, Places
  <2>1. Len(file) \in Nat
    BY LenProperties DEF TypeOK
  <2>2. ASSUME NEW h \in Handlers, Begin(h) PROVE TypeOK'
    BY <2>2, AccountsAssumption DEF Begin, TypeOK
  <2>3. ASSUME NEW h \in Handlers, Measure(h) PROVE TypeOK'
    BY <2>1, <2>3 DEF Measure, TypeOK
  <2>4. ASSUME NEW h \in Handlers, AcquireToRewind(h) PROVE TypeOK'
    BY <2>4 DEF AcquireToRewind, TypeOK, Locks, Lock
  <2>5. ASSUME NEW h \in Handlers, Rewind(h) PROVE TypeOK'
    BY <2>1, <2>5 DEF Rewind, TypeOK
  <2>6. ASSUME NEW h \in Handlers, ReleaseRewound(h) PROVE TypeOK'
    BY <2>6 DEF ReleaseRewound, TypeOK, Locks, Unlock
  <2>7. ASSUME NEW h \in Handlers, EnterScan(h) PROVE TypeOK'
    BY <2>7 DEF EnterScan, TypeOK, Locks, Share
  <2>8. ASSUME NEW h \in Handlers, ReadChunk(h) PROVE TypeOK'
    <3>1. pos' \in 0..Len(file)
      BY <2>8, ChunkIsWindow DEF ReadChunk, Advanced
    <3>2. pos \in Nat
      BY <2>1 DEF TypeOK
    <3>3. CASE Len(Chunk(h)) < 3
      BY <2>1, <2>8, <3>1, <3>3 DEF ReadChunk, TypeOK
    <3>4. CASE ~(Len(Chunk(h)) < 3)
      BY <2>1, <2>8, <3>1, <3>2, <3>4 DEF ReadChunk, TypeOK
    <3> QED BY <3>3, <3>4
  <2>9. ASSUME NEW h \in Handlers, LeaveScan(h) PROVE TypeOK'
    BY <2>9 DEF LeaveScan, TypeOK, Locks, Unshare
  <2>10. ASSUME NEW h \in Handlers, Refuse(h) \/ AcceptLogin(h) PROVE TypeOK'
    BY <2>10 DEF Refuse, AcceptLogin, TypeOK
  <2>11. ASSUME NEW h \in Handlers, AcquireToAppend(h) PROVE TypeOK'
    BY <2>11 DEF AcquireToAppend, TypeOK, Locks, Lock
  <2>12. ASSUME NEW h \in Handlers, WriteRecord(h) PROVE TypeOK'
    <3>1. Record(req[h].name, req[h].pass) \in Seq(TCHAR)
      BY RecordType DEF TypeOK
    <3>2. file' \in Seq(TCHAR)
      BY <2>12, <3>1, ConcatProperties DEF WriteRecord, TypeOK
    <3>3. pos' \in 0..Len(file')
      BY <2>12, <3>2, LenProperties DEF WriteRecord
    <3> QED BY <2>12, <3>2, <3>3 DEF WriteRecord, TypeOK
  <2>13. ASSUME NEW h \in Handlers, ReleaseAppended(h) PROVE TypeOK'
    BY <2>13 DEF ReleaseAppended, TypeOK, Locks, Unlock
  <2>14. ASSUME NEW h \in Handlers, Acknowledge(h) PROVE TypeOK'
    BY <2>14 DEF Acknowledge, TypeOK
  <2>15. ASSUME NEW h \in Handlers, Fail(h) PROVE TypeOK'
    <3>1. faults' \in 0..MaxFaults
      BY <2>15, AccountsAssumption
         DEF Fail, MeasureFails, LoginRewindFails, CheckRewindFails,
             RecordAllocFails, WriteFails, Fault, TypeOK
    <3>2. pc' \in [Handlers -> Places] /\ found' \in [Handlers -> {-1, 0, 1}]
      BY <2>15
         DEF Fail, MeasureFails, LoginRewindFails, CheckRewindFails,
             RecordAllocFails, WriteFails, TypeOK
    <3>3. UNCHANGED <<file, pos, lock, req, size, eof, start, acked, issued>>
      BY <2>15
         DEF Fail, MeasureFails, LoginRewindFails, CheckRewindFails,
             RecordAllocFails, WriteFails
    <3> QED BY <3>1, <3>2, <3>3 DEF TypeOK
  <2>16. CASE Restart
    BY <2>1, <2>16, AccountsAssumption DEF Restart, Fault, TypeOK, Locks, Unlocked
  <2>17. CASE UNCHANGED vars
    BY <2>17 DEF vars, TypeOK
  <2>18. CASE Rest
    BY <2>17, <2>18 DEF Rest
  <2> QED
    BY <2>2, <2>3, <2>4, <2>5, <2>6, <2>7, <2>8, <2>9, <2>10, <2>11, <2>12,
       <2>13, <2>14, <2>15, <2>16, <2>17, <2>18 DEF Next, Scan, Conclude
<1> QED BY <1>1, <1>2, PTL DEF Spec

---------------------------------------------------------------------------
(* The lock and the file.                                                   *)

\* What a handler's place says about the lock.  A handler that failed inside
\* the exclusive section leaves its place without the lock being free, which
\* only makes the places below harder to reach.
LockInv ==
  /\ lock.writer = {} \/ lock.readers = {}
  /\ \A h \in Handlers :
       /\ pc[h] \in {"rewinding", "rewound", "appending", "appended"} => lock.writer = {h}
       /\ pc[h] \in {"scan", "leave"} => h \in lock.readers

\* The lock is held as the places say, by one writer or by readers.
THEOREM LockHeld == Spec => []LockInv
<1>1. Init => LockInv
  BY DEF Init, LockInv, Unlocked
<1>2. TypeOK /\ LockInv /\ [Next]_vars => LockInv'
  <2> SUFFICES ASSUME TypeOK, LockInv, [Next]_vars PROVE LockInv'
    OBVIOUS
  <2> USE DEF Goto, LockInv, CanLock, CanShare
  <2>1. lock \in Locks(Handlers) /\ pc \in [Handlers -> Places]
    BY DEF TypeOK
  <2>2. ASSUME NEW h \in Handlers,
               Begin(h) \/ Measure(h) \/ Rewind(h) \/ ReadChunk(h) \/ Refuse(h)
                 \/ AcceptLogin(h) \/ WriteRecord(h) \/ Acknowledge(h)
        PROVE  LockInv'
    BY <2>1, <2>2
       DEF Begin, Measure, Rewind, ReadChunk, Refuse, AcceptLogin, WriteRecord,
           Acknowledge
  <2>3. ASSUME NEW h \in Handlers, AcquireToRewind(h) \/ AcquireToAppend(h)
        PROVE  LockInv'
    BY <2>1, <2>3 DEF AcquireToRewind, AcquireToAppend, Lock, Locks
  <2>4. ASSUME NEW h \in Handlers, ReleaseRewound(h) \/ ReleaseAppended(h)
        PROVE  LockInv'
    BY <2>1, <2>4 DEF ReleaseRewound, ReleaseAppended, Unlock, Locks
  <2>5. ASSUME NEW h \in Handlers, EnterScan(h) PROVE LockInv'
    BY <2>1, <2>5 DEF EnterScan, Share, Locks
  <2>6. ASSUME NEW h \in Handlers, LeaveScan(h) PROVE LockInv'
    BY <2>1, <2>6 DEF LeaveScan, Unshare, Locks
  <2>7. ASSUME NEW h \in Handlers, Fail(h) PROVE LockInv'
    BY <2>1, <2>7
       DEF Fail, MeasureFails, LoginRewindFails, CheckRewindFails,
           RecordAllocFails, WriteFails
  <2>8. CASE Restart
    BY <2>8 DEF Restart, Unlocked
  <2>9. CASE UNCHANGED vars
    BY <2>9 DEF vars
  <2>10. CASE Rest
    BY <2>9, <2>10 DEF Rest
  <2> QED
    BY <2>2, <2>3, <2>4, <2>5, <2>6, <2>7, <2>8, <2>9, <2>10
       DEF Next, Scan, Conclude
<1> QED BY <1>1, <1>2, TypeCorrect, PTL DEF Spec

\* WriteRecord is the only step that changes the file.
LEMMA FileSteps ==
  ASSUME [Next]_vars
  PROVE  file' = file \/ \E h \in Handlers : WriteRecord(h)
BY DEF Next, Scan, Conclude, Fail, Begin, Measure, AcquireToRewind, Rewind,
       ReleaseRewound, EnterScan, ReadChunk, LeaveScan, Refuse, AcceptLogin,
       AcquireToAppend, ReleaseAppended, Acknowledge, MeasureFails,
       LoginRewindFails, CheckRewindFails, RecordAllocFails, WriteFails,
       Restart, Rest, vars

\* Lines of the file are complete: it never ends inside a record.
FileInv == Terminated(file)

\* RegisterClient is the only one to write to the file, and it appends a whole
\* line under the exclusive lock, with the pointer at the end of the file.
THEOREM LinesComplete == Spec => []FileInv
<1>1. Init => FileInv
  BY AccountsAssumption DEF Init, FileInv
<1>2. TypeOK /\ FileInv /\ [Next]_vars => FileInv'
  <2> SUFFICES ASSUME TypeOK, FileInv, [Next]_vars PROVE FileInv'
    OBVIOUS
  <2>1. CASE file' = file
    BY <2>1 DEF FileInv
  <2>2. ASSUME NEW h \in Handlers, WriteRecord(h) PROVE FileInv'
    BY <2>2, AppendedRecord DEF WriteRecord, FileInv, TypeOK
  <2> QED BY <2>1, <2>2, FileSteps
<1> QED BY <1>1, <1>2, TypeCorrect, PTL DEF Spec

\* The file only grows at its end, and never under a reader (see AppendOnly).
THEOREM FileAppendOnly == Spec => AppendOnly
<1>1. TypeOK /\ LockInv /\ FileInv /\ [Next]_vars =>
        [file' # file =>
           /\ SubSeq(file', 1, Len(file)) = file
           /\ \A h \in Handlers : pc[h] \notin {"scan", "leave"}]_vars
  <2> SUFFICES ASSUME TypeOK, LockInv, FileInv, [Next]_vars, file' # file
               PROVE  /\ SubSeq(file', 1, Len(file)) = file
                      /\ \A h \in Handlers : pc[h] \notin {"scan", "leave"}
    OBVIOUS
  <2>1. PICK w \in Handlers : WriteRecord(w)
    BY FileSteps
  <2>2. SubSeq(file', 1, Len(file)) = file
    BY <2>1, AppendedRecord DEF WriteRecord, FileInv, TypeOK
  <2>3. lock.writer = {w} /\ lock.readers = {}
    BY <2>1 DEF WriteRecord, Goto, LockInv
  <2> QED BY <2>2, <2>3 DEF LockInv
<1> QED BY <1>1, TypeCorrect, LockHeld, LinesComplete, PTL DEF Spec, AppendOnly

---------------------------------------------------------------------------
(* Acknowledged registrations.                                              *)

\* No step loses a stored record.
LEMMA StoredKept ==
  ASSUME TypeOK, FileInv, [Next]_vars, NEW q \in Requests,
         Stored(file, q.name, q.pass)
  PROVE  Stored(file, q.name, q.pass)'
<1>1. CASE file' = file
  BY <1>1
<1>2. ASSUME NEW h \in Handlers, WriteRecord(h)
      PROVE  Stored(file, q.name, q.pass)'
  BY <1>2, AppendedRecord DEF WriteRecord, FileInv, TypeOK
<1> QED BY <1>1, <1>2, FileSteps

\* Durable is not inductive: a handler between its write and its reply has
\* stored the record it is about to acknowledge.
Written ==
  \A h \in Handlers :
    pc[h] \in {"appended", "reply"} => Stored(file, req[h].name, req[h].pass)

\* Unless a WriteFile fails unnoticed, every acknowledged registration is in
\* the file, for any number of handlers and through restarts (see Durable).
THEOREM AcknowledgedIsDurable ==
  ASSUME "write" \notin FaultKinds
  PROVE  Spec => []Durable
<1> DEFINE Inv == Durable /\ Written
<1>1. Init => Inv
  BY DEF Init, Durable, Written
<1>2. TypeOK /\ FileInv /\ Inv /\ [Next]_vars => Inv'
  <2> SUFFICES ASSUME TypeOK, FileInv, Inv, [Next]_vars PROVE Inv'
    OBVIOUS
  <2> USE DEF Goto
  <2>1. \A q \in Requests : Stored(file, q.name, q.pass) => Stored(file', q.name, q.pass)
    BY StoredKept
  <2>2. req \in [Handlers -> Requests] /\ acked \subseteq Requests
        /\ pc \in [Handlers -> Places]
    BY DEF TypeOK
  <2>3. Written'
    <3> SUFFICES ASSUME NEW g \in Handlers, pc'[g] \in {"appended", "reply"}
                 PROVE  Stored(file', req'[g].name, req'[g].pass)
      BY DEF Written
    <3>1. CASE pc[g] \in {"appended", "reply"} /\ req'[g] = req[g]
      BY <2>1, <2>2, <3>1 DEF Written
    <3>2. ASSUME NEW h \in Handlers, Begin(h) PROVE pc[g] = pc'[g] /\ req'[g] = req[g]
      BY <2>2, <3>2 DEF Begin
    <3>3. ASSUME NEW h \in Handlers, Scan(h) PROVE pc[g] = pc'[g] /\ req'[g] = req[g]
      BY <2>2, <3>3
         DEF Scan, Measure, AcquireToRewind, Rewind, ReleaseRewound, EnterScan,
             ReadChunk, LeaveScan
    <3>4. ASSUME NEW h \in Handlers, WriteRecord(h)
          PROVE  Stored(file', req'[g].name, req'[g].pass)
      <4>1. CASE g = h
        BY <2>2, <3>4, <4>1, AppendedRecord DEF WriteRecord, FileInv, TypeOK
      <4>2. CASE g # h
        BY <2>2, <3>1, <3>4, <4>2 DEF WriteRecord
      <4> QED BY <4>1, <4>2
    <3>5. ASSUME NEW h \in Handlers,
                 Refuse(h) \/ AcceptLogin(h) \/ AcquireToAppend(h)
                   \/ ReleaseAppended(h) \/ Acknowledge(h)
          PROVE  pc[g] \in {"appended", "reply"} /\ req'[g] = req[g]
      BY <2>2, <3>5
         DEF Refuse, AcceptLogin, AcquireToAppend, ReleaseAppended, Acknowledge
    <3>6. ASSUME NEW h \in Handlers, Fail(h) PROVE pc[g] = pc'[g] /\ req'[g] = req[g]
      BY <2>2, <3>6
         DEF Fail, MeasureFails, LoginRewindFails, CheckRewindFails,
             RecordAllocFails, WriteFails, Fault
    <3>7. CASE Restart
      BY <3>7 DEF Restart
    <3>8. CASE UNCHANGED vars
      BY <3>1, <3>8 DEF vars
    <3>9. CASE Rest
      BY <3>8, <3>9 DEF Rest
    <3> QED
      BY <3>1, <3>2, <3>3, <3>4, <3>5, <3>6, <3>7, <3>8, <3>9 DEF Next, Conclude
  <2>4. Durable'
    <3>1. CASE acked' = acked
      BY <2>1, <2>2, <3>1 DEF Durable
    <3>2. ASSUME NEW h \in Handlers, Acknowledge(h) PROVE Durable'
      BY <2>1, <2>2, <3>2 DEF Acknowledge, Durable, Written
    <3>3. acked' = acked \/ \E h \in Handlers : Acknowledge(h)
      BY DEF Next, Scan, Conclude, Fail, Begin, Measure, AcquireToRewind, Rewind,
             ReleaseRewound, EnterScan, ReadChunk, LeaveScan, Refuse, AcceptLogin,
             AcquireToAppend, ReleaseAppended, WriteRecord, MeasureFails,
             LoginRewindFails, CheckRewindFails, RecordAllocFails, WriteFails,
             Restart, Rest, vars
    <3> QED BY <3>1, <3>2, <3>3
  <2> QED BY <2>3, <2>4
<1> QED BY <1>1, <1>2, TypeCorrect, LinesComplete, PTL DEF Spec

---------------------------------------------------------------------------
(* Positive answers.                                                        *)

VerdictFromFile ==
  \A h \in Handlers :
    found[h] = 1 => \E i \in 0..Len(file) : OccursAt(file, i, Evidence(req[h]))

\* However the handlers disturb each other's file pointer, a name is found only
\* where the file holds these characters.
THEOREM FoundIsInFile == Spec => []VerdictFromFile
<1>1. Init => VerdictFromFile
  BY DEF Init, VerdictFromFile
<1>2. TypeOK /\ VerdictFromFile /\ [Next]_vars => VerdictFromFile'
  <2> SUFFICES ASSUME TypeOK, VerdictFromFile, [Next]_vars,
                      NEW g \in Handlers, found'[g] = 1
               PROVE  \E i \in 0..Len(file') : OccursAt(file', i, Evidence(req'[g]))
    BY DEF VerdictFromFile
  <2>1. /\ req \in [Handlers -> Requests] /\ found \in [Handlers -> {-1, 0, 1}]
        /\ file \in Seq(TCHAR) /\ Len(file) \in Nat
    BY LenProperties DEF TypeOK
  <2>2. CASE found[g] = 1 /\ req'[g] = req[g] /\ file' = file
    BY <2>2 DEF VerdictFromFile
  <2>3. ASSUME NEW h \in Handlers, WriteRecord(h)
        PROVE  \E i \in 0..Len(file') : OccursAt(file', i, Evidence(req'[g]))
    <3>1. found[g] = 1 /\ req'[g] = req[g]
      BY <2>3 DEF WriteRecord
    <3>2. PICK i \in 0..Len(file) : OccursAt(file, i, Evidence(req[g]))
      BY <3>1 DEF VerdictFromFile
    <3>3. Record(req[h].name, req[h].pass) \in Seq(TCHAR)
      BY <2>1, RecordType
    <3>4. Evidence(req[g]) \in Seq(TCHAR) /\ Evidence(req[g]) # <<>>
      BY <2>1, EvidenceType
    <3>5. OccursAt(file', i, Evidence(req[g]))
      BY <2>1, <2>3, <3>2, <3>3, <3>4, OccursGrows DEF WriteRecord
    <3>6. i \in 0..Len(file')
      BY <2>1, <2>3, <3>3, ConcatProperties, LenProperties DEF WriteRecord
    <3> QED BY <3>1, <3>5, <3>6
  <2>4. ASSUME NEW h \in Handlers, ReadChunk(h)
        PROVE  \E i \in 0..Len(file') : OccursAt(file', i, Evidence(req'[g]))
    <3>1. file' = file /\ req' = req
      BY <2>4 DEF ReadChunk
    <3>2. CASE found[g] = 1
      BY <2>2, <3>1, <3>2
    <3>3. CASE found[g] # 1
      <4>1. Matches(Chunk(g), req[g]) /\ Len(Chunk(g)) > 0
        <5>1. Chunk(h) \in Seq(TCHAR)
          BY ChunkIsWindow
        <5>2. ~(Len(Chunk(h)) < 3)
          BY <2>4, <3>3 DEF ReadChunk
        <5>3. g = h /\ Matches(Chunk(h), req[h])
          BY <2>1, <2>4, <3>3, <5>2 DEF ReadChunk
        <5> QED BY <5>1, <5>2, <5>3, LenProperties
      <4>2. PICK i \in 0..Len(Chunk(g)) : OccursAt(Chunk(g), i, Evidence(req[g]))
        BY <2>1, <4>1, ChunkIsWindow, MatchHasEvidence
      <4>3. PICK b \in 1..Len(file) :
              /\ pos + 1 <= b /\ pos + 1 \in 1..Len(file)
              /\ Chunk(g) = SubSeq(file, pos + 1, b)
        BY <4>1, ChunkIsWindow
      <4>4. i \in Nat
        BY <4>2, ChunkIsWindow, LenProperties
      <4>5. Evidence(req[g]) \in Seq(TCHAR) /\ Evidence(req[g]) # <<>>
        BY <2>1, EvidenceType
      <4>6. OccursAt(SubSeq(file, pos + 1, b), i, Evidence(req[g]))
        BY <4>2, <4>3
      <4>7. i + (pos + 1) - 1 \in 0..Len(file)
            /\ OccursAt(file, i + (pos + 1) - 1, Evidence(req[g]))
        BY <2>1, <4>3, <4>4, <4>5, <4>6, OccursInWindow
      <4> QED BY <3>1, <4>7
    <3> QED BY <3>2, <3>3
  <2>5. CASE Restart \/ Rest \/ UNCHANGED vars
    BY <2>2, <2>5 DEF Restart, Rest, vars
  <2>6. ASSUME NEW h \in Handlers, Begin(h)
        PROVE  found[g] = 1 /\ req'[g] = req[g] /\ file' = file
    BY <2>1, <2>6 DEF Begin
  <2>7. ASSUME NEW h \in Handlers, Fail(h)
        PROVE  found[g] = 1 /\ req'[g] = req[g] /\ file' = file
    BY <2>1, <2>7
       DEF Fail, MeasureFails, LoginRewindFails, CheckRewindFails,
           RecordAllocFails, WriteFails
  <2>8. ASSUME NEW h \in Handlers,
               \/ Measure(h) \/ AcquireToRewind(h) \/ Rewind(h) \/ ReleaseRewound(h)
               \/ EnterScan(h) \/ LeaveScan(h) \/ Refuse(h) \/ AcceptLogin(h)
               \/ AcquireToAppend(h) \/ ReleaseAppended(h) \/ Acknowledge(h)
        PROVE  found[g] = 1 /\ req'[g] = req[g] /\ file' = file
    BY <2>8
       DEF Measure, AcquireToRewind, Rewind, ReleaseRewound, EnterScan, LeaveScan,
           Refuse, AcceptLogin, AcquireToAppend, ReleaseAppended, Acknowledge
  <2> QED
    BY <2>2, <2>3, <2>4, <2>5, <2>6, <2>7, <2>8 DEF Next, Scan, Conclude
<1> QED BY <1>1, <1>2, TypeCorrect, PTL DEF Spec

---------------------------------------------------------------------------
(* Unnoticed losses.                                                        *)

\* A handler that is past its WriteFile and has not replied yet.
Pending(h) == pc[h] \in {"appended", "reply"}

\* The registrations that were answered, or will be, and are not in the file.
Missing ==
  {r \in Requests : /\ ~Stored(file, r.name, r.pass)
                    /\ r \in acked \/ \E h \in Handlers : Pending(h) /\ req[h] = r}

\* Each of them has its failure.
LossInv == IsFiniteSet(Missing) /\ Cardinality(Missing) <= faults

\* A request comes to be missing in one way only, a WriteFile that fails.
LEMMA MissingSteps ==
  ASSUME TypeOK, FileInv, [Next]_vars, NEW q \in Requests, q \in Missing', q \notin Missing
  PROVE  \E h \in Handlers : WriteFails(h) /\ q = req[h]
<1> USE DEF Goto, Pending
<1>1. ~Stored(file, q.name, q.pass) /\ ~Stored(file, q.name, q.pass)'
  BY StoredKept DEF Missing
<1>2. req \in [Handlers -> Requests] /\ pc \in [Handlers -> Places]
  BY DEF TypeOK
<1>3. q \notin acked /\ \A h \in Handlers : Pending(h) => req[h] # q
  BY <1>1 DEF Missing
<1>4. q \in acked' \/ \E g \in Handlers : Pending(g)' /\ req'[g] = q
  BY DEF Missing
<1>5. ASSUME NEW h \in Handlers, WriteRecord(h) PROVE FALSE
  <2>1. Stored(file, req[h].name, req[h].pass)'
    BY <1>2, <1>5, AppendedRecord DEF WriteRecord, FileInv, TypeOK
  <2>2. req[h] # q
    BY <1>1, <2>1, <1>5 DEF WriteRecord
  <2> QED BY <1>2, <1>3, <1>4, <1>5, <2>2 DEF WriteRecord
<1>6. ASSUME NEW h \in Handlers, WriteFails(h) PROVE q = req[h]
  BY <1>2, <1>3, <1>4, <1>6 DEF WriteFails
<1>7. ASSUME NEW h \in Handlers, Acknowledge(h) PROVE FALSE
  BY <1>2, <1>3, <1>4, <1>7 DEF Acknowledge
<1>8. ASSUME NEW h \in Handlers, Begin(h) \/ Scan(h) PROVE FALSE
  BY <1>2, <1>3, <1>4, <1>8
  DEF Begin, Scan, Measure, AcquireToRewind, Rewind, ReleaseRewound, EnterScan, ReadChunk,
      LeaveScan
<1>9. ASSUME NEW h \in Handlers,
             Refuse(h) \/ AcceptLogin(h) \/ AcquireToAppend(h) \/ ReleaseAppended(h)
      PROVE  FALSE
  BY <1>2, <1>3, <1>4, <1>9 DEF Refuse, AcceptLogin, AcquireToAppend, ReleaseAppended
<1>10. ASSUME NEW h \in Handlers,
              MeasureFails(h) \/ LoginRewindFails(h) \/ CheckRewindFails(h) \/ RecordAllocFails(h)
       PROVE  FALSE
  BY <1>2, <1>3, <1>4, <1>10
  DEF MeasureFails, LoginRewindFails, CheckRewindFails, RecordAllocFails
<1>11. ASSUME Restart \/ Rest \/ UNCHANGED vars PROVE FALSE
  BY <1>3, <1>4, <1>11 DEF Restart, Rest, vars
<1> QED
  BY <1>5, <1>6, <1>7, <1>8, <1>9, <1>10, <1>11 DEF Next, Conclude, Fail

\* Failures are only ever added, and a failing WriteFile is one.
LEMMA FaultSteps ==
  ASSUME TypeOK, [Next]_vars
  PROVE  /\ faults \in Nat /\ faults' \in Nat /\ faults <= faults'
         /\ \A h \in Handlers : WriteFails(h) => faults' = faults + 1
<1>1. faults \in Nat
  BY AccountsAssumption DEF TypeOK
<1>2. faults' = faults \/ faults' = faults + 1
  BY DEF Next, Scan, Conclude, Fail, Begin, Measure, AcquireToRewind, Rewind,
         ReleaseRewound, EnterScan, ReadChunk, LeaveScan, Refuse, AcceptLogin,
         AcquireToAppend, ReleaseAppended, Acknowledge, WriteRecord, MeasureFails,
         LoginRewindFails, CheckRewindFails, RecordAllocFails, WriteFails,
         Restart, Rest, vars, Fault
<1>3. \A h \in Handlers : WriteFails(h) => faults' = faults + 1
  BY DEF WriteFails, Fault
<1> QED BY <1>1, <1>2, <1>3

\* However often WriteFile fails unnoticed, each failure costs one acknowledged
\* registration at most, for any number of handlers (see LostOnlyByFailures).
THEOREM LossesCounted == Spec => []LostOnlyByFailures
<1>1. Init => LossInv
  <2> SUFFICES ASSUME Init PROVE LossInv
    OBVIOUS
  <2>1. Missing = {}
    BY DEF Init, Missing, Pending
  <2> QED BY <2>1, FS_EmptySet DEF Init, LossInv
<1>2. TypeOK /\ FileInv /\ LossInv /\ [Next]_vars => LossInv'
  <2> SUFFICES ASSUME TypeOK, FileInv, LossInv, [Next]_vars PROVE LossInv'
    OBVIOUS
  <2>1. /\ faults \in Nat /\ faults' \in Nat /\ faults <= faults'
        /\ \A h \in Handlers : WriteFails(h) => faults' = faults + 1
    BY FaultSteps
  <2>2. IsFiniteSet(Missing) /\ Cardinality(Missing) \in Nat /\ Cardinality(Missing) <= faults
    BY FS_CardinalityType DEF LossInv
  <2>3. Missing' \subseteq Requests
    BY DEF Missing
  <2>4. CASE Missing' \subseteq Missing
    <3>1. /\ IsFiniteSet(Missing') /\ Cardinality(Missing') \in Nat
          /\ Cardinality(Missing') <= Cardinality(Missing)
      BY <2>2, <2>4, FS_Subset, FS_CardinalityType
    <3> QED BY <2>1, <2>2, <3>1 DEF LossInv
  <2>5. CASE ~ (Missing' \subseteq Missing)
    <3>1. PICK h \in Handlers : WriteFails(h)
      BY <2>3, <2>5, MissingSteps
    <3>2. \A q \in Missing' \ Missing : q = req[h]
      <4> SUFFICES ASSUME NEW q \in Missing' \ Missing PROVE q = req[h]
        OBVIOUS
      <4>1. PICK g \in Handlers : WriteFails(g) /\ q = req[g]
        BY <2>3, MissingSteps
      <4>2. pc \in [Handlers -> Places]
        BY DEF TypeOK
      <4>3. g = h
        BY <3>1, <4>1, <4>2 DEF WriteFails, Goto
      <4> QED BY <4>1, <4>3
    <3>3. Missing' \subseteq Missing \cup {req[h]}
      BY <3>2
    <3>4. /\ IsFiniteSet(Missing \cup {req[h]}) /\ Cardinality(Missing \cup {req[h]}) \in Nat
          /\ Cardinality(Missing \cup {req[h]}) <= Cardinality(Missing) + 1
      <4>1. /\ IsFiniteSet(Missing \cup {req[h]})
            /\ \/ Cardinality(Missing \cup {req[h]}) = Cardinality(Missing)
               \/ Cardinality(Missing \cup {req[h]}) = Cardinality(Missing) + 1
        BY <2>2, FS_AddElement
      <4> QED BY <2>2, <4>1
    <3>5. /\ IsFiniteSet(Missing') /\ Cardinality(Missing') \in Nat
          /\ Cardinality(Missing') <= Cardinality(Missing \cup {req[h]})
      BY <3>3, <3>4, FS_Subset, FS_CardinalityType
    <3>6. faults' = faults + 1
      BY <2>1, <3>1
    <3> QED BY <2>1, <2>2, <3>4, <3>5, <3>6 DEF LossInv
  <2> QED BY <2>4, <2>5
<1>3. TypeOK /\ LossInv => LostOnlyByFailures
  <2> SUFFICES ASSUME TypeOK, LossInv PROVE LostOnlyByFailures
    OBVIOUS
  <2> DEFINE lost == {r \in acked : ~Stored(file, r.name, r.pass)}
  <2>1. lost \in SUBSET Missing
    BY DEF Missing, TypeOK
  <2>2. /\ IsFiniteSet(lost) /\ Cardinality(lost) <= Cardinality(Missing)
        /\ Cardinality(lost) \in Nat /\ Cardinality(Missing) \in Nat
    BY <2>1, FS_Subset, FS_CardinalityType DEF LossInv
  <2>3. faults \in Nat /\ Cardinality(Missing) <= faults
    BY AccountsAssumption DEF TypeOK, LossInv
  <2> QED BY <2>2, <2>3 DEF LostOnlyByFailures
<1> QED BY <1>1, <1>2, <1>3, TypeCorrect, LinesComplete, PTL DEF Spec

---------------------------------------------------------------------------
(* What an undisturbed scan reads: a file of records, position by position.  *)

\* The separators differ from one another.
LEMMA SeparatorsDiffer == Comma # CR /\ Comma # LF /\ CR # LF
BY DEF Comma, CR, LF

\* Names and passwords are not empty and hold no separator.
LEMMA WordsArePlain ==
  ASSUME NEW r \in Requests
  PROVE  /\ r.name \in Seq(TCHAR) /\ Len(r.name) \in Nat \ {0}
         /\ \A j \in 1..Len(r.name) : r.name[j] \notin Separators
         /\ r.pass \in Seq(TCHAR) /\ Len(r.pass) \in Nat \ {0}
         /\ \A j \in 1..Len(r.pass) : r.pass[j] \notin Separators
<1>1. r.name \in Words /\ r.pass \in Words
  BY AccountsAssumption DEF Requests
<1>2. r.name \in Seq(TCHAR \ Separators) /\ r.pass \in Seq(TCHAR \ Separators)
      /\ r.name # <<>> /\ r.pass # <<>>
  BY <1>1 DEF Words
<1>3. Len(r.name) \in Nat \ {0} /\ Len(r.pass) \in Nat \ {0}
  BY <1>2, EmptySeq
<1>4. \A j \in 1..Len(r.name) : r.name[j] \in TCHAR \ Separators
  BY <1>2, ElementOfSeq
<1>5. \A j \in 1..Len(r.pass) : r.pass[j] \in TCHAR \ Separators
  BY <1>2, ElementOfSeq
<1>6. r.name \in Seq(TCHAR) /\ r.pass \in Seq(TCHAR)
  BY RecordType
<1> QED BY <1>3, <1>4, <1>5, <1>6

\* The characters of a record.
LEMMA RecordChars ==
  ASSUME NEW n \in Seq(TCHAR), NEW p \in Seq(TCHAR)
  PROVE  /\ Len(Record(n, p)) = Len(n) + Len(p) + 3
         /\ \A j \in 1..Len(n) : Record(n, p)[j] = n[j]
         /\ Record(n, p)[Len(n) + 1] = Comma
         /\ \A j \in 1..Len(p) : Record(n, p)[Len(n) + 1 + j] = p[j]
         /\ Record(n, p)[Len(n) + Len(p) + 2] = CR /\ Record(n, p)[Len(n) + Len(p) + 3] = LF
<1>n. PICK a \in Nat : a = Len(n)
  BY LenProperties
<1>p. PICK b \in Nat : b = Len(p)
  BY LenProperties
<1>1. Comma \in TCHAR /\ CR \in TCHAR /\ LF \in TCHAR
  BY CharactersAssumption DEF Separators
<1>2. PICK mark : mark = <<Comma>> /\ mark \in Seq(TCHAR) /\ Len(mark) = 1 /\ mark[1] = Comma
  <2>1. <<Comma>> \in Seq(TCHAR) /\ Len(<<Comma>>) = 1 /\ <<Comma>>[1] = Comma
    BY <1>1
  <2> QED BY <2>1
<1>3. PICK break : break = <<CR, LF>> /\ break \in Seq(TCHAR) /\ Len(break) = 2
                     /\ break[1] = CR /\ break[2] = LF
  <2>1. <<CR, LF>> \in Seq(TCHAR) /\ Len(<<CR, LF>>) = 2 /\ <<CR, LF>>[1] = CR /\ <<CR, LF>>[2] = LF
    BY <1>1
  <2> QED BY <2>1
<1>4. PICK head : head = n \o mark
  OBVIOUS
<1>5. /\ head \in Seq(TCHAR) /\ Len(head) = a + 1
      /\ \A j \in 1..(a + 1) : head[j] = IF j <= a THEN n[j] ELSE mark[j - a]
  BY <1>n, <1>1, <1>2, <1>4, ConcatProperties
<1>6. PICK line : line = head \o p
  OBVIOUS
<1>7. /\ line \in Seq(TCHAR) /\ Len(line) = a + 1 + b
      /\ \A j \in 1..(a + 1 + b) : line[j] = IF j <= a + 1 THEN head[j] ELSE p[j - (a + 1)]
  <2>1. head \in Seq(TCHAR) /\ Len(head) = a + 1
    BY <1>5
  <2>2. /\ head \o p \in Seq(TCHAR) /\ Len(head \o p) = Len(head) + Len(p)
        /\ \A j \in 1..(Len(head) + Len(p)) :
             (head \o p)[j] = IF j <= Len(head) THEN head[j] ELSE p[j - Len(head)]
    BY <2>1, ConcatProperties
  <2> QED BY <1>p, <1>6, <2>1, <2>2
<1>8. PICK rec : rec = line \o break
  OBVIOUS
<1>9. /\ Len(rec) = a + 1 + b + 2
      /\ \A j \in 1..(a + 1 + b + 2) :
           rec[j] = IF j <= a + 1 + b THEN line[j] ELSE break[j - (a + 1 + b)]
  BY <1>1, <1>3, <1>7, <1>8, ConcatProperties
<1>10. rec = Record(n, p)
  <2>1. line \o break = head \o (p \o break)
    <3>1. head \in Seq(TCHAR) /\ p \in Seq(TCHAR) /\ break \in Seq(TCHAR)
      BY <1>1, <1>3, <1>5
    <3>2. (head \o p) \o break = head \o (p \o break)
      BY <3>1, ConcatAssociative
    <3> QED BY <1>6, <3>2
  <2>2. p \o break \in Seq(TCHAR)
    BY <1>1, <1>3, ConcatProperties
  <2>3. head \o (p \o break) = n \o (mark \o (p \o break))
    BY <1>1, <1>2, <1>4, <2>2, ConcatAssociative
  <2>4. Record(n, p) = line \o break
    BY <1>1, <1>2, <1>3, <1>4, <1>5, <1>6, <2>1, <2>3, ConcatAssociative DEF Record
  <2> QED BY <1>8, <2>4
<1>11. Len(rec) = a + b + 3
  BY <1>1, <1>9
<1>12. ASSUME NEW j \in 1..a PROVE rec[j] = n[j]
  <2>1. j \in 1..(a + 1) /\ j \in 1..(a + 1 + b) /\ j \in 1..(a + 1 + b + 2) /\ j <= a
        /\ j <= a + 1 /\ j <= a + 1 + b
    BY <1>1
  <2> QED BY <2>1, <1>5, <1>7, <1>9
<1>13. rec[a + 1] = Comma
  <2>1. a + 1 \in 1..(a + 1) /\ a + 1 \in 1..(a + 1 + b) /\ a + 1 \in 1..(a + 1 + b + 2)
        /\ ~ (a + 1 <= a) /\ a + 1 <= a + 1 + b /\ (a + 1) - a = 1
    BY <1>1
  <2> QED BY <2>1, <1>2, <1>5, <1>7, <1>9
<1>14. ASSUME NEW j \in 1..b PROVE rec[a + 1 + j] = p[j]
  <2>1. /\ a + 1 + j \in 1..(a + 1 + b) /\ a + 1 + j \in 1..(a + 1 + b + 2)
        /\ ~ (a + 1 + j <= a + 1) /\ a + 1 + j <= a + 1 + b /\ (a + 1 + j) - (a + 1) = j
    BY <1>1
  <2> QED BY <2>1, <1>7, <1>9
<1>15. rec[a + b + 2] = CR /\ rec[a + b + 3] = LF
  <2>1. /\ a + b + 2 \in 1..(a + 1 + b + 2) /\ a + b + 3 \in 1..(a + 1 + b + 2)
        /\ ~ (a + b + 2 <= a + 1 + b) /\ ~ (a + b + 3 <= a + 1 + b)
        /\ (a + b + 2) - (a + 1 + b) = 1 /\ (a + b + 3) - (a + 1 + b) = 2
    BY <1>1
  <2> QED BY <2>1, <1>3, <1>9
<1> QED BY <1>n, <1>p, <1>10, <1>11, <1>12, <1>13, <1>14, <1>15

\* A record whose name and password have a and b characters stands in f behind i.
Stands(f, i, r, a, b) ==
  /\ i + a + b + 3 <= Len(f)
  /\ \A j \in 1..a : f[i + j] = r.name[j]
  /\ \A k \in (i + 1)..(i + a) : f[k] \notin Separators
  /\ f[i + a + 1] = Comma
  /\ \A j \in 1..b : f[i + a + 1 + j] = r.pass[j]
  /\ \A k \in (i + a + 2)..(i + a + b + 1) : f[k] \notin Separators
  /\ f[i + a + b + 2] = CR /\ f[i + a + b + 3] = LF

\* These are the lengths of its parts.
Lengths(r, a, b) ==
  Len(r.name) = a /\ Len(r.pass) = b /\ Len(Record(r.name, r.pass)) = a + b + 3

\* Where the parts of a record stand in a file that holds it.
LEMMA RecordStands ==
  ASSUME NEW f \in Seq(TCHAR), NEW i \in Nat, NEW r \in Requests,
         OccursAt(f, i, Record(r.name, r.pass))
  PROVE  \E a \in Nat \ {0} : \E b \in Nat \ {0} : Lengths(r, a, b) /\ Stands(f, i, r, a, b)
<1>1. PICK a \in Nat \ {0} : a = Len(r.name)
  BY WordsArePlain
<1>2. PICK b \in Nat \ {0} : b = Len(r.pass)
  BY WordsArePlain
<1>3. PICK rec : rec = Record(r.name, r.pass)
  OBVIOUS
<1>4. /\ Len(rec) = a + b + 3
      /\ \A j \in 1..a : rec[j] = r.name[j]
      /\ rec[a + 1] = Comma
      /\ \A j \in 1..b : rec[a + 1 + j] = r.pass[j]
      /\ rec[a + b + 2] = CR /\ rec[a + b + 3] = LF
  <2>1. r.name \in Seq(TCHAR) /\ r.pass \in Seq(TCHAR)
    BY WordsArePlain
  <2>2. PICK n \in Seq(TCHAR) : n = r.name
    BY <2>1
  <2>3. PICK p \in Seq(TCHAR) : p = r.pass
    BY <2>1
  <2>4. a \in Nat /\ b \in Nat /\ Len(n) = a /\ Len(p) = b /\ rec = Record(n, p)
    BY <1>1, <1>2, <1>3, <2>2, <2>3
  <2>5. /\ Len(rec) = a + b + 3
        /\ \A j \in 1..a : rec[j] = n[j]
        /\ rec[a + 1] = Comma
        /\ \A j \in 1..b : rec[a + 1 + j] = p[j]
        /\ rec[a + b + 2] = CR /\ rec[a + b + 3] = LF
    BY <2>4, RecordChars
  <2> QED BY <2>2, <2>3, <2>5
<1>5. i + a + b + 3 <= Len(f) /\ SubSeq(f, i + 1, i + (a + b + 3)) = rec /\ Len(f) \in Nat
  BY <1>3, <1>4, LenProperties DEF OccursAt
<1>6. ASSUME NEW j \in 1..(a + b + 3) PROVE f[i + j] = rec[j]
  <2>1. \A k \in (i + 1)..(i + (a + b + 3)) : f[k] \in TCHAR
    BY <1>5, ElementOfSeq
  <2>2. \A k \in 1..((i + (a + b + 3)) - (i + 1) + 1) :
          SubSeq(f, i + 1, i + (a + b + 3))[k] = f[(i + 1) + k - 1]
    BY <2>1, SubSeqProperties
  <2>3. j \in 1..((i + (a + b + 3)) - (i + 1) + 1) /\ (i + 1) + j - 1 = i + j
    OBVIOUS
  <2> QED BY <1>5, <2>2, <2>3
<1>7. ASSUME NEW j \in 1..a PROVE f[i + j] = r.name[j]
  <2>1. j \in 1..(a + b + 3)
    OBVIOUS
  <2> QED BY <1>4, <1>6, <2>1
<1>8. ASSUME NEW j \in 1..b PROVE f[i + a + 1 + j] = r.pass[j]
  <2>1. a + 1 + j \in 1..(a + b + 3) /\ i + (a + 1 + j) = i + a + 1 + j
    OBVIOUS
  <2> QED BY <1>4, <1>6, <2>1
<1>9. f[i + a + 1] = Comma /\ f[i + a + b + 2] = CR /\ f[i + a + b + 3] = LF
  <2>1. /\ a + 1 \in 1..(a + b + 3) /\ a + b + 2 \in 1..(a + b + 3) /\ a + b + 3 \in 1..(a + b + 3)
        /\ i + (a + 1) = i + a + 1 /\ i + (a + b + 2) = i + a + b + 2
        /\ i + (a + b + 3) = i + a + b + 3
    OBVIOUS
  <2> QED BY <1>4, <1>6, <2>1
<1>10. ASSUME NEW k \in (i + 1)..(i + a) PROVE f[k] \notin Separators
  <2>1. k - i \in 1..a /\ i + (k - i) = k
    OBVIOUS
  <2> QED BY <1>1, <1>7, <2>1, WordsArePlain
<1>11. ASSUME NEW k \in (i + a + 2)..(i + a + b + 1) PROVE f[k] \notin Separators
  <2>1. k - (i + a + 1) \in 1..b /\ i + a + 1 + (k - (i + a + 1)) = k
    OBVIOUS
  <2> QED BY <1>2, <1>8, <2>1, WordsArePlain
<1>12. Lengths(r, a, b)
  BY <1>1, <1>2, <1>3, <1>4 DEF Lengths
<1>13. Stands(f, i, r, a, b)
  BY <1>5, <1>7, <1>8, <1>9, <1>10, <1>11 DEF Stands
<1> QED BY <1>12, <1>13

\* FirstAt returns the index of a wanted character that has none before it.
LEMMA FirstAtIs ==
  ASSUME NEW S, NEW w \in Seq(S), NEW i \in Nat \ {0}, NEW c,
         NEW m \in i..Len(w), w[m] = c, \A k \in i..(m - 1) : w[k] # c
  PROVE  FirstAt(w, i, {c}) = m
<1>1. PICK m1 : m1 = FirstAt(w, i, {c})
  OBVIOUS
<1> DEFINE hits == {k \in i..Len(w) : w[k] \in {c}}
<1>2. m \in hits /\ hits \in SUBSET Nat
  BY LenProperties
<1>3. \E k \in hits : \A j \in hits : k <= j
  BY <1>2, LeastNat
<1>4. m1 = CHOOSE k \in hits : \A j \in hits : k <= j
  BY <1>1, <1>2 DEF FirstAt
<1>5. m1 \in hits /\ \A j \in hits : m1 <= j
  BY <1>3, <1>4
<1>6. m1 \in i..Len(w) /\ w[m1] = c /\ m1 <= m /\ m \in Nat
  BY <1>2, <1>5
<1> HIDE DEF hits
<1>7. m1 = m
  BY <1>6, LenProperties
<1> QED BY <1>1, <1>7

\* Every character of a file of records belongs to one of them.
LEMMA Covered ==
  ASSUME NEW f \in Seq(TCHAR), Recorded(f), NEW k \in 1..Len(f)
  PROVE  \E i \in LineBreaks(f) : \E r \in Requests :
           /\ i \in Nat /\ i < k /\ OccursAt(f, i, Record(r.name, r.pass))
           /\ k <= i + Len(Record(r.name, r.pass))
<1>1. Len(f) \in Nat /\ k \in Nat /\ k >= 1 /\ k <= Len(f)
  BY LenProperties
<1>2. PICK back : back = {m \in 0..(k - 1) : k - 1 - m \in LineBreaks(f)}
  OBVIOUS
<1>3. back \in SUBSET Nat /\ back # {}
  <2>1. 0 \in LineBreaks(f)
    BY <1>1 DEF LineBreaks
  <2>2. k - 1 \in back
    BY <1>1, <1>2, <2>1
  <2>3. back \in SUBSET Nat
    BY <1>1, <1>2
  <2> QED BY <2>2, <2>3
<1>4. PICK m \in back : \A j \in back : m <= j
  BY <1>3, LeastNat
<1>5. PICK i \in Nat : i = k - 1 - m
  BY <1>1, <1>2
<1>6. i \in LineBreaks(f) /\ i < k /\ i # Len(f) /\ m = k - 1 - i
  BY <1>1, <1>2, <1>5
<1>7. ASSUME NEW e \in LineBreaks(f), e > i PROVE e >= k
  <2>1. e \in Nat
    BY <1>1 DEF LineBreaks
  <2>2. CASE e < k
    <3>1. k - 1 - e \in 0..(k - 1) /\ k - 1 - (k - 1 - e) = e
      BY <1>1, <2>1, <2>2
    <3>2. k - 1 - e \in back
      BY <1>2, <3>1
    <3>3. m <= k - 1 - e
      BY <1>4, <3>2
    <3> QED BY <1>1, <1>6, <1>7, <2>1, <3>3
  <2> QED BY <1>1, <2>1, <2>2
<1>8. PICK r \in Requests : OccursAt(f, i, Record(r.name, r.pass))
  BY <1>6 DEF Recorded
<1>r. PICK a \in Nat \ {0}, b \in Nat \ {0} : Lengths(r, a, b) /\ Stands(f, i, r, a, b)
  BY <1>8, RecordStands
<1>9. /\ Len(Record(r.name, r.pass)) = a + b + 3
      /\ i + a + b + 3 <= Len(f) /\ f[i + a + b + 3] = LF
  BY <1>r DEF Lengths, Stands
<1>10. i + a + b + 3 \in LineBreaks(f)
  BY <1>1, <1>9 DEF LineBreaks
<1>11. k <= i + a + b + 3
  BY <1>1, <1>7, <1>9, <1>10
<1> QED BY <1>6, <1>8, <1>9, <1>11

\* In such a file CR and LF only occur together, at the end of a record.
LEMMA BreaksPaired ==
  ASSUME NEW f \in Seq(TCHAR), Recorded(f), NEW k \in 1..Len(f)
  PROVE  /\ f[k] = CR => k + 1 \in 1..Len(f) /\ f[k + 1] = LF
         /\ f[k] = LF => k - 1 \in 1..Len(f) /\ f[k - 1] = CR
<1>1. PICK i \in LineBreaks(f), r \in Requests :
        /\ i \in Nat /\ i < k /\ OccursAt(f, i, Record(r.name, r.pass))
        /\ k <= i + Len(Record(r.name, r.pass))
  BY Covered
<1>r. PICK a \in Nat \ {0}, b \in Nat \ {0} : Lengths(r, a, b) /\ Stands(f, i, r, a, b)
  BY <1>1, RecordStands
<1>2. /\ Len(Record(r.name, r.pass)) = a + b + 3 /\ i + a + b + 3 <= Len(f)
      /\ \A j \in (i + 1)..(i + a) : f[j] \notin Separators
      /\ f[i + a + 1] = Comma
      /\ \A j \in (i + a + 2)..(i + a + b + 1) : f[j] \notin Separators
      /\ f[i + a + b + 2] = CR /\ f[i + a + b + 3] = LF
  BY <1>r DEF Lengths, Stands
<1>3. Len(f) \in Nat /\ k \in Nat /\ i < k /\ k <= i + a + b + 3
  BY <1>1, <1>2, LenProperties
<1>4. \/ k \in (i + 1)..(i + a) \/ k = i + a + 1 \/ k \in (i + a + 2)..(i + a + b + 1)
      \/ k = i + a + b + 2 \/ k = i + a + b + 3
  BY <1>1, <1>2, <1>3
<1>5. CR \in Separators /\ LF \in Separators /\ f[k] \notin Separators => f[k] # CR /\ f[k] # LF
  BY DEF Separators
<1>6. CASE f[k] = CR
  <2>1. k = i + a + b + 2
    BY <1>2, <1>4, <1>6, SeparatorsDiffer DEF Separators
  <2>2. k + 1 = i + a + b + 3 /\ k + 1 \in 1..Len(f)
    BY <1>1, <1>2, <1>3, <2>1
  <2> QED BY <1>2, <1>6, <2>2, SeparatorsDiffer
<1>7. CASE f[k] = LF
  <2>1. k = i + a + b + 3
    BY <1>2, <1>4, <1>7, SeparatorsDiffer DEF Separators
  <2>2. k - 1 = i + a + b + 2 /\ k - 1 \in 1..Len(f)
    BY <1>1, <1>2, <1>3, <2>1
  <2> QED BY <1>2, <1>7, <2>2, SeparatorsDiffer
<1> QED BY <1>6, <1>7

\* A record ends where, or before, any later line starts.
LEMMA RecordFits ==
  ASSUME NEW f \in Seq(TCHAR), NEW i \in Nat, NEW r \in Requests,
         OccursAt(f, i, Record(r.name, r.pass)), NEW s \in LineBreaks(f), i < s
  PROVE  i + Len(Record(r.name, r.pass)) <= s
<1>r. PICK a \in Nat \ {0}, b \in Nat \ {0} : Lengths(r, a, b) /\ Stands(f, i, r, a, b)
  BY RecordStands
<1>1. /\ Len(Record(r.name, r.pass)) = a + b + 3
      /\ \A j \in (i + 1)..(i + a) : f[j] \notin Separators
      /\ f[i + a + 1] = Comma
      /\ \A j \in (i + a + 2)..(i + a + b + 1) : f[j] \notin Separators
      /\ f[i + a + b + 2] = CR
  BY <1>r DEF Lengths, Stands
<1>2. s \in Nat /\ f[s] = LF
  BY LenProperties DEF LineBreaks
<1>3. SUFFICES ASSUME s < i + a + b + 3 PROVE FALSE
  BY <1>1, <1>2
<1>4. \/ s \in (i + 1)..(i + a) \/ s = i + a + 1 \/ s \in (i + a + 2)..(i + a + b + 1)
      \/ s = i + a + b + 2
  BY <1>2, <1>3
<1> QED BY <1>1, <1>2, <1>4, SeparatorsDiffer DEF Separators

\* The beginning of a file up to position t.
LEMMA Beginning ==
  ASSUME NEW f \in Seq(TCHAR), NEW t \in 0..Len(f)
  PROVE  /\ SubSeq(f, 1, t) \in Seq(TCHAR) /\ Len(SubSeq(f, 1, t)) = t
         /\ \A k \in 1..t : SubSeq(f, 1, t)[k] = f[k]
         /\ LineBreaks(SubSeq(f, 1, t)) = {i \in LineBreaks(f) : i <= t}
<1>1. Len(f) \in Nat /\ t \in Nat /\ t <= Len(f)
  BY LenProperties
<1>2. \A k \in 1..t : f[k] \in TCHAR
  BY <1>1, ElementOfSeq
<1>3. PICK p : p = SubSeq(f, 1, t)
  OBVIOUS
<1>4. /\ SubSeq(f, 1, t) \in Seq(TCHAR) /\ Len(SubSeq(f, 1, t)) = IF 1 <= t THEN t - 1 + 1 ELSE 0
      /\ \A k \in 1..(t - 1 + 1) : SubSeq(f, 1, t)[k] = f[1 + k - 1]
  <2>1. 1 \in Int /\ t \in Int
    BY <1>1
  <2> QED BY <1>2, <2>1, SubSeqProperties
<1>5. p \in Seq(TCHAR) /\ Len(p) = t
  <2>1. t = IF 1 <= t THEN t - 1 + 1 ELSE 0
    BY <1>1
  <2> QED BY <1>3, <1>4, <2>1
<1>6. ASSUME NEW k \in 1..t PROVE p[k] = f[k]
  <2>1. k \in 1..(t - 1 + 1) /\ 1 + k - 1 = k
    BY <1>1
  <2>2. SubSeq(f, 1, t)[k] = f[1 + k - 1]
    BY <1>4, <2>1
  <2> QED BY <1>3, <2>1, <2>2
<1>7. LineBreaks(p) = {i \in LineBreaks(f) : i <= t}
  <2>1. ASSUME NEW i PROVE i \in LineBreaks(p) <=> i \in LineBreaks(f) /\ i <= t
    <3>1. i \in 0..t <=> i \in 0..Len(f) /\ i <= t
      BY <1>1
    <3>2. i \in 0..t /\ i # 0 => p[i] = f[i]
      BY <1>1, <1>6
    <3> QED BY <1>5, <3>1, <3>2 DEF LineBreaks
  <2> QED BY <2>1
<1> QED BY <1>3, <1>5, <1>6, <1>7

\* A text occurs in the beginning of a file if it does so in the file, early enough.
LEMMA OccursEarly ==
  ASSUME NEW f \in Seq(TCHAR), NEW t \in 0..Len(f), NEW i \in Nat,
         NEW text \in Seq(TCHAR), text # <<>>
  PROVE  OccursAt(SubSeq(f, 1, t), i, text) <=> OccursAt(f, i, text) /\ i + Len(text) <= t
<1>1. Len(f) \in Nat /\ t \in Nat /\ t <= Len(f) /\ Len(text) \in Nat \ {0}
  BY LenProperties, EmptySeq
<1>2. SubSeq(f, 1, t) \in Seq(TCHAR) /\ Len(SubSeq(f, 1, t)) = t
  BY Beginning
<1>3. CASE i + Len(text) <= t
  <2>1. 1 \in 1..Len(f) /\ t \in 1..Len(f)
        /\ i + 1 \in 1..(t - 1 + 1) /\ i + Len(text) \in 1..(t - 1 + 1)
    BY <1>1, <1>3
  <2>2. SubSeq(SubSeq(f, 1, t), i + 1, i + Len(text))
          = SubSeq(f, 1 + (i + 1) - 1, 1 + (i + Len(text)) - 1)
    BY <2>1, SubSeqOfSubSeq
  <2>3. 1 + (i + 1) - 1 = i + 1 /\ 1 + (i + Len(text)) - 1 = i + Len(text)
    BY <1>1
  <2>4. i + Len(text) <= Len(f)
    BY <1>1, <1>3
  <2> QED BY <1>2, <1>3, <2>2, <2>3, <2>4 DEF OccursAt
<1>4. CASE ~ (i + Len(text) <= t)
  BY <1>2, <1>4 DEF OccursAt
<1> QED BY <1>3, <1>4

\* A word that stands in a text behind position g is read off it.
LEMMA WordRead ==
  ASSUME NEW w \in Seq(TCHAR), NEW v \in Seq(TCHAR), NEW g \in Nat, NEW n \in Nat,
         g + n <= Len(w), Len(v) = n, \A j \in 1..n : w[g + j] = v[j]
  PROVE  SubSeq(w, g + 1, g + n) = v
<1>1. Len(w) \in Nat
  BY LenProperties
<1>2. PICK m \in Int, l \in Int : m = g + 1 /\ l = g + n
  OBVIOUS
<1>3. \A k \in m..l : w[k] \in TCHAR
  <2>1. \A k \in m..l : k \in 1..Len(w)
    BY <1>1, <1>2
  <2> QED BY <2>1, ElementOfSeq
<1>4. PICK s : s = SubSeq(w, m, l)
  OBVIOUS
<1>5. /\ s \in Seq(TCHAR) /\ Len(s) = IF m <= l THEN l - m + 1 ELSE 0
      /\ \A j \in 1..(l - m + 1) : s[j] = w[m + j - 1]
  BY <1>3, <1>4, SubSeqProperties
<1>6. l - m + 1 = n /\ (m <= l <=> n > 0)
  BY <1>2
<1>7. Len(s) = n
  BY <1>2, <1>5, <1>6
<1>8. ASSUME NEW j \in 1..n PROVE s[j] = v[j]
  <2>1. s[j] = w[m + j - 1] /\ m + j - 1 = g + j
    BY <1>2, <1>5, <1>6
  <2> QED BY <2>1
<1>9. s = v
  BY <1>5, <1>7, <1>8, SeqEqual
<1> QED BY <1>2, <1>4, <1>9

\* The scan reads the account off a record that stands in its chunk.
LEMMA AccountFound ==
  ASSUME NEW w \in Seq(TCHAR), NEW i \in Nat, NEW r \in Requests,
         OccursAt(w, i, Record(r.name, r.pass))
  PROVE  /\ FirstAt(w, i + 1, {Comma}) <= Len(w)
         /\ FirstAt(w, i + 1, {Comma}) <= FirstAt(w, i + 1, {CR})
         /\ AccountAt(w, i + 1) = [name |-> r.name, pass |-> r.pass]
<1>r. PICK a \in Nat \ {0}, b \in Nat \ {0} : Lengths(r, a, b) /\ Stands(w, i, r, a, b)
  BY RecordStands
<1>1. /\ i + a + b + 3 <= Len(w)
      /\ \A j \in 1..a : w[i + j] = r.name[j]
      /\ \A k \in (i + 1)..(i + a) : w[k] \notin Separators
      /\ w[i + a + 1] = Comma
      /\ \A j \in 1..b : w[i + a + 1 + j] = r.pass[j]
      /\ \A k \in (i + a + 2)..(i + a + b + 1) : w[k] \notin Separators
      /\ w[i + a + b + 2] = CR /\ w[i + a + b + 3] = LF
  BY <1>r DEF Stands
<1>2. Len(w) \in Nat
  BY LenProperties
<1>3. FirstAt(w, i + 1, {Comma}) = i + a + 1
  <2>1. i + 1 \in Nat \ {0} /\ i + a + 1 \in (i + 1)..Len(w)
    BY <1>1, <1>2
  <2>2. \A k \in (i + 1)..((i + a + 1) - 1) : w[k] # Comma
    <3>1. ASSUME NEW k \in (i + 1)..((i + a + 1) - 1) PROVE w[k] # Comma
      <4>1. k \in (i + 1)..(i + a)
        BY <1>1
      <4> QED BY <1>1, <4>1 DEF Separators
    <3> QED BY <3>1
  <2> QED BY <1>1, <2>1, <2>2, FirstAtIs
<1>4. FirstAt(w, i + a + 1, {CR}) = i + a + b + 2 /\ FirstAt(w, i + 1, {CR}) = i + a + b + 2
  <2>1. i + 1 \in Nat \ {0} /\ i + a + 1 \in Nat \ {0}
        /\ i + a + b + 2 \in (i + 1)..Len(w) /\ i + a + b + 2 \in (i + a + 1)..Len(w)
    BY <1>1, <1>2
  <2>2. ASSUME NEW k \in (i + 1)..((i + a + b + 2) - 1) PROVE w[k] # CR
    <3>1. k \in (i + 1)..(i + a) \/ k = i + a + 1 \/ k \in (i + a + 2)..(i + a + b + 1)
      BY <1>1
    <3> QED BY <1>1, <3>1, SeparatorsDiffer DEF Separators
  <2>3. \A k \in (i + a + 1)..((i + a + b + 2) - 1) : k \in (i + 1)..((i + a + b + 2) - 1)
    BY <1>1
  <2>4. \A k \in (i + a + 1)..((i + a + b + 2) - 1) : w[k] # CR
    BY <2>2, <2>3
  <2>5. w[i + a + b + 2] = CR
    BY <1>1
  <2>6. FirstAt(w, i + a + 1, {CR}) = i + a + b + 2
    BY <2>1, <2>4, <2>5, FirstAtIs
  <2>7. FirstAt(w, i + 1, {CR}) = i + a + b + 2
    BY <2>1, <2>2, <2>5, FirstAtIs
  <2> QED BY <2>6, <2>7
<1>5. SubSeq(w, i + 1, (i + a + 1) - 1) = r.name
  <2>1. i + a <= Len(w) /\ a \in Nat /\ i + 1 \in Int /\ (i + a + 1) - 1 = i + a
    BY <1>1, <1>2
  <2>2. r.name \in Seq(TCHAR) /\ Len(r.name) = a
    BY <1>r, WordsArePlain DEF Lengths
  <2>3. SubSeq(w, i + 1, i + a) = r.name
    BY <1>1, <2>1, <2>2, WordRead
  <2> QED BY <2>1, <2>3
<1>6. SubSeq(w, (i + a + 1) + 1, (i + a + b + 2) - 1) = r.pass
  <2>1. PICK g \in Nat : g = i + a + 1
    BY <1>1
  <2>2. g + b <= Len(w) /\ b \in Nat /\ (i + a + b + 2) - 1 = g + b
    BY <1>1, <1>2, <2>1
  <2>3. r.pass \in Seq(TCHAR) /\ Len(r.pass) = b
    BY <1>r, WordsArePlain DEF Lengths
  <2>4. \A j \in 1..b : w[g + j] = r.pass[j]
    BY <1>1, <2>1
  <2>5. SubSeq(w, g + 1, g + b) = r.pass
    BY <2>2, <2>3, <2>4, WordRead
  <2> QED BY <2>1, <2>2, <2>5
<1>7. i + a + 1 <= Len(w) /\ i + a + 1 <= i + a + b + 2
  BY <1>1, <1>2
<1> QED BY <1>3, <1>4, <1>5, <1>6, <1>7 DEF AccountAt

\* A file of records stays one when a record is appended.
LEMMA RecordedGrows ==
  ASSUME NEW f \in Seq(TCHAR), Recorded(f), Terminated(f), NEW r \in Requests
  PROVE  Recorded(f \o Record(r.name, r.pass))
<1>1. PICK rec \in Seq(TCHAR) : rec = Record(r.name, r.pass) /\ Len(rec) \in Nat
  BY RecordType, LenProperties
<1>2. PICK g : g = f \o rec
  OBVIOUS
<1>3. /\ g \in Seq(TCHAR) /\ Len(g) = Len(f) + Len(rec) /\ Len(f) \in Nat
      /\ \A k \in 1..(Len(f) + Len(rec)) : g[k] = IF k <= Len(f) THEN f[k] ELSE rec[k - Len(f)]
  BY <1>1, <1>2, ConcatProperties, LenProperties
<1>4. OccursAt(g, Len(f), Record(r.name, r.pass))
  BY <1>1, <1>2, AppendedRecord
<1>5. ASSUME NEW i \in LineBreaks(g), i # Len(g)
      PROVE  \E q \in Requests : OccursAt(g, i, Record(q.name, q.pass))
  <2>1. i \in Nat /\ i < Len(g) /\ (i = 0 \/ g[i] = LF)
    <3>1. Len(g) \in Nat
      BY <1>1, <1>3
    <3> QED BY <1>5, <3>1 DEF LineBreaks
  <2>2. CASE i < Len(f)
    <3>1. i \in LineBreaks(f) /\ i # Len(f)
      <4>1. i = 0 \/ (i \in 1..(Len(f) + Len(rec)) /\ i <= Len(f))
        BY <1>1, <1>3, <2>1, <2>2
      <4>2. i = 0 \/ f[i] = LF
        BY <1>3, <2>1, <4>1
      <4> QED BY <1>3, <2>1, <2>2, <4>2 DEF LineBreaks
    <3>2. PICK q \in Requests : OccursAt(f, i, Record(q.name, q.pass))
      BY <3>1 DEF Recorded
    <3>3. Record(q.name, q.pass) \in Seq(TCHAR) /\ Record(q.name, q.pass) # <<>>
      BY RecordType
    <3>4. OccursAt(f \o rec, i, Record(q.name, q.pass))
      BY <1>1, <2>1, <3>2, <3>3, OccursGrows
    <3> QED BY <1>2, <3>4
  <2>3. CASE i = Len(f)
    BY <1>4, <2>3
  <2>4. CASE i > Len(f)
    <3>1. Len(f) + Len(Record(r.name, r.pass)) <= i
      BY <1>3, <1>4, <2>4, RecordFits
    <3> QED BY <1>1, <1>3, <2>1, <3>1
  <2> QED BY <1>3, <2>1, <2>2, <2>3, <2>4
<1> QED BY <1>1, <1>2, <1>5 DEF Recorded

\* What stands in the first s positions of a file, s being the start of a line, is
\* found by a scan of them, although its chunk may hold one character more.
LEMMA RecordsFound ==
  ASSUME NEW f \in Seq(TCHAR), Recorded(f), NEW s \in LineBreaks(f),
         NEW t \in 0..Len(f), t = s \/ t = s + 1,
         NEW i \in LineBreaks(f), i < s,
         NEW q \in Requests, OccursAt(f, i, Record(q.name, q.pass))
  PROVE  /\ OccursAt(SubSeq(f, 1, s), i, Record(q.name, q.pass))
         /\ OccursAt(SubSeq(f, 1, t), i, Record(q.name, q.pass))
         /\ i + 1 \in LineStarts(SubSeq(f, 1, t))
<1>1. /\ i \in Nat /\ s \in 0..Len(f) /\ s \in Nat /\ t \in Nat /\ Len(f) \in Nat
      /\ (i = 0 \/ (i \in 1..Len(f) /\ f[i] = LF))
  BY LenProperties DEF LineBreaks
<1>2. PICK rec \in Seq(TCHAR) : rec = Record(q.name, q.pass) /\ rec # <<>> /\ Len(rec) \in Nat
  BY RecordType, LenProperties
<1>3. i + Len(rec) <= s
  BY <1>1, <1>2, RecordFits
<1>4. i + Len(rec) <= t
  BY <1>1, <1>2, <1>3
<1>5. OccursAt(SubSeq(f, 1, s), i, rec) /\ OccursAt(SubSeq(f, 1, t), i, rec)
  BY <1>1, <1>2, <1>3, <1>4, OccursEarly
<1>6. i + 1 \in LineStarts(SubSeq(f, 1, t))
  <2>1. CASE i = 0
    BY <2>1 DEF LineStarts
  <2>2. CASE i # 0
    <3>1. i - 1 \in 1..Len(f) /\ f[i - 1] = CR
      BY <1>1, <2>2, BreaksPaired
    <3>2. PICK w : w = SubSeq(f, 1, t)
      OBVIOUS
    <3>3. i - 1 \in 1..t /\ (i - 1) + 2 = i + 1
      BY <1>1, <3>1
    <3>4. i - 1 \in 1..Len(w) /\ w[i - 1] = CR
      BY <3>1, <3>2, <3>3, Beginning
    <3>5. (i - 1) + 2 \in LineStarts(w)
      BY <3>4 DEF LineStarts
    <3> QED BY <3>2, <3>3, <3>5
  <2> QED BY <2>1, <2>2
<1> QED BY <1>2, <1>5, <1>6

\* It finds nothing else: where it sees a name there is a line before s.
LEMMA LinesFound ==
  ASSUME NEW f \in Seq(TCHAR), Recorded(f), NEW s \in LineBreaks(f), s > 0,
         NEW t \in 0..Len(f), t = s \/ t = s + 1,
         NEW k \in LineStarts(SubSeq(f, 1, t)),
         FirstAt(SubSeq(f, 1, t), k, {Comma}) <= Len(SubSeq(f, 1, t))
  PROVE  k - 1 \in LineBreaks(f) /\ k - 1 < s /\ k \in Nat
<1>1. /\ s \in 0..Len(f) /\ s \in Nat /\ t \in Nat /\ t <= Len(f) /\ Len(f) \in Nat
      /\ s \in 1..Len(f) /\ f[s] = LF
  BY LenProperties DEF LineBreaks
<1>2. PICK w : w = SubSeq(f, 1, t)
  OBVIOUS
<1>3. w \in Seq(TCHAR) /\ Len(w) = t /\ \A j \in 1..t : w[j] = f[j]
  BY <1>2, Beginning
<1>4. t = s + 1 => f[t] # Comma /\ f[t] # CR
  <2> SUFFICES ASSUME t = s + 1 PROVE f[t] # Comma /\ f[t] # CR
    OBVIOUS
  <2>1. s # Len(f)
    BY <1>1
  <2>2. PICK q \in Requests : OccursAt(f, s, Record(q.name, q.pass))
    BY <2>1 DEF Recorded
  <2>3. PICK a \in Nat \ {0}, b \in Nat \ {0} : Lengths(q, a, b) /\ Stands(f, s, q, a, b)
    BY <1>1, <2>2, RecordStands
  <2>4. f[s + 1] \notin Separators
    <3>1. s + 1 \in (s + 1)..(s + a)
      BY <1>1
    <3>2. \A j \in (s + 1)..(s + a) : f[j] \notin Separators
      BY <2>3 DEF Stands
    <3> QED BY <3>1, <3>2
  <2> QED BY <2>4 DEF Separators
<1>5. CASE k = 1
  BY <1>1, <1>5 DEF LineBreaks
<1>6. CASE k # 1
  <2>1. PICK j \in 1..t : w[j] = CR /\ k = j + 2
    BY <1>2, <1>3, <1>6 DEF LineStarts
  <2>2. f[j] = CR /\ j \in 1..Len(f) /\ j \in Nat
    BY <1>1, <1>3, <2>1
  <2>3. j + 1 \in 1..Len(f) /\ f[j + 1] = LF
    BY <2>2, BreaksPaired
  <2>4. j # s /\ (t = s + 1 => j # t)
    BY <1>1, <1>4, <2>2, SeparatorsDiffer
  <2>5. j + 1 <= s /\ k - 1 = j + 1 /\ k \in Nat
    BY <1>1, <2>1, <2>4
  <2>6. k - 1 \in LineBreaks(f)
    BY <1>1, <2>3, <2>5 DEF LineBreaks
  <2>7. k - 1 # s
    <3> SUFFICES ASSUME k - 1 = s PROVE FALSE
      OBVIOUS
    <3>1. PICK comma : comma = FirstAt(w, k, {Comma})
      OBVIOUS
    <3>2. comma \in 1..(t + 1) /\ comma <= t /\ comma >= k /\ w[comma] = Comma
      <4>1. k \in Nat \ {0} /\ comma <= Len(w)
        BY <1>2, <2>1, <2>2, <3>1
      <4> QED BY <1>3, <3>1, <4>1, FirstAtFinds
    <3>3. comma = t /\ t = s + 1
      BY <1>1, <2>5, <3>2
    <3>4. t \in 1..t
      BY <1>1, <3>3
    <3>5. w[t] = f[t]
      BY <1>3, <3>4
    <3> QED BY <1>4, <3>2, <3>3, <3>5
  <2> QED BY <1>1, <2>5, <2>6, <2>7
<1> QED BY <1>5, <1>6

\* The verdict of an undisturbed scan.
Answer(f, s, r) ==
  \E p \in Passwords : /\ r.op = "login" => p = r.pass
                       /\ Stored(SubSeq(f, 1, s), r.name, p)

\* A scan that reads the first s positions of a file, and at most one more, matches a
\* request exactly if its record is among them.
LEMMA ScanExact ==
  ASSUME NEW f \in Seq(TCHAR), Recorded(f), NEW s \in LineBreaks(f), s > 0,
         NEW t \in 0..Len(f), t = s \/ t = s + 1, NEW r \in Requests
  PROVE  Matches(SubSeq(f, 1, t), r) <=> Answer(f, s, r)
<1>1. s \in 0..Len(f) /\ s \in Nat /\ t \in Nat /\ Len(f) \in Nat
  BY LenProperties DEF LineBreaks
<1>2. PICK w \in Seq(TCHAR) : w = SubSeq(f, 1, t)
  BY Beginning
<1>3. ASSUME NEW i \in LineBreaks(f), i < s, NEW q \in Requests,
             OccursAt(f, i, Record(q.name, q.pass))
      PROVE  /\ i + 1 \in LineStarts(w) /\ FirstAt(w, i + 1, {Comma}) <= Len(w)
             /\ FirstAt(w, i + 1, {Comma}) <= FirstAt(w, i + 1, {CR})
             /\ AccountAt(w, i + 1) = [name |-> q.name, pass |-> q.pass]
  <2>1. i \in Nat
    BY <1>1 DEF LineBreaks
  <2>2. OccursAt(w, i, Record(q.name, q.pass)) /\ i + 1 \in LineStarts(w)
    BY <1>2, <1>3, RecordsFound
  <2> QED BY <1>2, <2>1, <2>2, AccountFound
<1>4. ASSUME Matches(w, r) PROVE Answer(f, s, r)
  <2>1. PICK account \in Parse(w) :
          account.name = r.name /\ (r.op = "login" => account.pass = r.pass)
    BY <1>4 DEF Matches
  <2>2. PICK k \in LineStarts(w) : FirstAt(w, k, {Comma}) <= Len(w) /\ account = AccountAt(w, k)
    BY <2>1 DEF Parse
  <2>3. k - 1 \in LineBreaks(f) /\ k - 1 < s /\ k \in Nat
    BY <1>2, <2>2, LinesFound
  <2>4. PICK i : i = k - 1
    OBVIOUS
  <2>5. i \in LineBreaks(f) /\ i < s /\ i # Len(f) /\ i + 1 = k /\ i \in Nat
    <3>1. i \in 0..Len(f) /\ i < s /\ i + 1 = k
      BY <1>1, <2>3, <2>4 DEF LineBreaks
    <3> QED BY <1>1, <2>3, <2>4, <3>1
  <2>6. PICK q \in Requests : OccursAt(f, i, Record(q.name, q.pass))
    BY <2>5 DEF Recorded
  <2>7. AccountAt(w, k) = [name |-> q.name, pass |-> q.pass]
    BY <1>3, <2>5, <2>6
  <2>8. q.name = r.name /\ (r.op = "login" => q.pass = r.pass) /\ q.pass \in Passwords
    BY <2>1, <2>2, <2>7 DEF Requests
  <2>9. OccursAt(SubSeq(f, 1, s), i, Record(q.name, q.pass))
    BY <1>2, <2>5, <2>6, RecordsFound
  <2>10. i \in LineBreaks(SubSeq(f, 1, s))
    BY <1>1, <2>5, Beginning
  <2>11. Stored(SubSeq(f, 1, s), r.name, q.pass)
    BY <2>8, <2>9, <2>10 DEF Stored
  <2> QED BY <2>8, <2>11 DEF Answer
<1>5. ASSUME Answer(f, s, r) PROVE Matches(w, r)
  <2>1. PICK p \in Passwords :
          (r.op = "login" => p = r.pass) /\ Stored(SubSeq(f, 1, s), r.name, p)
    BY <1>5 DEF Answer
  <2>2. PICK q \in Requests : q.name = r.name /\ q.pass = p
    <3>1. [op |-> r.op, name |-> r.name, pass |-> p] \in Requests
      BY DEF Requests
    <3> QED BY <3>1
  <2>3. PICK i \in LineBreaks(SubSeq(f, 1, s)) :
          OccursAt(SubSeq(f, 1, s), i, Record(q.name, q.pass))
    BY <2>1, <2>2 DEF Stored
  <2>4. i \in LineBreaks(f) /\ i \in Nat
    BY <1>1, <2>3, Beginning DEF LineBreaks
  <2>5. OccursAt(f, i, Record(q.name, q.pass)) /\ i + Len(Record(q.name, q.pass)) <= s
        /\ Len(Record(q.name, q.pass)) \in Nat \ {0}
    <3>1. Record(q.name, q.pass) \in Seq(TCHAR) /\ Record(q.name, q.pass) # <<>>
      BY RecordType
    <3> QED BY <1>1, <2>3, <2>4, <3>1, OccursEarly, EmptySeq
  <2>6. i < s
    BY <1>1, <2>4, <2>5
  <2>7. /\ i + 1 \in LineStarts(w) /\ FirstAt(w, i + 1, {Comma}) <= Len(w)
        /\ AccountAt(w, i + 1) = [name |-> q.name, pass |-> q.pass]
    BY <1>3, <2>4, <2>5, <2>6
  <2>8. ~ (FirstAt(w, 1, {Comma}) > FirstAt(w, 1, {CR}))
    <3>1. 0 \in LineBreaks(f) /\ 0 # Len(f) /\ 0 < s /\ 0 + 1 = 1
      BY <1>1 DEF LineBreaks
    <3>2. PICK o \in Requests : OccursAt(f, 0, Record(o.name, o.pass))
      BY <3>1 DEF Recorded
    <3>3. FirstAt(w, 1, {Comma}) <= FirstAt(w, 1, {CR})
      BY <1>3, <3>1, <3>2
    <3>4. FirstAt(w, 1, {Comma}) \in 1..(Len(w) + 1) /\ FirstAt(w, 1, {CR}) \in 1..(Len(w) + 1)
      <4>1. 1 \in Nat \ {0}
        OBVIOUS
      <4>2. FirstAt(w, 1, {Comma}) \in 1..(Len(w) + 1)
        BY <4>1, FirstAtFinds
      <4>3. FirstAt(w, 1, {CR}) \in 1..(Len(w) + 1)
        BY <4>1, FirstAtFinds
      <4> QED BY <4>2, <4>3
    <3> QED BY <1>2, <3>3, <3>4, LenProperties
  <2>9. AccountAt(w, i + 1) \in Parse(w)
    BY <2>7, <2>8 DEF Parse
  <2> QED BY <2>1, <2>2, <2>7, <2>9 DEF Matches
<1> QED BY <1>2, <1>4, <1>5

\* The places of a handler whose scan has not parsed anything yet.
Early == {"measure", "rewind", "rewinding", "rewound", "enter"}

\* What a handler has measured is the end of a line, and what it has found in a
\* chunk that began at the start of the file is the answer for what it measured.
ScanOf(h) ==
  /\ size[h] \in LineBreaks(file)
  /\ pc[h] \in Early => ~eof[h]
  /\ pc[h] \in Early \cup {"scan"} /\ ~eof[h] => found[h] = 0
  /\ eof[h] /\ start[h] = 0 /\ found[h] # -1 =>
       (found[h] = 1 <=> Answer(file, size[h], req[h]))

ScanInv == Recorded(file) /\ \A h \in Handlers : ScanOf(h)

\* The file stays a file of records.
LEMMA RecordedKept ==
  ASSUME TypeOK, FileInv, Recorded(file), [Next]_vars
  PROVE  Recorded(file)'
<1>1. CASE file' = file
  BY <1>1 DEF Recorded
<1>2. ASSUME NEW h \in Handlers, WriteRecord(h) PROVE Recorded(file')
  <2>1. file \in Seq(TCHAR) /\ Terminated(file) /\ req[h] \in Requests
    BY DEF TypeOK, FileInv
  <2>2. file' = file \o Record(req[h].name, req[h].pass)
    BY <1>2 DEF WriteRecord
  <2> QED BY <2>1, <2>2, RecordedGrows
<1> QED BY <1>1, <1>2, FileSteps

\* The end of a file is the end of a line, and stays one, with the answer.
LEMMA EndIsBreak ==
  ASSUME NEW f \in Seq(TCHAR), Terminated(f)
  PROVE  Len(f) \in LineBreaks(f)
BY LenProperties, EmptySeq DEF Terminated, LineBreaks

\* What was measured of the file does not change with it.
LEMMA MeasuredKept ==
  ASSUME TypeOK, FileInv, [Next]_vars, NEW s \in LineBreaks(file)
  PROVE  s \in LineBreaks(file') /\ SubSeq(file', 1, s) = SubSeq(file, 1, s)
<1>1. CASE file' = file
  BY <1>1
<1>2. ASSUME NEW h \in Handlers, WriteRecord(h)
      PROVE  s \in LineBreaks(file') /\ SubSeq(file', 1, s) = SubSeq(file, 1, s)
  <2>1. PICK rec \in Seq(TCHAR) : file' = file \o rec
    BY <1>2, RecordType DEF WriteRecord, TypeOK
  <2>2. file \in Seq(TCHAR) /\ Len(file) \in Nat /\ s \in 0..Len(file)
    BY LenProperties DEF TypeOK, LineBreaks
  <2>3. s \in LineBreaks(file')
    BY <2>1, <2>2, LineBreaksGrow
  <2>4. CASE s = 0
    <3>1. SubSeq(file', 1, 0) = <<>> /\ SubSeq(file, 1, 0) = <<>>
      BY SubSeqEmpty
    <3> QED BY <2>3, <2>4, <3>1
  <2>5. CASE s # 0
    <3>1. 1 \in 1..Len(file) /\ s \in 1..Len(file)
      BY <2>2, <2>5
    <3> QED BY <2>1, <2>2, <2>3, <3>1, SubSeqOfConcat1
  <2> QED BY <2>4, <2>5
<1> QED BY <1>1, <1>2, FileSteps

\* Whoever else moves, a handler that does not keeps its answer.
LEMMA OthersScan ==
  ASSUME TypeOK, FileInv, [Next]_vars, NEW h \in Handlers, ScanOf(h),
         /\ size'[h] = size[h] /\ eof'[h] = eof[h] /\ start'[h] = start[h]
         /\ found'[h] = found[h] /\ req'[h] = req[h],
         pc'[h] \in Early => pc[h] \in Early,
         pc'[h] = "scan" => pc[h] \in Early \cup {"scan"}
  PROVE  ScanOf(h)'
<1>1. size[h] \in LineBreaks(file') /\ SubSeq(file', 1, size[h]) = SubSeq(file, 1, size[h])
  BY MeasuredKept DEF ScanOf
<1>2. Answer(file', size[h], req[h]) <=> Answer(file, size[h], req[h])
  BY <1>1 DEF Answer
<1> QED BY <1>1, <1>2 DEF ScanOf

\* The first chunk that is read from the start of the file gives the answer.
LEMMA ChunkAnswers ==
  ASSUME TypeOK, Recorded(file), NEW h \in Handlers, size[h] \in LineBreaks(file),
         pos = 0, ~ (Len(Chunk(h)) < 3)
  PROVE  Matches(Chunk(h), req[h]) <=> Answer(file, size[h], req[h])
<1>1. file \in Seq(TCHAR) /\ Len(file) \in Nat /\ req[h] \in Requests
  BY LenProperties DEF TypeOK
<1>2. PICK s \in LineBreaks(file) : s = size[h] /\ s \in 0..Len(file)
  BY DEF LineBreaks
<1>3. PICK t : t = IF pos + s + 1 < Len(file) THEN pos + s + 1 ELSE Len(file)
  OBVIOUS
<1>4. t \in 0..Len(file) /\ (t = s \/ t = s + 1)
  BY <1>1, <1>2, <1>3
<1>5. Chunk(h) = SubSeq(file, 1, t)
  BY <1>2, <1>3 DEF Chunk
<1>6. s > 0
  <2>1. Len(Chunk(h)) = t
    BY <1>1, <1>4, <1>5, Beginning
  <2> QED BY <1>1, <1>2, <1>4, <2>1
<1> QED BY <1>1, <1>2, <1>4, <1>5, <1>6, ScanExact

\* A step of a handler keeps its own answer.
LEMMA OwnScan ==
  ASSUME TypeOK, FileInv, ScanInv, [Next]_vars, NEW h \in Handlers,
         Begin(h) \/ Scan(h) \/ Conclude(h) \/ Fail(h)
  PROVE  ScanOf(h)'
<1> USE DEF Goto
<1>1. /\ ScanOf(h) /\ size[h] \in LineBreaks(file)
      /\ size \in [Handlers -> Nat] /\ pc \in [Handlers -> Places]
      /\ eof \in [Handlers -> BOOLEAN] /\ found \in [Handlers -> {-1, 0, 1}]
      /\ start \in [Handlers -> Nat] /\ req \in [Handlers -> Requests]
  BY DEF ScanInv, ScanOf, TypeOK
<1>2. file \in Seq(TCHAR) /\ Len(file) \in Nat /\ Terminated(file)
  BY LenProperties DEF TypeOK, FileInv
<1>3. CASE Begin(h)
  <2>1. 0 \in LineBreaks(file)
    BY <1>2 DEF LineBreaks
  <2>2. file' = file /\ size'[h] = 0 /\ eof'[h] = FALSE /\ found'[h] = 0
    BY <1>1, <1>3 DEF Begin
  <2> QED BY <2>1, <2>2 DEF ScanOf
<1>4. CASE Measure(h) \/ Rewind(h)
  <2>1. /\ file' = file /\ pc[h] \in Early /\ eof'[h] = eof[h] /\ found'[h] = found[h]
        /\ size'[h] \in {size[h], Len(file)}
    BY <1>1, <1>4 DEF Measure, Rewind, Early
  <2>2. size'[h] \in LineBreaks(file)
    BY <1>1, <1>2, <2>1, EndIsBreak
  <2>3. ~eof[h] /\ found[h] = 0
    BY <1>1, <2>1 DEF ScanOf
  <2> QED BY <2>1, <2>2, <2>3 DEF ScanOf
<1>5. CASE AcquireToRewind(h) \/ ReleaseRewound(h) \/ EnterScan(h) \/ LeaveScan(h) \/ Conclude(h)
  <2>1. UNCHANGED <<size, eof, start, found, req>>
    BY <1>5
    DEF AcquireToRewind, ReleaseRewound, EnterScan, LeaveScan, Conclude, Refuse, AcceptLogin,
        AcquireToAppend, WriteRecord, ReleaseAppended, Acknowledge
  <2>2. (pc'[h] \in Early => pc[h] \in Early) /\ (pc'[h] = "scan" => pc[h] \in Early)
    BY <1>1, <1>5
    DEF AcquireToRewind, ReleaseRewound, EnterScan, LeaveScan, Conclude, Refuse, AcceptLogin,
        AcquireToAppend, WriteRecord, ReleaseAppended, Acknowledge, Early
  <2> QED BY <1>1, <2>1, <2>2, OthersScan
<1>6. CASE ReadChunk(h)
  <2>1. UNCHANGED <<file, size, req>> /\ pc[h] = "scan"
    BY <1>6 DEF ReadChunk
  <2>2. CASE Len(Chunk(h)) < 3 \/ eof[h]
    <3>1. eof'[h] = eof[h] /\ found'[h] = found[h] /\ start'[h] = start[h]
      BY <1>1, <1>6, <2>2 DEF ReadChunk
    <3>2. pc'[h] \notin Early
      BY <1>1, <1>6 DEF ReadChunk, Early
    <3> QED BY <1>1, <2>1, <3>1, <3>2, OthersScan
  <2>3. CASE ~ (Len(Chunk(h)) < 3) /\ ~eof[h]
    <3>1. /\ eof'[h] = TRUE /\ start'[h] = pos /\ pc' = pc
          /\ found'[h] = IF Matches(Chunk(h), req[h]) THEN 1 ELSE found[h]
      BY <1>1, <1>6, <2>3 DEF ReadChunk
    <3>2. found[h] = 0
      BY <1>1, <2>1, <2>3 DEF ScanOf
    <3>3. found'[h] = 1 <=> Matches(Chunk(h), req[h])
      BY <3>1, <3>2
    <3>4. pos = 0 => (Matches(Chunk(h), req[h]) <=> Answer(file, size[h], req[h]))
      BY <1>1, <2>3, ChunkAnswers DEF ScanInv
    <3>5. pc'[h] \notin Early
      BY <2>1, <3>1 DEF Early
    <3> QED BY <1>1, <2>1, <3>1, <3>3, <3>4, <3>5 DEF ScanOf
  <2> QED BY <2>2, <2>3
<1>7. CASE MeasureFails(h) \/ CheckRewindFails(h)
  <2>1. UNCHANGED <<file, size>> /\ found'[h] = -1 /\ pc'[h] = "verdict"
    BY <1>1, <1>7 DEF MeasureFails, CheckRewindFails
  <2> QED BY <1>1, <2>1 DEF ScanOf, Early
<1>8. CASE LoginRewindFails(h) \/ RecordAllocFails(h) \/ WriteFails(h)
  <2>1. UNCHANGED <<size, eof, start, found, req>> /\ pc'[h] \in {"idle", "appended"}
    BY <1>1, <1>8 DEF LoginRewindFails, RecordAllocFails, WriteFails
  <2> QED BY <1>1, <2>1, OthersScan DEF Early
<1> QED BY <1>3, <1>4, <1>5, <1>6, <1>7, <1>8 DEF Scan, Fail

\* What the handlers have measured and found is as ScanOf says, at all times.
THEOREM ScanIsExact == Spec => []ScanInv
<1>1. Init => ScanInv
  <2> SUFFICES ASSUME Init PROVE ScanInv
    OBVIOUS
  <2>1. Len(file) \in Nat
    BY AccountsAssumption, LenProperties DEF Init
  <2>2. 0 \in LineBreaks(file) /\ Recorded(file)
    BY <2>1, AccountsAssumption DEF Init, LineBreaks
  <2> QED BY <2>2 DEF Init, ScanInv, ScanOf, Early
<1>2. TypeOK /\ FileInv /\ ScanInv /\ [Next]_vars => ScanInv'
  <2> SUFFICES ASSUME TypeOK, FileInv, ScanInv, [Next]_vars, NEW g \in Handlers
               PROVE  ScanOf(g)'
    BY RecordedKept DEF ScanInv
  <2>1. /\ size \in [Handlers -> Nat] /\ pc \in [Handlers -> Places]
        /\ eof \in [Handlers -> BOOLEAN] /\ found \in [Handlers -> {-1, 0, 1}]
        /\ start \in [Handlers -> Nat] /\ req \in [Handlers -> Requests] /\ ScanOf(g)
    BY DEF TypeOK, ScanInv
  <2>2. ASSUME NEW h \in Handlers, Begin(h) \/ Scan(h) \/ Conclude(h) \/ Fail(h)
        PROVE  ScanOf(g)'
    <3>1. CASE g = h
      BY <2>2, <3>1, OwnScan
    <3>2. CASE g # h
      <4>1. /\ size'[g] = size[g] /\ eof'[g] = eof[g] /\ start'[g] = start[g]
            /\ found'[g] = found[g] /\ req'[g] = req[g] /\ pc'[g] = pc[g]
        BY <2>1, <2>2, <3>2
        DEF Begin, Scan, Measure, AcquireToRewind, Rewind, ReleaseRewound, EnterScan, ReadChunk,
            LeaveScan, Conclude, Refuse, AcceptLogin, AcquireToAppend, WriteRecord,
            ReleaseAppended, Acknowledge, Fail, MeasureFails, LoginRewindFails,
            CheckRewindFails, RecordAllocFails, WriteFails, Goto
      <4> QED BY <2>1, <4>1, OthersScan
    <3> QED BY <3>1, <3>2
  <2>3. CASE Restart
    <3>1. UNCHANGED <<size, eof, start, found, req>> /\ pc'[g] = "idle"
      BY <2>3 DEF Restart
    <3> QED BY <2>1, <3>1, OthersScan DEF Early
  <2>4. CASE Rest \/ UNCHANGED vars
    <3>1. UNCHANGED vars
      BY <2>4 DEF Rest
    <3> QED BY <2>1, <3>1, OthersScan DEF vars
  <2> QED BY <2>2, <2>3, <2>4 DEF Next
<1> QED BY <1>1, <1>2, TypeCorrect, LinesComplete, PTL DEF Spec

\* A scan that began at the start of the file is exact for what it measured, for any
\* file of records, any handlers beside it and any failures (see
\* UndisturbedScanIsExact).
THEOREM UndisturbedIsExact == Spec => []UndisturbedScanIsExact
<1>1. ScanInv => UndisturbedScanIsExact
  BY DEF ScanInv, ScanOf, Answer, UndisturbedScanIsExact
<1> QED BY <1>1, ScanIsExact, PTL

---------------------------------------------------------------------------
(* Where the characters stand on which a positive answer rests.             *)

\* In a file of records, a name followed by a comma, and by a password, lies in
\* one record: at the end of its name and the beginning of its password.
LEMMA EvidenceInRecord ==
  ASSUME NEW f \in Seq(TCHAR), Recorded(f), NEW r \in Requests, NEW j \in 0..Len(f),
         OccursAt(f, j, Evidence(r))
  PROVE  \E i \in LineBreaks(f), q \in Requests :
           OccursAt(f, i, Record(q.name, q.pass)) /\ Supports(q, r)
<1> DEFINE tail == IF r.op = "login" THEN r.pass ELSE <<>>
<1>1. PICK n \in Nat \ {0} : n = Len(r.name)
  BY WordsArePlain
<1>2. PICK m \in Nat : m = Len(tail)
  <2>1. tail \in Seq(TCHAR)
    BY WordsArePlain, EmptySeq
  <2> QED BY <2>1, LenProperties
<1>3. PICK e : e = Evidence(r)
  OBVIOUS
<1>4. /\ Len(e) = n + 1 + m
      /\ \A x \in 1..n : e[x] = r.name[x]
      /\ e[n + 1] = Comma
      /\ \A x \in 1..m : e[n + 1 + x] = tail[x]
  <2>1. r.name \in Seq(TCHAR) /\ tail \in Seq(TCHAR)
    BY WordsArePlain, EmptySeq
  <2> HIDE DEF tail
  <2>2. PICK mark : mark = <<Comma>> /\ mark \in Seq(TCHAR) /\ Len(mark) = 1 /\ mark[1] = Comma
    <3>1. <<Comma>> \in Seq(TCHAR) /\ Len(<<Comma>>) = 1 /\ <<Comma>>[1] = Comma
      BY CharactersAssumption DEF Separators
    <3> QED BY <3>1
  <2>3. PICK head : head = r.name \o mark
    OBVIOUS
  <2>4. /\ head \in Seq(TCHAR) /\ Len(head) = n + 1
        /\ \A x \in 1..(n + 1) : head[x] = IF x <= n THEN r.name[x] ELSE mark[x - n]
    BY <1>1, <2>1, <2>2, <2>3, ConcatProperties
  <2>5. e = head \o tail
    BY <1>3, <2>2, <2>3 DEF Evidence, tail
  <2>6. /\ Len(e) = n + 1 + m
        /\ \A x \in 1..(n + 1 + m) : e[x] = IF x <= n + 1 THEN head[x] ELSE tail[x - (n + 1)]
    <3>1. /\ Len(head \o tail) = Len(head) + Len(tail)
          /\ \A x \in 1..(Len(head) + Len(tail)) :
               (head \o tail)[x] = IF x <= Len(head) THEN head[x] ELSE tail[x - Len(head)]
      BY <2>1, <2>4, ConcatProperties
    <3>2. Len(head) = n + 1 /\ Len(tail) = m
      BY <1>2, <2>4
    <3> QED BY <2>5, <3>1, <3>2
  <2>7. ASSUME NEW x \in 1..n PROVE e[x] = r.name[x]
    BY <2>4, <2>6
  <2>8. e[n + 1] = Comma
    BY <2>2, <2>4, <2>6
  <2>9. ASSUME NEW x \in 1..m PROVE e[n + 1 + x] = tail[x]
    <3>1. n + 1 + x \in 1..(n + 1 + m) /\ ~ (n + 1 + x <= n + 1) /\ (n + 1 + x) - (n + 1) = x
      OBVIOUS
    <3> QED BY <2>6, <3>1
  <2> QED BY <2>6, <2>7, <2>8, <2>9
<1>5. j \in Nat /\ Len(f) \in Nat /\ j + n + 1 + m <= Len(f)
  BY <1>3, <1>4, LenProperties DEF OccursAt
<1>6. ASSUME NEW x \in 1..(n + 1 + m) PROVE f[j + x] = e[x]
  <2>1. SubSeq(f, j + 1, j + (n + 1 + m)) = e
    BY <1>3, <1>4 DEF OccursAt
  <2>2. \A k \in (j + 1)..(j + (n + 1 + m)) : f[k] \in TCHAR
    BY <1>5, ElementOfSeq
  <2>3. \A k \in 1..((j + (n + 1 + m)) - (j + 1) + 1) :
          SubSeq(f, j + 1, j + (n + 1 + m))[k] = f[(j + 1) + k - 1]
    BY <1>5, <2>2, SubSeqProperties
  <2>4. x \in 1..((j + (n + 1 + m)) - (j + 1) + 1) /\ (j + 1) + x - 1 = j + x
    BY <1>5
  <2> QED BY <2>1, <2>3, <2>4
<1>7. \A x \in 1..n : f[j + x] = r.name[x] /\ f[j + x] \notin Separators
  <2>1. ASSUME NEW x \in 1..n PROVE f[j + x] = r.name[x]
    <3>1. x \in 1..(n + 1 + m)
      OBVIOUS
    <3> QED BY <1>4, <1>6, <3>1
  <2> QED BY <1>1, <2>1, WordsArePlain
<1>8. f[j + n + 1] = Comma
  <2>1. n + 1 \in 1..(n + 1 + m) /\ j + (n + 1) = j + n + 1
    BY <1>5
  <2> QED BY <1>4, <1>6, <2>1
<1>9. \A x \in 1..m : f[j + n + 1 + x] = tail[x]
  <2>1. ASSUME NEW x \in 1..m PROVE f[j + n + 1 + x] = tail[x]
    <3>1. n + 1 + x \in 1..(n + 1 + m) /\ j + (n + 1 + x) = j + n + 1 + x
      BY <1>5
    <3> QED BY <1>4, <1>6, <3>1
  <2> QED BY <2>1
<1>10. PICK k \in 1..Len(f) : k = j + n + 1
  BY <1>5
<1>11. PICK i \in LineBreaks(f), q \in Requests :
         /\ i \in Nat /\ i < k /\ OccursAt(f, i, Record(q.name, q.pass))
         /\ k <= i + Len(Record(q.name, q.pass))
  BY Covered
<1>12. PICK a \in Nat \ {0}, b \in Nat \ {0} : Lengths(q, a, b) /\ Stands(f, i, q, a, b)
  BY <1>11, RecordStands
<1>13. /\ Len(q.name) = a /\ Len(q.pass) = b /\ k <= i + a + b + 3
       /\ i + a + b + 3 <= Len(f)
       /\ \A x \in 1..a : f[i + x] = q.name[x]
       /\ \A x \in (i + 1)..(i + a) : f[x] \notin Separators
       /\ \A x \in 1..b : f[i + a + 1 + x] = q.pass[x]
       /\ \A x \in (i + a + 2)..(i + a + b + 1) : f[x] \notin Separators
       /\ f[i + a + b + 2] = CR /\ f[i + a + b + 3] = LF
  BY <1>11, <1>12 DEF Lengths, Stands
<1>14. k = i + a + 1
  <2>1. \/ k \in (i + 1)..(i + a) \/ k = i + a + 1 \/ k \in (i + a + 2)..(i + a + b + 1)
        \/ k = i + a + b + 2 \/ k = i + a + b + 3
    <3>1. k \in Nat /\ i \in Nat /\ i < k /\ k <= i + a + b + 3
      BY <1>5, <1>11, <1>13
    <3> QED BY <3>1
  <2> QED BY <1>8, <1>10, <1>13, <2>1, SeparatorsDiffer DEF Separators
<1>15. i <= j
  <2>1. SUFFICES ASSUME j < i PROVE FALSE
    BY <1>5, <1>11
  <2>2. i - j \in 1..n /\ j + (i - j) = i /\ i # 0
    BY <1>5, <1>10, <1>11, <2>1
  <2>3. f[i] = LF
    BY <2>2 DEF LineBreaks
  <2> QED BY <1>7, <2>2, <2>3 DEF Separators
<1>16. n <= a /\ a - n = j - i /\ a - n \in Nat
  BY <1>5, <1>10, <1>11, <1>14, <1>15
<1>17. OccursAt(q.name, a - n, r.name)
  <2>1. ASSUME NEW x \in 1..n PROVE q.name[(a - n) + x] = r.name[x]
    <3>1. (a - n) + x \in 1..a /\ i + ((a - n) + x) = j + x
      BY <1>5, <1>11, <1>16
    <3> QED BY <1>7, <1>13, <3>1
  <2>2. PICK w \in Seq(TCHAR) : w = q.name
    BY WordsArePlain
  <2>3. PICK g \in Nat : g = a - n
    BY <1>16
  <2>4. r.name \in Seq(TCHAR) /\ g + n <= Len(w) /\ (g + n = a)
    BY <1>13, <1>16, <2>2, <2>3, WordsArePlain
  <2>5. \A x \in 1..n : w[g + x] = r.name[x]
    BY <2>1, <2>2, <2>3
  <2>6. PICK v \in Seq(TCHAR) : v = r.name /\ Len(v) = n
    BY <1>1, <2>4
  <2>7. SubSeq(w, g + 1, g + n) = v
    BY <2>4, <2>5, <2>6, WordRead
  <2> QED BY <1>1, <2>2, <2>3, <2>4, <2>6, <2>7 DEF OccursAt
<1>18. ASSUME r.op = "login" PROVE OccursAt(q.pass, 0, r.pass)
  <2>1. tail = r.pass /\ Len(r.pass) = m
    BY <1>2, <1>18
  <2>2. m <= b
    <3>1. SUFFICES ASSUME b < m PROVE FALSE
      BY <1>2
    <3>2. b + 1 \in 1..m /\ j + n + 1 + (b + 1) = i + a + b + 2
      BY <1>5, <1>10, <1>11, <1>14, <3>1
    <3>3. r.pass[b + 1] = CR
      BY <1>9, <1>13, <2>1, <3>2
    <3> QED BY <2>1, <3>2, <3>3, WordsArePlain DEF Separators
  <2>3. ASSUME NEW x \in 1..m PROVE q.pass[0 + x] = r.pass[x]
    <3>1. x \in 1..b /\ i + a + 1 + x = j + n + 1 + x /\ 0 + x = x
      BY <1>5, <1>10, <1>11, <1>14, <2>2
    <3> QED BY <1>9, <1>13, <2>1, <3>1
  <2>4. PICK w \in Seq(TCHAR) : w = q.pass
    BY WordsArePlain
  <2>5. r.pass \in Seq(TCHAR) /\ 0 + m <= Len(w)
    BY <1>13, <2>2, <2>4, WordsArePlain
  <2>6. PICK v \in Seq(TCHAR) : v = r.pass /\ Len(v) = m
    BY <2>1, <2>5
  <2>7. \A x \in 1..m : w[0 + x] = v[x]
    BY <2>3, <2>4, <2>6
  <2>8. SubSeq(w, 0 + 1, 0 + m) = v
    BY <2>5, <2>6, <2>7, WordRead
  <2> QED BY <2>1, <2>4, <2>5, <2>6, <2>8 DEF OccursAt
<1>19. Supports(q, r)
  BY <1>1, <1>13, <1>16, <1>17, <1>18 DEF Supports
<1> QED BY <1>11, <1>19

\* Whatever the other handlers and the failures do to the shared pointer, a positive
\* answer rests on one record of the file (see VerdictFromOneRecord).
THEOREM FoundInOneRecord == Spec => []VerdictFromOneRecord
<1>1. TypeOK /\ ScanInv /\ VerdictFromFile => VerdictFromOneRecord
  <2> SUFFICES ASSUME TypeOK, ScanInv, VerdictFromFile, NEW h \in Handlers, found[h] = 1
               PROVE  \E i \in LineBreaks(file), account \in Requests :
                        /\ OccursAt(file, i, Record(account.name, account.pass))
                        /\ Supports(account, req[h])
    BY DEF VerdictFromOneRecord
  <2>1. file \in Seq(TCHAR) /\ Recorded(file) /\ req[h] \in Requests
    BY DEF TypeOK, ScanInv
  <2>2. PICK j \in 0..Len(file) : OccursAt(file, j, Evidence(req[h]))
    BY DEF VerdictFromFile
  <2> QED BY <2>1, <2>2, EvidenceInRecord
<1> QED BY <1>1, TypeCorrect, ScanIsExact, FoundIsInFile, PTL

---------------------------------------------------------------------------
(* What every scan reads, disturbed or not: the assumption of AccountsScan,  *)
(* in which the scanning loop is shown to answer what Parse says.            *)

\* A file of records has no terminator in it, CR before LF, and a comma between
\* two line breaks.
LEMMA RecordedIsLined ==
  ASSUME NEW f \in Seq(TCHAR), Recorded(f)
  PROVE  Lined(f)
<1>1. Len(f) \in Nat
  BY LenProperties
<1>2. ASSUME NEW k \in 1..Len(f)
      PROVE  f[k] # NUL /\ (f[k] = CR /\ k < Len(f) => f[k + 1] = LF)
  BY BreaksPaired, ElementOfSeq, CharactersAssumption
<1>3. ASSUME NEW j \in 1..Len(f), NEW k \in 1..Len(f), j < k, f[j] = CR, f[k] = CR
      PROVE  \E c \in j..k : f[c] = Comma
  <2>1. PICK i \in LineBreaks(f), r \in Requests :
          /\ i \in Nat /\ i < k /\ OccursAt(f, i, Record(r.name, r.pass))
          /\ k <= i + Len(Record(r.name, r.pass))
    BY Covered
  <2>2. PICK a \in Nat \ {0}, b \in Nat \ {0} : Lengths(r, a, b) /\ Stands(f, i, r, a, b)
    BY <2>1, RecordStands
  <2>3. /\ k <= i + a + b + 3
        /\ \A x \in (i + 1)..(i + a) : f[x] \notin Separators
        /\ f[i + a + 1] = Comma
        /\ \A x \in (i + a + 2)..(i + a + b + 1) : f[x] \notin Separators
        /\ f[i + a + b + 3] = LF
    BY <2>1, <2>2 DEF Lengths, Stands
  <2>4. ASSUME NEW x \in 1..Len(f), f[x] = CR, i < x, x <= i + a + b + 3 PROVE x = i + a + b + 2
    <3>1. \/ x \in (i + 1)..(i + a) \/ x = i + a + 1 \/ x \in (i + a + 2)..(i + a + b + 1)
          \/ x = i + a + b + 2 \/ x = i + a + b + 3
      BY <1>1, <2>1, <2>4
    <3> QED BY <2>3, <2>4, <3>1, SeparatorsDiffer DEF Separators
  <2>5. k = i + a + b + 2
    BY <1>3, <2>1, <2>3, <2>4
  <2>6. j <= i
    BY <1>1, <1>3, <2>1, <2>4, <2>5
  <2>7. i + a + 1 \in j..k
    BY <1>1, <2>1, <2>5, <2>6
  <2> QED BY <2>3, <2>7
<1> QED BY <1>1, <1>2, <1>3 DEF Lined

\* So has every part of such a file, wherever it begins and ends.
LEMMA PartIsLined ==
  ASSUME NEW f \in Seq(TCHAR), Lined(f), NEW a \in 1..Len(f), NEW b \in 1..Len(f), a <= b
  PROVE  Lined(SubSeq(f, a, b))
<1>1. PICK n \in Nat : n = Len(f)
  BY LenProperties
<1>2. /\ \A k \in 1..n : f[k] # NUL /\ (f[k] = CR /\ k < n => f[k + 1] = LF)
      /\ \A j, k \in 1..n : j < k /\ f[j] = CR /\ f[k] = CR => \E c \in j..k : f[c] = Comma
  BY <1>1 DEF Lined
<1>3. PICK w : w = SubSeq(f, a, b)
  OBVIOUS
<1>4. PICK m \in Nat : m = b - a + 1
  BY <1>1
<1>5. Len(w) = m /\ \A k \in 1..m : w[k] = f[a + k - 1]
  <2>1. \A k \in a..b : f[k] \in TCHAR
    BY <1>1, ElementOfSeq
  <2> QED BY <1>1, <1>3, <1>4, <2>1, SubSeqProperties
<1>6. ASSUME NEW k \in 1..m PROVE w[k] # NUL /\ (w[k] = CR /\ k < m => w[k + 1] = LF)
  <2>1. PICK x \in 1..n : x = a + k - 1
    BY <1>1, <1>4
  <2>2. w[k] = f[x]
    BY <1>5, <2>1
  <2>3. CASE k < m
    <3>1. k + 1 \in 1..m /\ a + (k + 1) - 1 = x + 1 /\ x < n
      BY <1>1, <1>4, <2>1, <2>3
    <3>2. w[k + 1] = f[x + 1]
      BY <1>5, <3>1
    <3> QED BY <1>2, <2>2, <3>1, <3>2
  <2> QED BY <1>2, <2>2, <2>3
<1>7. ASSUME NEW j \in 1..m, NEW k \in 1..m, j < k, w[j] = CR, w[k] = CR
      PROVE  \E c \in j..k : w[c] = Comma
  <2>1. PICK x \in 1..n : x = a + j - 1
    BY <1>1, <1>4
  <2>2. PICK y \in 1..n : y = a + k - 1
    BY <1>1, <1>4
  <2>3. x < y /\ f[x] = CR /\ f[y] = CR
    BY <1>5, <1>7, <2>1, <2>2
  <2>4. PICK c \in x..y : f[c] = Comma
    BY <1>2, <2>3
  <2>5. PICK d \in j..k : d = c - a + 1
    BY <1>1, <2>1, <2>2
  <2>6. d \in 1..m /\ a + d - 1 = c
    BY <1>1, <1>4, <2>1, <2>2, <2>5
  <2> QED BY <1>5, <2>4, <2>6
<1> QED BY <1>3, <1>5, <1>6, <1>7 DEF Lined

\* What AccountsScan assumes of a chunk and of a request.
ScanInput(w, r) ==
  /\ w \in Seq(TCHAR) /\ Lined(w)
  /\ r \in [op : {"register", "login"}, name : Seq(TCHAR \ Separators), pass : Seq(TCHAR)]

\* Whatever the other handlers and the failures do to the shared pointer, and
\* however old the length is that a handler measured, the window it reads and the
\* request it compares with have the form AccountsScan assumes.
THEOREM ChunksAreLined == Spec => [](\A h \in Handlers : ScanInput(Chunk(h), req[h]))
<1>1. TypeOK /\ ScanInv => \A h \in Handlers : ScanInput(Chunk(h), req[h])
  <2>1. SUFFICES ASSUME TypeOK, ScanInv, NEW h \in Handlers PROVE ScanInput(Chunk(h), req[h])
    OBVIOUS
  <2>2. file \in Seq(TCHAR) /\ req[h] \in Requests
    BY <2>1 DEF TypeOK
  <2>3. Lined(file)
    BY <2>1, <2>2, RecordedIsLined DEF ScanInv
  <2>4. Chunk(h) \in Seq(TCHAR)
    BY <2>1, ChunkIsWindow
  <2>5. Lined(Chunk(h))
    <3>1. CASE Len(Chunk(h)) > 0
      <4>1. PICK b \in 1..Len(file) :
              pos + 1 <= b /\ pos + 1 \in 1..Len(file) /\ Chunk(h) = SubSeq(file, pos + 1, b)
        BY <2>1, <3>1, ChunkIsWindow
      <4>2. Lined(SubSeq(file, pos + 1, b))
        BY <2>2, <2>3, <4>1, PartIsLined
      <4> QED BY <4>1, <4>2
    <3>2. CASE ~ (Len(Chunk(h)) > 0)
      <4>1. Len(Chunk(h)) = 0
        BY <2>4, <3>2, LenProperties
      <4> QED BY <4>1 DEF Lined
    <3> QED BY <3>1, <3>2
  <2>6. req[h] \in [op : {"register", "login"}, name : Seq(TCHAR \ Separators), pass : Seq(TCHAR)]
    <3>1. req[h].name \in Words /\ req[h].pass \in Seq(TCHAR)
      BY <2>2, AccountsAssumption, WordsArePlain DEF Requests
    <3>2. req[h].name \in Seq(TCHAR \ Separators)
      BY <3>1 DEF Words
    <3> QED BY <2>2, <3>1, <3>2 DEF Requests
  <2> QED BY <2>4, <2>5, <2>6 DEF ScanInput
<1> QED BY <1>1, TypeCorrect, ScanIsExact, PTL

---------------------------------------------------------------------------
(* The store that the handlers implement.                                   *)

\* One place of a file holds one account.
LEMMA OneAccountThere ==
  ASSUME NEW f \in Seq(TCHAR), NEW i \in Nat, NEW q \in Requests, NEW r \in Requests,
         OccursAt(f, i, Record(q.name, q.pass)), OccursAt(f, i, Record(r.name, r.pass))
  PROVE  q.name = r.name /\ q.pass = r.pass
<1>1. PICK a \in Nat \ {0}, b \in Nat \ {0} : Lengths(q, a, b) /\ Stands(f, i, q, a, b)
  BY RecordStands
<1>2. PICK c \in Nat \ {0}, d \in Nat \ {0} : Lengths(r, c, d) /\ Stands(f, i, r, c, d)
  BY RecordStands
<1>3. /\ Len(q.name) = a /\ Len(q.pass) = b /\ Len(r.name) = c /\ Len(r.pass) = d
      /\ q.name \in Seq(TCHAR) /\ q.pass \in Seq(TCHAR)
      /\ r.name \in Seq(TCHAR) /\ r.pass \in Seq(TCHAR)
  BY <1>1, <1>2, WordsArePlain DEF Lengths
<1>4. a = c
  <2>1. ASSUME a < c PROVE FALSE
    <3>1. i + a + 1 \in (i + 1)..(i + c) /\ f[i + a + 1] = Comma
      BY <1>1, <2>1 DEF Stands
    <3> QED BY <1>2, <3>1 DEF Stands, Separators
  <2>2. ASSUME c < a PROVE FALSE
    <3>1. i + c + 1 \in (i + 1)..(i + a) /\ f[i + c + 1] = Comma
      BY <1>2, <2>2 DEF Stands
    <3> QED BY <1>1, <3>1 DEF Stands, Separators
  <2> QED BY <2>1, <2>2
<1>5. b = d
  <2>1. ASSUME b < d PROVE FALSE
    <3>1. i + a + b + 2 \in (i + c + 2)..(i + c + d + 1) /\ f[i + a + b + 2] = CR
      BY <1>1, <1>4, <2>1 DEF Stands
    <3> QED BY <1>2, <3>1 DEF Stands, Separators
  <2>2. ASSUME d < b PROVE FALSE
    <3>1. i + c + d + 2 \in (i + a + 2)..(i + a + b + 1) /\ f[i + c + d + 2] = CR
      BY <1>2, <1>4, <2>2 DEF Stands
    <3> QED BY <1>1, <3>1 DEF Stands, Separators
  <2> QED BY <2>1, <2>2
<1>6. \A j \in 1..a : q.name[j] = r.name[j]
  BY <1>1, <1>2, <1>4 DEF Stands
<1>7. \A j \in 1..b : q.pass[j] = r.pass[j]
  BY <1>1, <1>2, <1>4, <1>5 DEF Stands
<1>8. q.name = r.name
  BY <1>3, <1>4, <1>6, SeqEqual
<1>9. q.pass = r.pass
  BY <1>3, <1>5, <1>7, SeqEqual
<1> QED BY <1>8, <1>9

\* Every account is that of some request.
LEMMA RequestOf ==
  ASSUME NEW a \in Store!Account
  PROVE  \E q \in Requests : q.name = a.name /\ q.pass = a.pass
<1>1. [op |-> "login", name |-> a.name, pass |-> a.pass] \in Requests
  BY DEF Requests, Store!Account
<1> QED BY <1>1

\* The records of an account are finitely many.
LEMMA CopiesFinite ==
  ASSUME NEW f \in Seq(TCHAR), NEW a
  PROVE  IsFiniteSet(Copies(f, a)) /\ Cardinality(Copies(f, a)) \in Nat
<1>1. Copies(f, a) \subseteq 0..Len(f)
  BY DEF Copies, LineBreaks
<1>2. IsFiniteSet(0..Len(f))
  BY LenProperties, FS_Interval
<1>3. IsFiniteSet(Copies(f, a))
  BY <1>1, <1>2, FS_Subset
<1> QED BY <1>3, FS_CardinalityType

\* A record that is appended is one more of its account, and of no other.
LEMMA CopiesGrow ==
  ASSUME NEW f \in Seq(TCHAR), Recorded(f), Terminated(f), NEW r \in Requests,
         NEW a \in Store!Account
  PROVE  Copies(f \o Record(r.name, r.pass), a) =
           Copies(f, a) \cup (IF a.name = r.name /\ a.pass = r.pass THEN {Len(f)} ELSE {})
<1>1. PICK rec \in Seq(TCHAR) : rec = Record(r.name, r.pass) /\ rec # <<>> /\ Len(rec) \in Nat
  BY RecordType, LenProperties
<1>2. PICK g \in Seq(TCHAR) : g = f \o rec
  BY <1>1, ConcatProperties
<1>3. /\ Len(f) \in Nat /\ Len(g) = Len(f) + Len(rec)
      /\ \A k \in 1..Len(f) : g[k] = f[k]
  BY <1>1, <1>2, ConcatProperties, LenProperties
<1>4. Len(f) \in LineBreaks(g) /\ LineBreaks(f) \subseteq LineBreaks(g)
  BY <1>1, <1>2, EndIsBreak, LineBreaksGrow
<1>5. PICK q \in Requests : q.name = a.name /\ q.pass = a.pass
  BY RequestOf
<1>6. PICK c \in Seq(TCHAR) : c = Record(a.name, a.pass) /\ c # <<>> /\ Len(c) \in Nat \ {0}
  BY <1>5, RecordType, EmptySeq
<1>7. OccursAt(g, Len(f), rec)
  <2>1. SubSeq(g, Len(f) + 1, Len(f) + Len(rec)) = rec
    BY <1>1, <1>2, ConcatProperties, AppendedRecord
  <2> QED BY <1>3, <2>1 DEF OccursAt
<1>8. ASSUME NEW i \in Copies(f, a) PROVE i \in Copies(g, a)
  <2>1. i \in LineBreaks(f) /\ OccursAt(f, i, c) /\ i \in Nat
    BY <1>3, <1>6, <1>8 DEF Copies, LineBreaks
  <2>2. OccursAt(g, i, c)
    BY <1>1, <1>2, <1>6, <2>1, OccursGrows
  <2> QED BY <1>4, <1>6, <2>1, <2>2 DEF Copies
<1>9. a.name = r.name /\ a.pass = r.pass => Len(f) \in Copies(g, a)
  BY <1>1, <1>4, <1>7 DEF Copies
<1>10. ASSUME NEW i \in Copies(g, a)
       PROVE  i \in Copies(f, a) \/ (i = Len(f) /\ a.name = r.name /\ a.pass = r.pass)
  <2>1. i \in LineBreaks(g) /\ OccursAt(g, i, c) /\ i \in 0..Len(g) /\ i \in Nat
    BY <1>3, <1>6, <1>10 DEF Copies, LineBreaks
  <2>2. i + Len(c) <= Len(g)
    BY <2>1 DEF OccursAt
  <2>3. CASE i < Len(f)
    <3>1. i \in LineBreaks(f) /\ i # Len(f)
      BY <1>3, <2>1, <2>3 DEF LineBreaks
    <3>2. PICK o \in Requests : OccursAt(f, i, Record(o.name, o.pass))
      BY <3>1 DEF Recorded
    <3>3. OccursAt(g, i, Record(o.name, o.pass))
      BY <1>1, <1>2, <2>1, <3>2, RecordType, OccursGrows
    <3>4. OccursAt(g, i, Record(q.name, q.pass))
      BY <1>5, <1>6, <2>1
    <3>5. o.name = q.name /\ o.pass = q.pass
      BY <2>1, <3>3, <3>4, OneAccountThere
    <3> QED BY <1>5, <3>1, <3>2, <3>5 DEF Copies
  <2>4. CASE i = Len(f)
    <3>1. OccursAt(g, i, Record(q.name, q.pass)) /\ OccursAt(g, i, Record(r.name, r.pass))
      BY <1>1, <1>5, <1>6, <1>7, <2>1, <2>4
    <3>2. q.name = r.name /\ q.pass = r.pass
      BY <2>1, <3>1, OneAccountThere
    <3> QED BY <1>5, <2>4, <3>2
  <2>5. CASE i > Len(f)
    <3>1. Len(f) + Len(Record(r.name, r.pass)) <= i
      BY <1>1, <1>3, <1>7, <2>1, <2>5, RecordFits
    <3> QED BY <1>1, <1>3, <1>6, <2>1, <2>2, <3>1
  <2> QED BY <1>3, <2>1, <2>3, <2>4, <2>5
<1> QED BY <1>1, <1>2, <1>8, <1>9, <1>10

\* What a handler's place says about its command.
PlaceOf(h) ==
  /\ pc[h] \in {"measure", "appending", "appended", "reply"} => req[h].op = "register"
  /\ pc[h] = "appending" => found[h] = 0
  /\ pc[h] \in {"scan", "leave"} => found[h] # -1

\* A handler that is alone reads from the start what it has measured, and that is
\* all of the file.
LoneOf(h) ==
  /\ \A g \in Handlers \ {h} : pc[g] = "idle"
  /\ pc[h] \in {"rewound", "enter", "scan", "leave"} => size[h] = Len(file)
  /\ pc[h] \in {"rewind", "rewinding"} /\ req[h].op = "register" => size[h] = Len(file)
  /\ pc[h] \in {"rewound", "enter"} => pos = 0
  /\ pc[h] = "scan" /\ ~eof[h] => pos = 0
  /\ pc[h] \in {"scan", "leave"} /\ eof[h] => start[h] = 0
  /\ pc[h] = "leave" /\ ~eof[h] => found[h] = 0 /\ Len(file) < 3

AloneInv ==
  /\ alone \subseteq Handlers
  /\ \A h \in Handlers : PlaceOf(h)
  /\ \A h \in alone : LoneOf(h)

\* Nobody is alone who was not, unless a command begins.
LEMMA WatchKeeps ==
  ASSUME Watch, \A h \in Handlers : pc[h] = "idle" => pc'[h] = "idle"
  PROVE  alone' = alone
BY DEF Watch

\* A step of a handler other than Begin leaves the idle ones idle.
LEMMA OnlyBegins ==
  ASSUME TypeOK, NEW h \in Handlers, Scan(h) \/ Conclude(h) \/ Fail(h)
  PROVE  /\ pc[h] # "idle"
         /\ \A g \in Handlers \ {h} : /\ pc'[g] = pc[g] /\ found'[g] = found[g]
                                      /\ req'[g] = req[g]
         /\ req' = req
<1>1. pc \in [Handlers -> Places] /\ found \in [Handlers -> {-1, 0, 1}]
  BY DEF TypeOK
<1> QED
  BY <1>1
  DEF Goto, Scan, Measure, AcquireToRewind, Rewind, ReleaseRewound, EnterScan, ReadChunk,
      LeaveScan, Conclude, Refuse, AcceptLogin, AcquireToAppend, WriteRecord, ReleaseAppended,
      Acknowledge, Fail, MeasureFails, LoginRewindFails, CheckRewindFails, RecordAllocFails,
      WriteFails

\* The steps of a handler keep what its place says.
LEMMA OwnPlace ==
  ASSUME TypeOK, ScanInv, NEW h \in Handlers, PlaceOf(h),
         Begin(h) \/ Scan(h) \/ Conclude(h) \/ Fail(h)
  PROVE  PlaceOf(h)'
<1> USE DEF Goto
<1>1. /\ pc \in [Handlers -> Places] /\ found \in [Handlers -> {-1, 0, 1}]
      /\ req \in [Handlers -> Requests]
  BY DEF TypeOK
<1>2. CASE Begin(h)
  BY <1>1, <1>2 DEF Begin, PlaceOf
<1>3. CASE Measure(h) \/ AcquireToRewind(h) \/ Rewind(h) \/ ReleaseRewound(h)
  BY <1>1, <1>3 DEF Measure, AcquireToRewind, Rewind, ReleaseRewound, PlaceOf
<1>4. CASE EnterScan(h)
  <2>1. found[h] = 0
    BY <1>4 DEF EnterScan, ScanInv, ScanOf, Early
  <2> QED BY <1>1, <1>4, <2>1 DEF EnterScan, PlaceOf
<1>5. CASE ReadChunk(h) \/ LeaveScan(h)
  BY <1>1, <1>5 DEF ReadChunk, LeaveScan, PlaceOf
<1>6. CASE Conclude(h)
  BY <1>1, <1>6
  DEF Conclude, Refuse, AcceptLogin, AcquireToAppend, WriteRecord, ReleaseAppended, Acknowledge,
      PlaceOf
<1>7. CASE Fail(h)
  BY <1>1, <1>7
  DEF Fail, MeasureFails, LoginRewindFails, CheckRewindFails, RecordAllocFails, WriteFails,
      PlaceOf
<1> QED BY <1>2, <1>3, <1>4, <1>5, <1>6, <1>7 DEF Scan

\* A handler that is alone, and stays so, reads from the start.
LEMMA OwnLone ==
  ASSUME TypeOK, ScanInv, NEW h \in Handlers, PlaceOf(h), LoneOf(h),
         Scan(h) \/ Conclude(h) \/ Fail(h)
  PROVE  LoneOf(h)'
<1> USE DEF Goto
<1>1. /\ pc \in [Handlers -> Places] /\ found \in [Handlers -> {-1, 0, 1}]
      /\ req \in [Handlers -> Requests] /\ size \in [Handlers -> Nat]
      /\ eof \in [Handlers -> BOOLEAN] /\ start \in [Handlers -> Nat]
      /\ Len(file) \in Nat
  BY LenProperties DEF TypeOK
<1>2. req' = req /\ \A g \in Handlers \ {h} : pc'[g] = "idle"
  BY OnlyBegins DEF LoneOf
<1>3. CASE Measure(h) \/ AcquireToRewind(h) \/ Rewind(h) \/ ReleaseRewound(h)
  <2>1. CASE Measure(h)
    BY <1>1, <1>2, <2>1 DEF Measure, LoneOf
  <2>2. CASE AcquireToRewind(h)
    BY <1>1, <1>2, <2>2 DEF AcquireToRewind, LoneOf
  <2>3. CASE Rewind(h)
    <3>1. req[h].op \in {"register", "login"}
      BY <1>1 DEF Requests
    <3> QED BY <1>1, <1>2, <2>3, <3>1 DEF Rewind, LoneOf
  <2>4. CASE ReleaseRewound(h)
    BY <1>1, <1>2, <2>4 DEF ReleaseRewound, LoneOf
  <2> QED BY <1>3, <2>1, <2>2, <2>3, <2>4
<1>4. CASE EnterScan(h)
  <2>1. ~eof[h]
    BY <1>4 DEF EnterScan, ScanInv, ScanOf, Early
  <2> QED BY <1>1, <1>2, <1>4, <2>1 DEF EnterScan, LoneOf
<1>5. CASE ReadChunk(h)
  <2>1. /\ pc[h] = "scan" /\ size[h] = Len(file) /\ (~eof[h] => pos = 0) /\ (eof[h] => start[h] = 0)
        /\ UNCHANGED <<file, size>>
    <3>1. pc[h] = "scan" /\ UNCHANGED <<file, size>>
      BY <1>5 DEF ReadChunk
    <3> QED BY <1>1, <3>1 DEF LoneOf
  <2>2. CASE Len(Chunk(h)) < 3
    <3>1. pc' = [pc EXCEPT ![h] = "leave"] /\ UNCHANGED <<found, eof, start>>
      BY <1>5, <2>2 DEF ReadChunk
    <3>2. ASSUME ~eof[h] PROVE found[h] = 0 /\ Len(file) < 3
      <4>1. Chunk(h) = SubSeq(file, 1, Len(file))
        BY <1>1, <2>1, <3>2 DEF Chunk
      <4>2. Len(SubSeq(file, 1, Len(file))) = Len(file)
        BY <1>1, Beginning DEF TypeOK
      <4>3. found[h] = 0
        BY <2>1, <3>2 DEF ScanInv, ScanOf
      <4> QED BY <2>2, <4>1, <4>2, <4>3
    <3> QED BY <1>1, <1>2, <2>1, <3>1, <3>2 DEF LoneOf
  <2>3. CASE ~ (Len(Chunk(h)) < 3)
    <3>1. /\ eof'[h] = TRUE /\ pc' = pc
          /\ start' = [start EXCEPT ![h] = IF eof[h] THEN @ ELSE pos]
      BY <1>1, <1>5, <2>3 DEF ReadChunk
    <3>2. start'[h] = 0
      BY <1>1, <2>1, <3>1
    <3> QED BY <1>1, <1>2, <2>1, <3>1, <3>2 DEF LoneOf
  <2> QED BY <2>2, <2>3
<1>6. CASE LeaveScan(h)
  BY <1>1, <1>2, <1>6 DEF LeaveScan, LoneOf
<1>7. CASE Conclude(h)
  <2>1. pc'[h] \in {"idle", "appending", "appended", "reply"}
    BY <1>1, <1>7
    DEF Conclude, Refuse, AcceptLogin, AcquireToAppend, WriteRecord, ReleaseAppended, Acknowledge
  <2> QED BY <1>2, <2>1 DEF LoneOf
<1>8. CASE Fail(h)
  <2>1. pc'[h] \in {"verdict", "idle", "appended"}
    BY <1>1, <1>8
    DEF Fail, MeasureFails, LoginRewindFails, CheckRewindFails, RecordAllocFails, WriteFails
  <2> QED BY <1>2, <2>1 DEF LoneOf
<1> QED BY <1>3, <1>4, <1>5, <1>6, <1>7, <1>8 DEF Scan

\* AloneInv holds in the beginning and is kept.
LEMMA AloneKept ==
  ASSUME TypeOK, ScanInv, AloneInv, [Next /\ Watch]_<<vars, alone>>
  PROVE  AloneInv'
<1>1. pc \in [Handlers -> Places] /\ req \in [Handlers -> Requests]
  BY DEF TypeOK
<1>2. ASSUME NEW h \in Handlers, Begin(h), Watch PROVE AloneInv'
  <2>1. /\ pc[h] = "idle" /\ pc'[h] \in {"measure", "rewind"} /\ pc'[h] # "idle"
        /\ \A g \in Handlers \ {h} : pc'[g] = pc[g] /\ req'[g] = req[g] /\ found'[g] = found[g]
        /\ req'[h].op = "register" => pc'[h] = "measure"
        /\ req'[h].op # "register" => pc'[h] = "rewind"
    <3>1. /\ pc \in [Handlers -> Places] /\ req \in [Handlers -> Requests]
          /\ found \in [Handlers -> {-1, 0, 1}]
      BY DEF TypeOK
    <3> QED BY <1>2, <3>1 DEF Begin, Goto
  <2>2. alone' = {f \in Handlers : pc'[f] # "idle" /\ \A g \in Handlers \ {f} : pc'[g] = "idle"}
    BY <1>2, <2>1 DEF Watch
  <2>3. \A f \in alone' : f = h
    BY <2>1, <2>2
  <2>4. \A g \in Handlers : PlaceOf(g)'
    <3>1. PlaceOf(h)'
      BY <1>2, OwnPlace DEF AloneInv
    <3> QED BY <2>1, <3>1 DEF AloneInv, PlaceOf
  <2>5. ASSUME NEW f \in alone' PROVE LoneOf(f)'
    <3>1. f = h /\ \A g \in Handlers \ {f} : pc'[g] = "idle"
      BY <2>2, <2>3
    <3> QED BY <2>1, <3>1 DEF LoneOf
  <2> QED BY <2>2, <2>4, <2>5 DEF AloneInv
<1>3. ASSUME NEW h \in Handlers, Scan(h) \/ Conclude(h) \/ Fail(h), Watch PROVE AloneInv'
  <2>1. /\ pc[h] # "idle" /\ req' = req
        /\ \A g \in Handlers \ {h} : pc'[g] = pc[g] /\ found'[g] = found[g] /\ req'[g] = req[g]
    BY <1>3, OnlyBegins
  <2>2. alone' = alone
    BY <1>3, <2>1, WatchKeeps
  <2>3. \A g \in Handlers : PlaceOf(g)'
    <3>1. PlaceOf(h)'
      BY <1>3, OwnPlace DEF AloneInv
    <3> QED BY <2>1, <3>1 DEF AloneInv, PlaceOf
  <2>4. ASSUME NEW f \in alone PROVE LoneOf(f)'
    <3>1. f = h
      BY <2>1 DEF AloneInv, LoneOf
    <3> QED BY <1>3, <3>1, OwnLone DEF AloneInv
  <2> QED BY <2>2, <2>3, <2>4 DEF AloneInv
<1>4. CASE Restart /\ Watch
  <2>1. pc' = [h \in Handlers |-> "idle"] /\ UNCHANGED <<req, found>>
    BY <1>4 DEF Restart
  <2>2. alone' = alone
    BY <1>4, <2>1, WatchKeeps
  <2>3. \A h \in Handlers : PlaceOf(h)'
    BY <2>1 DEF PlaceOf
  <2>4. \A h \in Handlers : LoneOf(h)'
    BY <2>1 DEF LoneOf
  <2> QED BY <2>2, <2>3, <2>4 DEF AloneInv
<1>5. CASE UNCHANGED <<vars, alone>>
  BY <1>5 DEF vars, AloneInv, PlaceOf, LoneOf
<1>6. CASE Rest /\ Watch
  <2>1. UNCHANGED vars
    BY <1>6 DEF Rest
  <2>2. alone' = alone
    BY <1>6, <2>1, WatchKeeps DEF vars
  <2> QED BY <1>5, <2>1, <2>2
<1> QED BY <1>2, <1>3, <1>4, <1>5, <1>6 DEF Next

\* When one handler moves, one stage changes.
LEMMA StagesStep ==
  ASSUME NEW h \in Handlers, \A g \in Handlers \ {h} : pc'[g] = pc[g] /\ found'[g] = found[g]
  PROVE  Stages' = [Stages EXCEPT ![h] = Stage(h)'] /\ Stages[h] = Stage(h)
<1>1. \A g \in Handlers \ {h} : Stage(g)' = Stage(g)
  BY DEF Stage
<1> QED BY <1>1 DEF Stages

\* If it goes from one stage to another, the store sees it.
LEMMA StageMoves ==
  ASSUME NEW h \in Handlers, \A g \in Handlers \ {h} : pc'[g] = pc[g] /\ found'[g] = found[g],
         NEW from, NEW to, Stage(h) = from, Stage(h)' = to
  PROVE  Store!Become(h, from, to)
<1>1. Stages' = [Stages EXCEPT ![h] = Stage(h)'] /\ Stages[h] = Stage(h)
  BY StagesStep
<1> QED BY <1>1 DEF Store!Become

\* If its stage is the same, the store does not.
LEMMA StageStays ==
  ASSUME NEW h \in Handlers, \A g \in Handlers \ {h} : pc'[g] = pc[g] /\ found'[g] = found[g],
         Stage(h)' = Stage(h)
  PROVE  Stages' = Stages
<1>1. \A g \in Handlers : Stage(g)' = Stage(g)
  BY DEF Stage
<1> QED BY <1>1 DEF Stages

\* The accounts of the store are the records of the file.
LEMMA KnownIsStored ==
  ASSUME TypeOK, NEW r \in Requests
  PROVE  Store!Known(r) <=> Answer(file, Len(file), r)
<1>1. file \in Seq(TCHAR) /\ Len(file) \in Nat
  BY LenProperties DEF TypeOK
<1>2. SubSeq(file, 1, Len(file)) = file
  <2>1. PICK w : w = SubSeq(file, 1, Len(file))
    OBVIOUS
  <2>2. Len(file) \in 0..Len(file)
    BY <1>1
  <2>3. w \in Seq(TCHAR) /\ Len(w) = Len(file) /\ \A j \in 1..Len(file) : w[j] = file[j]
    BY <1>1, <2>1, <2>2, Beginning
  <2>4. w = file
    BY <1>1, <2>3, SeqEqual
  <2> QED BY <2>1, <2>4
<1>3. ASSUME NEW a \in Store!Account
      PROVE  Bag[a] > 0 <=> Stored(file, a.name, a.pass)
  <2>1. Bag[a] = Cardinality(Copies(file, a))
    BY DEF Bag, Store!Account
  <2>2. IsFiniteSet(Copies(file, a)) /\ Cardinality(Copies(file, a)) \in Nat
    BY <1>1, CopiesFinite
  <2>3. Cardinality(Copies(file, a)) = 0 <=> Copies(file, a) = {}
    BY <2>2, FS_EmptySet
  <2>4. Copies(file, a) # {} <=> Stored(file, a.name, a.pass)
    BY DEF Copies, Stored
  <2> QED BY <2>1, <2>2, <2>3, <2>4
<1>4. ASSUME Store!Known(r) PROVE Answer(file, Len(file), r)
  <2>1. PICK a \in Store!Account :
          Bag[a] > 0 /\ a.name = r.name /\ (r.op = "login" => a.pass = r.pass)
    BY <1>4 DEF Store!Known
  <2>2. Stored(file, r.name, a.pass) /\ a.pass \in Passwords
    BY <1>3, <2>1 DEF Store!Account
  <2> QED BY <1>2, <2>1, <2>2 DEF Answer
<1>5. ASSUME Answer(file, Len(file), r) PROVE Store!Known(r)
  <2>1. PICK p \in Passwords : (r.op = "login" => p = r.pass) /\ Stored(file, r.name, p)
    BY <1>2, <1>5 DEF Answer
  <2>2. PICK a \in Store!Account : a.name = r.name /\ a.pass = p
    <3>1. [name |-> r.name, pass |-> p] \in Store!Account
      BY DEF Store!Account, Requests
    <3> QED BY <3>1
  <2> QED BY <1>3, <2>1, <2>2 DEF Store!Known
<1> QED BY <1>4, <1>5

\* What a handler that is alone has found is the answer for the accounts.
LEMMA LoneAnswer ==
  ASSUME TypeOK, ScanInv, NEW h \in Handlers, PlaceOf(h), LoneOf(h), pc[h] = "leave"
  PROVE  found[h] # 0 <=> Answer(file, Len(file), req[h])
<1>1. /\ found[h] \in {0, 1} /\ size[h] = Len(file) /\ req[h] \in Requests
      /\ file \in Seq(TCHAR) /\ Len(file) \in Nat /\ eof[h] \in BOOLEAN
  BY LenProperties DEF TypeOK, PlaceOf, LoneOf
<1>2. CASE eof[h]
  <2>1. start[h] = 0 /\ ScanOf(h)
    BY <1>2 DEF LoneOf, ScanInv
  <2>2. found[h] = 1 <=> Answer(file, size[h], req[h])
    BY <1>1, <1>2, <2>1 DEF ScanOf
  <2> QED BY <1>1, <2>2
<1>3. CASE ~eof[h]
  <2>1. found[h] = 0 /\ Len(file) < 3
    BY <1>3 DEF LoneOf
  <2>2. SUFFICES ASSUME Answer(file, Len(file), req[h]) PROVE FALSE
    BY <2>1
  <2>3. PICK p \in Passwords : Stored(SubSeq(file, 1, Len(file)), req[h].name, p)
    BY <2>2 DEF Answer
  <2>4. PICK q \in Requests : q.name = req[h].name /\ q.pass = p
    <3>1. [op |-> "login", name |-> req[h].name, pass |-> p] \in Requests
      BY <1>1 DEF Requests
    <3> QED BY <3>1
  <2>5. PICK w \in Seq(TCHAR) : w = SubSeq(file, 1, Len(file)) /\ Len(w) = Len(file)
    <3>1. Len(file) \in 0..Len(file)
      BY <1>1
    <3> QED BY <1>1, <3>1, Beginning
  <2>6. PICK i \in LineBreaks(w) : OccursAt(w, i, Record(q.name, q.pass))
    BY <2>3, <2>4, <2>5 DEF Stored
  <2>7. i \in Nat
    BY <1>1, <2>5, <2>6 DEF LineBreaks
  <2>8. PICK a \in Nat \ {0}, b \in Nat \ {0} : Lengths(q, a, b) /\ Stands(w, i, q, a, b)
    BY <2>6, <2>7, RecordStands
  <2>9. i + a + b + 3 <= Len(file)
    BY <2>5, <2>8 DEF Stands
  <2> QED BY <1>1, <2>1, <2>7, <2>9
<1> QED BY <1>1, <1>2, <1>3

\* Nobody reads while a handler appends.
LEMMA NoneReads ==
  ASSUME TypeOK, LockInv, NEW h \in Handlers, pc[h] = "appending", NEW g \in Handlers
  PROVE  Stages[g] # "reading"
<1>1. lock.writer = {h} /\ lock.readers = {}
  BY DEF LockInv
<1>2. pc[g] \notin {"scan", "leave"}
  BY <1>1 DEF LockInv
<1> QED BY <1>2 DEF Stages, Stage

\* A step of a handler other than Begin is one of the store, or none.
LEMMA StoreSteps ==
  ASSUME TypeOK, FileInv, LockInv, ScanInv, AloneInv, NEW h \in Handlers,
         Scan(h) \/ Conclude(h) \/ Fail(h), Watch
  PROVE  \/ Store!Enter(h) \/ Store!Answer(h) \/ Store!Add(h) \/ Store!Reply(h) \/ Store!Fail(h)
         \/ UNCHANGED <<Bag, req, Stages, alone, faults>>
<1> USE DEF Goto
<1>1. /\ pc \in [Handlers -> Places] /\ found \in [Handlers -> {-1, 0, 1}]
      /\ req[h] \in Requests /\ req[h].op \in {"register", "login"} /\ PlaceOf(h)
      /\ file \in Seq(TCHAR)
  BY DEF TypeOK, AloneInv, Requests
<1>2. /\ pc[h] # "idle" /\ req' = req
      /\ \A g \in Handlers \ {h} : pc'[g] = pc[g] /\ found'[g] = found[g] /\ req'[g] = req[g]
  BY OnlyBegins
<1>3. alone' = alone
  BY <1>2, WatchKeeps
<1>4. file' = file => Bag' = Bag
  BY DEF Bag
<1>5. \A g \in Handlers \ {h} : pc'[g] = pc[g] /\ found'[g] = found[g]
  BY <1>2
<1>6. CASE Measure(h) \/ AcquireToRewind(h) \/ Rewind(h) \/ ReleaseRewound(h)
  <2>1. /\ pc[h] \in Early /\ pc'[h] \in Early /\ file' = file /\ faults' = faults
    BY <1>1, <1>6 DEF Measure, AcquireToRewind, Rewind, ReleaseRewound, Early
  <2>2. Stage(h)' = Stage(h)
    BY <2>1 DEF Stage, Early
  <2> QED BY <1>2, <1>3, <1>4, <1>5, <2>1, <2>2, StageStays
<1>7. CASE EnterScan(h)
  <2>1. pc[h] = "enter" /\ pc'[h] = "scan" /\ file' = file /\ faults' = faults
    BY <1>1, <1>7 DEF EnterScan
  <2>2. Stage(h) = "asked" /\ Stage(h)' = "reading"
    BY <2>1 DEF Stage
  <2>3. Store!Become(h, "asked", "reading")
    BY <1>5, <2>2, StageMoves
  <2>4. Store!Enter(h)
    BY <1>2, <1>3, <1>4, <2>1, <2>3 DEF Store!Enter
  <2> QED BY <2>4
<1>8. CASE ReadChunk(h)
  <2>1. pc[h] = "scan" /\ pc'[h] \in {"scan", "leave"} /\ file' = file /\ faults' = faults
    BY <1>1, <1>8 DEF ReadChunk
  <2>2. Stage(h)' = Stage(h)
    BY <2>1 DEF Stage
  <2> QED BY <1>2, <1>3, <1>4, <1>5, <2>1, <2>2, StageStays
<1>9. CASE LeaveScan(h)
  <2>1. pc[h] = "leave" /\ pc'[h] = "verdict" /\ file' = file /\ faults' = faults /\ found' = found
    BY <1>1, <1>9 DEF LeaveScan
  <2>2. PICK known \in BOOLEAN : known <=> found[h] # 0
    OBVIOUS
  <2>3. Stage(h) = "reading" /\ Stage(h)' = IF known THEN "known" ELSE "unknown"
    BY <2>1, <2>2 DEF Stage
  <2>4. Store!Become(h, "reading", IF known THEN "known" ELSE "unknown")
    BY <1>5, <2>3, StageMoves
  <2>5. h \in alone => (known <=> Store!Known(req[h]))
    <3>1. SUFFICES ASSUME h \in alone PROVE known <=> Store!Known(req[h])
      OBVIOUS
    <3>2. found[h] # 0 <=> Answer(file, Len(file), req[h])
      BY <1>1, <2>1, <3>1, LoneAnswer DEF AloneInv
    <3> QED BY <1>1, <2>2, <3>2, KnownIsStored
  <2>6. Store!Answer(h)
    BY <1>2, <1>3, <1>4, <2>1, <2>4, <2>5 DEF Store!Answer
  <2> QED BY <2>6
<1>10. CASE Refuse(h) \/ AcceptLogin(h) \/ Acknowledge(h)
  <2>1. /\ pc[h] \in {"verdict", "reply"} /\ pc'[h] = "idle" /\ file' = file /\ faults' = faults
        /\ found' = found
        /\ pc[h] = "verdict" /\ req[h].op = "register" => found[h] # 0
    BY <1>1, <1>10 DEF Refuse, AcceptLogin, Acknowledge
  <2>2. Stage(h)' = "idle"
    BY <2>1 DEF Stage
  <2>3. Stage(h) \in IF req[h].op = "register" THEN {"known", "added"} ELSE {"known", "unknown"}
    BY <1>1, <2>1 DEF Stage, PlaceOf
  <2>4. PICK from \in IF req[h].op = "register" THEN {"known", "added"} ELSE {"known", "unknown"} :
          Stage(h) = from
    BY <2>3
  <2>5. Store!Become(h, from, "idle")
    BY <1>5, <2>2, <2>4, StageMoves
  <2>6. Store!Reply(h)
    BY <1>2, <1>3, <1>4, <2>1, <2>5 DEF Store!Reply
  <2> QED BY <2>6
<1>11. CASE AcquireToAppend(h) \/ ReleaseAppended(h)
  <2>1. /\ \/ pc[h] = "verdict" /\ pc'[h] = "appending"
           \/ pc[h] = "appended" /\ pc'[h] = "reply"
        /\ file' = file /\ faults' = faults /\ found' = found
    BY <1>1, <1>11 DEF AcquireToAppend, ReleaseAppended
  <2>2. Stage(h)' = Stage(h)
    BY <2>1 DEF Stage
  <2> QED BY <1>2, <1>3, <1>4, <1>5, <2>1, <2>2, StageStays
<1>12. CASE WriteRecord(h)
  <2>1. /\ pc[h] = "appending" /\ pc'[h] = "appended" /\ faults' = faults
        /\ file' = file \o Record(req[h].name, req[h].pass)
    BY <1>1, <1>12 DEF WriteRecord
  <2>2. req[h].op = "register" /\ found[h] = 0
    BY <1>1, <2>1 DEF PlaceOf
  <2>3. Stage(h) = "unknown" /\ Stage(h)' = "added"
    BY <2>1, <2>2 DEF Stage
  <2>4. Store!Become(h, "unknown", "added")
    BY <1>5, <2>3, StageMoves
  <2>5. \A g \in Handlers : Stages[g] # "reading"
    BY <2>1, NoneReads
  <2>6. PICK r \in Requests : r = req[h]
    BY <1>1
  <2>7. PICK new \in Store!Account : new = [name |-> r.name, pass |-> r.pass]
    BY DEF Store!Account, Requests
  <2>8. ASSUME NEW a \in Store!Account
        PROVE  Cardinality(Copies(file', a)) =
                 IF a = new THEN Cardinality(Copies(file, a)) + 1 ELSE Cardinality(Copies(file, a))
    <3>1. a = new <=> a.name = r.name /\ a.pass = r.pass
      BY <2>7 DEF Store!Account
    <3>2. Copies(file', a) = Copies(file, a) \cup (IF a = new THEN {Len(file)} ELSE {})
      BY <1>1, <2>1, <2>6, <3>1, CopiesGrow DEF FileInv, ScanInv
    <3>3. CASE a = new
      <4>1. IsFiniteSet(Copies(file, a))
        BY <1>1, CopiesFinite
      <4>2. Len(file) \notin Copies(file, a)
        <5>1. SUFFICES ASSUME OccursAt(file, Len(file), Record(a.name, a.pass)) PROVE FALSE
          BY DEF Copies
        <5>2. PICK q \in Requests : q.name = a.name /\ q.pass = a.pass
          BY RequestOf
        <5>3. Len(Record(a.name, a.pass)) \in Nat \ {0}
          BY <5>2, RecordType, EmptySeq
        <5>4. Len(file) \in Nat /\ Len(file) + Len(Record(a.name, a.pass)) <= Len(file)
          BY <1>1, <5>1, LenProperties DEF OccursAt
        <5> QED BY <5>3, <5>4
      <4>3. Copies(file', a) = Copies(file, a) \cup {Len(file)}
        BY <3>2, <3>3
      <4> QED BY <3>3, <4>1, <4>2, <4>3, FS_AddElement
    <3>4. CASE a # new
      BY <3>2, <3>4
    <3> QED BY <3>3, <3>4
  <2>9. Bag' = [Bag EXCEPT ![[name |-> req[h].name, pass |-> req[h].pass]] = @ + 1]
    <3>1. Bag = [a \in Store!Account |-> Cardinality(Copies(file, a))]
      BY DEF Bag, Store!Account
    <3>2. Bag' = [a \in Store!Account |-> Cardinality(Copies(file', a))]
      BY DEF Bag, Store!Account
    <3>3. Bag' = [Bag EXCEPT ![new] = @ + 1]
      BY <2>8, <3>1, <3>2
    <3> QED BY <2>6, <2>7, <3>3
  <2>10. Store!Add(h)
    BY <1>2, <1>3, <2>1, <2>2, <2>4, <2>5, <2>9 DEF Store!Add
  <2> QED BY <2>10
<1>13. CASE Fail(h)
  <2>1. faults' = faults + 1 /\ file' = file
    BY <1>13
    DEF Fail, MeasureFails, LoginRewindFails, CheckRewindFails, RecordAllocFails, WriteFails, Fault
  <2>2. CASE LoginRewindFails(h)
    <3>1. req[h].op = "login" /\ pc[h] = "rewinding" /\ pc'[h] = "idle"
      BY <1>1, <2>2 DEF LoginRewindFails
    <3>2. Stage(h) = "asked" /\ Stage(h)' = "idle"
      BY <3>1 DEF Stage
    <3>3. Store!Become(h, "asked", "idle")
      BY <1>5, <3>2, StageMoves
    <3> QED BY <1>2, <1>3, <1>4, <2>1, <3>1, <3>3 DEF Store!Fail
  <2>3. CASE MeasureFails(h) \/ CheckRewindFails(h)
    <3>1. /\ req[h].op = "register" /\ pc[h] \in {"measure", "rewinding"} /\ pc'[h] = "verdict"
          /\ found'[h] = -1
      BY <1>1, <2>3 DEF MeasureFails, CheckRewindFails, PlaceOf
    <3>2. Stage(h) = "asked" /\ Stage(h)' = "known"
      BY <3>1 DEF Stage
    <3>3. Store!Become(h, "asked", "known")
      BY <1>5, <3>2, StageMoves
    <3> QED BY <1>2, <1>3, <1>4, <2>1, <3>1, <3>3 DEF Store!Fail
  <2>4. CASE RecordAllocFails(h)
    <3>1. req[h].op = "register" /\ pc[h] = "verdict" /\ found[h] = 0 /\ pc'[h] = "idle"
      BY <1>1, <2>4 DEF RecordAllocFails
    <3>2. Stage(h) = "unknown" /\ Stage(h)' = "idle"
      BY <3>1 DEF Stage
    <3>3. Store!Become(h, "unknown", "idle")
      BY <1>5, <3>2, StageMoves
    <3> QED BY <1>2, <1>3, <1>4, <2>1, <3>1, <3>3 DEF Store!Fail
  <2>5. CASE WriteFails(h)
    <3>1. req[h].op = "register" /\ pc[h] = "appending" /\ found[h] = 0 /\ pc'[h] = "appended"
      BY <1>1, <2>5 DEF WriteFails, PlaceOf
    <3>2. Stage(h) = "unknown" /\ Stage(h)' = "added"
      BY <3>1 DEF Stage
    <3>3. Store!Become(h, "unknown", "added")
      BY <1>5, <3>2, StageMoves
    <3> QED BY <1>2, <1>3, <1>4, <2>1, <3>1, <3>3 DEF Store!Fail
  <2> QED BY <1>13, <2>2, <2>3, <2>4, <2>5 DEF Fail
<1> QED BY <1>6, <1>7, <1>8, <1>9, <1>10, <1>11, <1>12, <1>13 DEF Scan, Conclude

\* The account store of the server is one: registrations add to it and nothing is
\* lost from it, nobody reads while one is added, and whoever is alone with the
\* server is answered as the accounts are (see ImplementsAccountStore).
THEOREM StoreImplemented == AloneSpec => ImplementsAccountStore
<1>1. Init /\ alone = {} => Store!Init /\ AloneInv
  <2>1. SUFFICES ASSUME Init, alone = {} PROVE Store!Init /\ AloneInv
    OBVIOUS
  <2>2. \A h \in Handlers : pc[h] = "idle" /\ found[h] = 0
    BY <2>1 DEF Init
  <2>3. Stages = [h \in Handlers |-> "idle"]
    BY <2>2 DEF Stages, Stage
  <2>4. Bag \in [Store!Account -> Nat]
    <3>1. file \in Seq(TCHAR)
      BY <2>1, AccountsAssumption DEF Init
    <3> QED BY <3>1, CopiesFinite DEF Bag, Store!Account
  <2>5. req \in [Handlers -> Store!Command]
    <3>1. PICK n \in Names, p \in Passwords : TRUE
      BY AccountsAssumption
    <3>2. [op |-> "login", name |-> n, pass |-> p] \in Requests
      BY DEF Requests
    <3>3. (CHOOSE r \in Requests : TRUE) \in Requests
      BY <3>2
    <3> QED BY <2>1, <3>3 DEF Init, Requests, Store!Command
  <2>6. faults = 0
    BY <2>1 DEF Init
  <2> QED BY <2>1, <2>2, <2>3, <2>4, <2>5, <2>6 DEF Store!Init, AloneInv, PlaceOf
<1>2. ASSUME TypeOK, FileInv, LockInv, ScanInv, AloneInv, [Next /\ Watch]_<<vars, alone>>
      PROVE  [Store!Next]_<<Bag, req, Stages, alone, faults>>
  <2>1. ASSUME NEW h \in Handlers, Begin(h), Watch PROVE Store!Begin(h)
    <3>1. pc \in [Handlers -> Places] /\ found \in [Handlers -> {-1, 0, 1}]
          /\ req \in [Handlers -> Requests]
      BY <1>2 DEF TypeOK
    <3>2. /\ pc[h] = "idle" /\ pc'[h] \in {"measure", "rewind"} /\ pc'[h] # "idle"
          /\ \A g \in Handlers \ {h} : pc'[g] = pc[g] /\ found'[g] = found[g]
          /\ file' = file /\ faults' = faults
      BY <2>1, <3>1 DEF Begin, Goto
    <3>3. Stage(h) = "idle" /\ Stage(h)' = "asked"
      BY <3>2 DEF Stage
    <3>4. Store!Become(h, "idle", "asked")
      BY <3>2, <3>3, StageMoves
    <3>5. \E r \in Store!Command : req' = [req EXCEPT ![h] = r]
      BY <2>1 DEF Begin, Requests, Store!Command
    <3>6. alone' = {f \in Handlers : pc'[f] # "idle" /\ \A g \in Handlers \ {f} : pc'[g] = "idle"}
      BY <2>1, <3>2 DEF Watch
    <3>7. \A g \in Handlers : Stages[g] = "idle" <=> pc[g] = "idle"
      BY <3>1 DEF Stages, Stage
    <3>8. alone' = IF \A g \in Handlers \ {h} : Stages[g] = "idle" THEN {h} ELSE {}
      <4>1. alone' = IF \A g \in Handlers \ {h} : pc[g] = "idle" THEN {h} ELSE {}
        <5>1. CASE \A g \in Handlers \ {h} : pc[g] = "idle"
          BY <3>2, <3>6, <5>1
        <5>2. CASE ~ \A g \in Handlers \ {h} : pc[g] = "idle"
          BY <3>2, <3>6, <5>2
        <5> QED BY <5>1, <5>2
      <4> QED BY <3>7, <4>1
    <3>9. Bag' = Bag
      BY <3>2 DEF Bag
    <3> QED BY <3>2, <3>4, <3>5, <3>8, <3>9 DEF Store!Begin
  <2>2. ASSUME NEW h \in Handlers, Scan(h) \/ Conclude(h) \/ Fail(h), Watch
        PROVE  [Store!Next]_<<Bag, req, Stages, alone, faults>>
    <3>1. \/ Store!Enter(h) \/ Store!Answer(h) \/ Store!Add(h) \/ Store!Reply(h) \/ Store!Fail(h)
          \/ UNCHANGED <<Bag, req, Stages, alone, faults>>
      BY <1>2, <2>2, StoreSteps
    <3> QED BY <3>1 DEF Store!Next
  <2>3. CASE Restart /\ Watch
    <3>1. /\ pc' = [h \in Handlers |-> "idle"] /\ UNCHANGED <<req, file>> /\ faults' = faults + 1
      BY <2>3 DEF Restart, Fault
    <3>2. Stages' = [h \in Handlers |-> "idle"]
      BY <3>1 DEF Stages, Stage
    <3>3. alone' = alone
      BY <2>3, <3>1, WatchKeeps
    <3>4. Bag' = Bag
      BY <3>1 DEF Bag
    <3>5. Store!Restart
      BY <3>1, <3>2, <3>3, <3>4 DEF Store!Restart
    <3> QED BY <3>5 DEF Store!Next
  <2>4. CASE UNCHANGED <<vars, alone>>
    <3>1. UNCHANGED <<req, alone, faults, file, pc, found>>
      BY <2>4 DEF vars
    <3> QED BY <3>1 DEF Bag, Stages, Stage
  <2>5. CASE Rest /\ Watch
    <3>1. UNCHANGED vars
      BY <2>5 DEF Rest
    <3>2. alone' = alone
      BY <2>5, <3>1, WatchKeeps DEF vars
    <3> QED BY <2>4, <3>1, <3>2
  <2> QED BY <1>2, <2>1, <2>2, <2>3, <2>4, <2>5 DEF Next, Store!Next
<1>3. TypeOK /\ ScanInv /\ AloneInv /\ [Next /\ Watch]_<<vars, alone>> => AloneInv'
  BY AloneKept
<1>4. [Next /\ Watch]_<<vars, alone>> => [Next]_vars
  BY DEF vars
<1>5. AloneSpec => Spec
  BY <1>4, PTL DEF AloneSpec, Spec
<1>6. AloneSpec => [](TypeOK /\ FileInv /\ LockInv /\ ScanInv)
  BY <1>5, TypeCorrect, LinesComplete, LockHeld, ScanIsExact, PTL
<1>7. AloneSpec => []AloneInv
  BY <1>1, <1>3, <1>6, PTL DEF AloneSpec
<1> QED BY <1>1, <1>2, <1>6, <1>7, PTL DEF AloneSpec, ImplementsAccountStore, Store!Spec, Store!storeVars
=============================================================================
