----------------------------- MODULE ScansProofs -----------------------------
(***************************************************************************)
(* The scanning loops for every file: the loop over the accounts answers     *)
(* what Parse says of any window of a file of records, and the loops over a  *)
(* history answer as many of any messages as were asked for.                 *)
(***************************************************************************)
EXTENDS AccountsScan, HistoryScan, FiniteSetTheorems, SequenceTheorems, WellFoundedInduction, TLAPS

---------------------------------------------------------------------------
(* Lemmas about the operators of the files.                                 *)

\* A set of natural numbers that is not empty has a least element.
LEMMA LeastNat ==
  ASSUME NEW T \in SUBSET Nat, T # {}
  PROVE  \E k \in T : \A j \in T : k <= j
<1> USE DEF OpToRel
<1>1. PICK k \in T : \A j \in T : ~ (<<j, k>> \in OpToRel(<, Nat))
  BY NatLessThanWellFounded, WFMin
<1>2. \A j \in T : ~ (j < k)
  BY <1>1
<1> QED BY <1>2

\* FirstAt returns the first index that holds a wanted character, or the one
\* behind the last.
LEMMA FirstAtFinds ==
  ASSUME NEW S, NEW w \in Seq(S), NEW i \in Nat \ {0}, NEW chars
  PROVE  /\ FirstAt(w, i, chars) \in 1..(Len(w) + 1)
         /\ FirstAt(w, i, chars) <= Len(w) =>
              FirstAt(w, i, chars) >= i /\ w[FirstAt(w, i, chars)] \in chars
         /\ \A k \in i..Len(w) : w[k] \in chars => FirstAt(w, i, chars) <= k
<1> DEFINE hits == {k \in i..Len(w) : w[k] \in chars}
<1>1. CASE hits = {}
  BY <1>1, LenProperties DEF FirstAt
<1>2. CASE hits # {}
  <2>1. hits \in SUBSET Nat
    BY LenProperties
  <2>2. \E k \in hits : \A j \in hits : k <= j
    BY <1>2, <2>1, LeastNat
  <2>3. FirstAt(w, i, chars) = CHOOSE k \in hits : \A j \in hits : k <= j
    BY <1>2 DEF FirstAt
  <2>4. FirstAt(w, i, chars) \in hits /\ \A j \in hits : FirstAt(w, i, chars) <= j
    BY <2>2, <2>3
  <2> QED BY <2>4, LenProperties
<1> QED BY <1>1, <1>2

---------------------------------------------------------------------------
(* A history file is the concatenation of its lines.                         *)

\* f collects the first sequences of seqs, as FlattenSeq does.
Collects(f, seqs) ==
  f = [i \in 1..Len(seqs) |-> IF i = 1 THEN seqs[i] ELSE f[i - 1] \o seqs[i]]

\* f does so for the first k of them.
Collected(k, f, seqs) ==
  /\ DOMAIN f = 1..k
  /\ \A i \in 1..k : f[i] = IF i = 1 THEN seqs[i] ELSE f[i - 1] \o seqs[i]

\* One sequence more can be collected.
LEMMA CollectOne ==
  ASSUME NEW seqs, NEW k \in Nat \ {0}, NEW g, Collected(k - 1, g, seqs)
  PROVE  \E f : Collected(k, f, seqs)
<1>1. PICK last : last = IF k = 1 THEN seqs[k] ELSE g[k - 1] \o seqs[k]
  OBVIOUS
<1>2. PICK h : h = [i \in 1..k |-> IF i = k THEN last ELSE g[i]]
  OBVIOUS
<1>3. ASSUME NEW i \in 1..k PROVE h[i] = IF i = 1 THEN seqs[i] ELSE h[i - 1] \o seqs[i]
  <2>1. CASE i = k
    <3>1. h[i] = last
      BY <1>2, <2>1
    <3>2. k # 1 => h[i - 1] = g[k - 1]
      <4>1. SUFFICES ASSUME k # 1 PROVE h[k - 1] = g[k - 1]
        BY <2>1
      <4>2. k - 1 \in 1..k /\ k - 1 # k
        BY <4>1
      <4> QED BY <1>2, <4>2
    <3> QED BY <1>1, <2>1, <3>1, <3>2
  <2>2. CASE i # k
    <3>1. i \in 1..(k - 1) /\ (i # 1 => i - 1 \in 1..k /\ i - 1 # k)
      BY <2>2
    <3>2. h[i] = g[i] /\ (i # 1 => h[i - 1] = g[i - 1])
      BY <1>2, <2>2, <3>1
    <3> QED BY <3>1, <3>2 DEF Collected
  <2> QED BY <2>1, <2>2
<1>4. DOMAIN h = 1..k
  BY <1>2
<1> QED BY <1>3, <1>4 DEF Collected

\* What FlattenSeq looks for exists.
LEMMA FlattenIs ==
  ASSUME NEW S, NEW seqs \in Seq(Seq(S)), Len(seqs) # 0
  PROVE  \E f : Collects(f, seqs) /\ FlattenSeq(seqs) = f[Len(seqs)]
<1>0. Len(seqs) \in Nat
  OBVIOUS
<1>1. \E f : Collects(f, seqs)
  <2>1. PICK n \in Nat : n = Len(seqs)
    BY <1>0
  <2>2. PICK bad : bad = {k \in 0..n : ~ \E f : Collected(k, f, seqs)}
    OBVIOUS
  <2>3. CASE bad = {}
    <3>1. PICK f : Collected(n, f, seqs)
      BY <2>1, <2>2, <2>3
    <3>2. PICK h : h = [i \in 1..n |-> IF i = 1 THEN seqs[i] ELSE f[i - 1] \o seqs[i]]
      OBVIOUS
    <3>3. \A i \in 1..n : h[i] = f[i]
      BY <3>1, <3>2 DEF Collected
    <3>4. \A i \in 1..n : i # 1 => h[i - 1] = f[i - 1]
      BY <3>3
    <3>5. h = [i \in 1..n |-> IF i = 1 THEN seqs[i] ELSE h[i - 1] \o seqs[i]]
      BY <3>2, <3>4
    <3> QED BY <2>1, <3>5 DEF Collects
  <2>4. CASE bad # {}
    <3>0. bad \in SUBSET Nat
      BY <2>2
    <3>1. PICK k \in bad : \A j \in bad : k <= j
      BY <3>0, <2>4, LeastNat
    <3>2. k \in 0..n /\ ~ \E f : Collected(k, f, seqs)
      BY <2>2, <3>1
    <3>3. k # 0
      <4>1. Collected(0, [i \in 1..0 |-> seqs[i]], seqs)
        BY DEF Collected
      <4> QED BY <3>2, <4>1
    <3>4. k - 1 \in 0..n /\ k - 1 \notin bad
      BY <3>1, <3>2, <3>3
    <3>5. PICK g : Collected(k - 1, g, seqs)
      BY <2>2, <3>4
    <3>6. \E f : Collected(k, f, seqs)
      BY <3>2, <3>3, <3>5, CollectOne
    <3> QED BY <3>2, <3>6
  <2> QED BY <2>3, <2>4
<1>2. PICK f : f = CHOOSE g : Collects(g, seqs)
  OBVIOUS
<1>3. Collects(f, seqs)
  BY <1>1, <1>2
<1>4. FlattenSeq(seqs) = f[Len(seqs)]
  BY <1>0, <1>2 DEF FlattenSeq, Collects
<1> QED BY <1>3, <1>4

\* What is collected are sequences.
LEMMA CollectedType ==
  ASSUME NEW S, NEW seqs \in Seq(Seq(S)), NEW f, Collects(f, seqs), NEW i \in 1..Len(seqs)
  PROVE  f[i] \in Seq(S)
<1>1. PICK n \in Nat : n = Len(seqs)
  OBVIOUS
<1>2. PICK bad : bad = {k \in 1..n : f[k] \notin Seq(S)}
  OBVIOUS
<1>3. SUFFICES ASSUME bad # {} PROVE FALSE
  BY <1>1, <1>2
<1>4. bad \in SUBSET Nat
  BY <1>2
<1>5. PICK k \in bad : \A j \in bad : k <= j
  BY <1>3, <1>4, LeastNat
<1>6. k \in 1..n /\ f[k] \notin Seq(S)
  BY <1>2, <1>5
<1>7. f[k] = IF k = 1 THEN seqs[k] ELSE f[k - 1] \o seqs[k]
  BY <1>1, <1>6 DEF Collects
<1>8. seqs[k] \in Seq(S)
  BY <1>1, <1>6, ElementOfSeq
<1>9. k # 1 /\ k - 1 \in 1..n /\ k - 1 \notin bad
  BY <1>5, <1>6, <1>7, <1>8
<1>10. f[k - 1] \in Seq(S)
  BY <1>2, <1>9
<1> QED BY <1>6, <1>7, <1>8, <1>9, <1>10, ConcatProperties

\* From the same sequences the same is collected.
LEMMA CollectsAgree ==
  ASSUME NEW s, NEW t, Len(s) \in Nat, Len(t) \in Nat, Len(s) <= Len(t),
         \A i \in 1..Len(s) : t[i] = s[i],
         NEW f, Collects(f, s), NEW g, Collects(g, t)
  PROVE  \A i \in 1..Len(s) : g[i] = f[i]
<1>1. PICK n \in Nat : n = Len(s)
  OBVIOUS
<1>2. PICK bad : bad = {k \in 1..n : g[k] # f[k]}
  OBVIOUS
<1>3. SUFFICES ASSUME bad # {} PROVE FALSE
  BY <1>1, <1>2
<1>4. bad \in SUBSET Nat
  BY <1>2
<1>5. PICK k \in bad : \A j \in bad : k <= j
  BY <1>3, <1>4, LeastNat
<1>6. k \in 1..n /\ g[k] # f[k]
  BY <1>2, <1>5
<1>7. f[k] = IF k = 1 THEN s[k] ELSE f[k - 1] \o s[k]
  BY <1>1, <1>6 DEF Collects
<1>8. g[k] = IF k = 1 THEN t[k] ELSE g[k - 1] \o t[k]
  <2>1. Len(t) \in Nat /\ k \in 1..Len(t)
    BY <1>1, <1>6
  <2> QED BY <2>1 DEF Collects
<1>9. t[k] = s[k]
  BY <1>1, <1>6
<1>10. k # 1
  BY <1>6, <1>7, <1>8, <1>9
<1>11. k - 1 \in 1..n /\ k - 1 \notin bad
  BY <1>5, <1>6, <1>10
<1> QED BY <1>11, <1>2, <1>6, <1>7, <1>8, <1>9, <1>10

\* One more sequence does not change what the others give.
LEMMA LastAgrees ==
  ASSUME NEW s, NEW t, NEW f, NEW g, Collects(f, s), Collects(g, t),
         NEW n \in Nat \ {0}, Len(s) = n, Len(t) = n + 1, \A i \in 1..n : t[i] = s[i]
  PROVE  g[n] = f[n]
<1>1. Len(s) \in Nat /\ Len(t) \in Nat /\ Len(s) <= Len(t) /\ \A i \in 1..Len(s) : t[i] = s[i]
  OBVIOUS
<1>2. \A i \in 1..Len(s) : g[i] = f[i]
  BY <1>1, CollectsAgree
<1> QED BY <1>2

\* A sequence more is appended to what the others give.
LEMMA FlattenAppend ==
  ASSUME NEW S, NEW seqs \in Seq(Seq(S)), NEW e \in Seq(S)
  PROVE  /\ FlattenSeq(seqs) \in Seq(S)
         /\ FlattenSeq(Append(seqs, e)) = FlattenSeq(seqs) \o e
<1>1. PICK more : more = Append(seqs, e)
  OBVIOUS
<1>2. PICK n \in Nat : n = Len(seqs)
  OBVIOUS
<1>3. /\ more \in Seq(Seq(S)) /\ Len(more) = n + 1 /\ more[n + 1] = e
      /\ \A i \in 1..n : more[i] = seqs[i]
  BY <1>1, <1>2, AppendProperties
<1>4. PICK g : Collects(g, more) /\ FlattenSeq(more) = g[n + 1]
  <2>1. Len(more) # 0
    BY <1>3
  <2>2. \E g : Collects(g, more) /\ FlattenSeq(more) = g[Len(more)]
    BY <1>3, <2>1, FlattenIs
  <2> QED BY <1>3, <2>2
<1>5. g[n + 1] = IF n + 1 = 1 THEN e ELSE g[n] \o e
  <2>1. n + 1 \in 1..Len(more) /\ (n + 1) - 1 = n
    BY <1>3
  <2> QED BY <1>3, <1>4, <2>1 DEF Collects
<1>6. CASE n = 0
  <2>1. FlattenSeq(seqs) = seqs
    BY <1>2, <1>6 DEF FlattenSeq
  <2>2. seqs = <<>>
    BY <1>2, <1>6, EmptySeq
  <2>3. <<>> \o e = e /\ <<>> \in Seq(S)
    BY ConcatEmptySeq, EmptySeq
  <2> QED BY <1>1, <1>4, <1>5, <1>6, <2>1, <2>2, <2>3
<1>7. CASE n # 0
  <2>1. PICK f : Collects(f, seqs) /\ FlattenSeq(seqs) = f[n]
    <3>1. \E f : Collects(f, seqs) /\ FlattenSeq(seqs) = f[Len(seqs)]
      BY <1>2, <1>7, FlattenIs
    <3> QED BY <1>2, <3>1
  <2>2. n \in 1..Len(seqs) /\ Len(seqs) <= Len(more) /\ \A i \in 1..Len(seqs) : more[i] = seqs[i]
    BY <1>2, <1>3, <1>7
  <2>3. f[n] \in Seq(S)
    BY <2>1, <2>2, CollectedType
  <2>4. g[n] = f[n]
    <3>1. /\ Len(seqs) = n /\ Len(more) = n + 1 /\ \A i \in 1..n : more[i] = seqs[i]
          /\ Collects(f, seqs) /\ Collects(g, more)
      BY <1>2, <1>3, <1>4, <2>1
    <3>2. n \in Nat \ {0}
      BY <1>7
    <3> QED BY <3>1, <3>2, LastAgrees, SMT
  <2> QED BY <1>1, <1>4, <1>5, <1>7, <2>1, <2>3, <2>4
<1> QED BY <1>6, <1>7

\* CR LF as a sequence.
LEMMA BreakIs ==
  /\ <<CR, LF>> \in Seq(TCHAR) /\ Len(<<CR, LF>>) = 2
  /\ <<CR, LF>>[1] = CR /\ <<CR, LF>>[2] = LF
<1>1. CR \in TCHAR /\ LF \in TCHAR
  BY CharactersAssumption DEF Separators
<1> QED BY <1>1

\* A message more adds its line at the end of the file.
LEMMA FileAppend ==
  ASSUME NEW t \in Seq(Seq(TCHAR)), NEW x \in Seq(TCHAR)
  PROVE  /\ FileOf(t) \in Seq(TCHAR)
         /\ FileOf(Append(t, x)) = FileOf(t) \o (x \o <<CR, LF>>)
<1>1. PICK n \in Nat : n = Len(t)
  OBVIOUS
<1>2. DOMAIN t = 1..n
  BY <1>1, LenProperties
<1>3. PICK more : more = Append(t, x)
  OBVIOUS
<1>4. more \in Seq(Seq(TCHAR)) /\ Len(more) = n + 1 /\ more[n + 1] = x /\ \A i \in 1..n : more[i] = t[i]
  BY <1>1, <1>3, AppendProperties
<1>5. DOMAIN more = 1..(n + 1)
  BY <1>4, LenProperties
<1>6. PICK b \in Seq(TCHAR) : b = <<CR, LF>>
  BY BreakIs
<1>7. PICK lines : lines = [i \in 1..n |-> t[i] \o b]
  OBVIOUS
<1>8. lines \in Seq(Seq(TCHAR)) /\ Len(lines) = n /\ \A i \in 1..n : lines[i] = t[i] \o b
  <2>1. \A i \in 1..n : t[i] \in Seq(TCHAR)
    BY <1>1, ElementOfSeq
  <2>2. \A i \in 1..n : t[i] \o b \in Seq(TCHAR)
    BY <2>1, ConcatProperties
  <2>3. lines \in [1..n -> Seq(TCHAR)]
    BY <1>7, <2>2
  <2> QED BY <1>7, <2>3
<1>9. PICK last \in Seq(TCHAR) : last = x \o b
  BY ConcatProperties
<1>10. PICK all : all = [i \in 1..(n + 1) |-> more[i] \o b]
  OBVIOUS
<1>11. all = Append(lines, last)
  <2>1. PICK app : app = Append(lines, last)
    OBVIOUS
  <2>2. /\ app \in Seq(Seq(TCHAR)) /\ Len(app) = n + 1 /\ app[n + 1] = last
        /\ \A i \in 1..n : app[i] = lines[i]
    BY <1>8, <2>1, AppendProperties
  <2>3. DOMAIN app = 1..(n + 1) /\ app = [i \in 1..(n + 1) |-> app[i]]
    BY <2>2, LenProperties
  <2>4. \A i \in 1..(n + 1) : app[i] = more[i] \o b
    <3>1. TAKE i \in 1..(n + 1)
    <3>2. CASE i = n + 1
      BY <1>4, <1>9, <2>2, <3>2
    <3>3. CASE i # n + 1
      <4>1. i \in 1..n
        BY <3>3
      <4> QED BY <1>4, <1>8, <2>2, <4>1
    <3> QED BY <3>2, <3>3
  <2> QED BY <1>10, <2>1, <2>3, <2>4
<1>12. FileOf(t) = FlattenSeq(lines) /\ FileOf(more) = FlattenSeq(all)
  BY <1>2, <1>5, <1>6, <1>7, <1>10 DEF FileOf
<1>13. FlattenSeq(lines) \in Seq(TCHAR) /\ FlattenSeq(Append(lines, last)) = FlattenSeq(lines) \o last
  BY <1>8, FlattenAppend
<1> QED BY <1>3, <1>6, <1>9, <1>11, <1>12, <1>13

\* The file without a message is empty.
LEMMA NoLines == FileOf(<<>>) = <<>>
<1>1. PICK none : none = [i \in DOMAIN <<>> |-> (<<>>)[i] \o <<CR, LF>>]
  OBVIOUS
<1>2. none = <<>>
  BY <1>1
<1> QED BY <1>1, <1>2 DEF FileOf, FlattenSeq

\* The first k of the messages and the next.
LEMMA OneMore ==
  ASSUME NEW S, NEW t \in Seq(S), NEW m \in 1..Len(t), NEW c \in 0..(m - 1)
  PROVE  /\ SubSeq(t, c + 1, m) = Append(SubSeq(t, c + 1, m - 1), t[m])
         /\ SubSeq(t, c + 1, m - 1) \in Seq(S) /\ t[m] \in S
<1>1. Len(t) \in Nat /\ m \in Nat /\ t[m] \in S
  BY ElementOfSeq
<1>2. c + 1 \in 1..Len(t) /\ m \in (c + 1)..Len(t)
  BY <1>1
<1>3. SubSeq(t, c + 1, m) = SubSeq(t, c + 1, m - 1) \o <<t[m]>>
  BY <1>2, SubSeqRecursiveSecond
<1>4. SubSeq(t, c + 1, m - 1) \in Seq(S)
  <2>1. \A i \in (c + 1)..(m - 1) : t[i] \in S
    BY <1>1, <1>2, ElementOfSeq
  <2> QED BY <1>1, <2>1, SubSeqProperties
<1> QED BY <1>1, <1>3, <1>4, AppendIsConcat

\* Concatenation is associative.
LEMMA Regroup ==
  ASSUME NEW f \in Seq(TCHAR), NEW g \in Seq(TCHAR), NEW h \in Seq(TCHAR)
  PROVE  (f \o g) \o h = f \o (g \o h)
BY ConcatAssociative

\* The file of all messages is that of the first c and that of the others.
LEMMA FileSplits ==
  ASSUME NEW t \in Seq(Seq(TCHAR)), NEW c \in 0..Len(t)
  PROVE  FileOf(t) = FileOf(SubSeq(t, 1, c)) \o FileOf(SubSeq(t, c + 1, Len(t)))
<1>1. PICK n \in Nat : n = Len(t)
  OBVIOUS
<1>2. SUFFICES FileOf(SubSeq(t, 1, n)) = FileOf(SubSeq(t, 1, c)) \o FileOf(SubSeq(t, c + 1, n))
  BY <1>1, SubSeqFull
<1>3. PICK bad : bad = {m \in c..n : FileOf(SubSeq(t, 1, m))
                                       # FileOf(SubSeq(t, 1, c)) \o FileOf(SubSeq(t, c + 1, m))}
  OBVIOUS
<1>4. c \in Nat /\ n \in c..n
  BY <1>1
<1>5. SUFFICES ASSUME bad # {} PROVE FALSE
  BY <1>3, <1>4
<1>6. bad \in SUBSET Nat
  BY <1>3, <1>4
<1>7. PICK m \in bad : \A j \in bad : m <= j
  BY <1>5, <1>6, LeastNat
<1>8. m \in c..n
  BY <1>3, <1>7
<1>p. SubSeq(t, 1, c) \in Seq(Seq(TCHAR))
  <2>1. \A i \in 1..c : t[i] \in Seq(TCHAR)
    BY <1>1, ElementOfSeq
  <2> QED BY <1>4, <2>1, SubSeqProperties
<1>h. PICK head \in Seq(TCHAR) : head = FileOf(SubSeq(t, 1, c))
  BY <1>p, FileAppend, EmptySeq
<1>9. CASE m = c
  <2>1. SubSeq(t, c + 1, m) = <<>>
    BY <1>4, <1>9, SubSeqEmpty
  <2>2. head \o <<>> = head
    BY ConcatEmptySeq
  <2> QED BY <1>3, <1>7, <1>9, <1>h, <2>1, <2>2, NoLines
<1>10. CASE m # c
  <2>1. m \in 1..Len(t) /\ c \in 0..(m - 1) /\ 0 \in 0..(m - 1) /\ m - 1 \in c..n /\ m - 1 \notin bad
    BY <1>1, <1>4, <1>7, <1>8, <1>10
  <2>2. PICK x \in Seq(TCHAR) : x = t[m]
    BY <2>1, OneMore
  <2>3. PICK s \in Seq(Seq(TCHAR)) : s = SubSeq(t, 1, m - 1) /\ SubSeq(t, 1, m) = Append(s, x)
    <3>1. /\ SubSeq(t, 0 + 1, m) = Append(SubSeq(t, 0 + 1, m - 1), t[m])
          /\ SubSeq(t, 0 + 1, m - 1) \in Seq(Seq(TCHAR))
      BY <2>1, OneMore
    <3>2. 0 + 1 = 1
      OBVIOUS
    <3> QED BY <2>2, <3>1, <3>2
  <2>4. PICK r \in Seq(Seq(TCHAR)) : r = SubSeq(t, c + 1, m - 1) /\ SubSeq(t, c + 1, m) = Append(r, x)
    BY <2>1, <2>2, OneMore
  <2>5. FileOf(s) = head \o FileOf(r)
    BY <1>3, <1>h, <2>1, <2>3, <2>4
  <2>6. PICK line \in Seq(TCHAR) : line = x \o <<CR, LF>>
    BY BreakIs, ConcatProperties
  <2>7. FileOf(Append(s, x)) = FileOf(s) \o line /\ FileOf(Append(r, x)) = FileOf(r) \o line
        /\ FileOf(r) \in Seq(TCHAR)
    BY <2>6, FileAppend
  <2>8. (head \o FileOf(r)) \o line = head \o (FileOf(r) \o line)
    <3>1. PICK tail \in Seq(TCHAR) : tail = FileOf(r)
      BY <2>7
    <3>2. head \in Seq(TCHAR) /\ tail \in Seq(TCHAR) /\ line \in Seq(TCHAR)
      OBVIOUS
    <3>3. (head \o tail) \o line = head \o (tail \o line)
      BY <3>2, Regroup, Zenon
    <3> QED BY <3>1, <3>3
  <2> QED BY <1>3, <1>7, <1>h, <2>3, <2>4, <2>5, <2>7, <2>8
<1> QED BY <1>9, <1>10

\* Where the line of the k-th message ends.
EndOf(texts, k) == Len(FileOf(SubSeq(texts, 1, k)))

\* The messages of a history: not empty, without line break.
Texts == Seq(TCHAR \ {CR, LF}) \ {<<>>}

\* A history's messages are such texts, and its counts are numbers.
LEMMA HistoryTypes ==
  /\ \A t \in Histories : t \in Seq(Texts) /\ t \in Seq(Seq(TCHAR))
  /\ \A n \in Counts : n \in Int
<1>1. \A x \in Texts : x \in Seq(TCHAR)
  BY DEF Texts
<1>2. ASSUME NEW t \in Seq(Texts) PROVE t \in Seq(Seq(TCHAR))
  <2>1. Len(t) \in Nat /\ t \in [1..Len(t) -> Texts]
    BY LenProperties
  <2>2. t \in [1..Len(t) -> Seq(TCHAR)]
    BY <1>1, <2>1
  <2> QED BY <2>1, <2>2
<1>3. \A t \in Histories : t \in Seq(Texts)
  BY HistoryAssumption DEF Texts
<1>4. \A n \in Counts : n \in Int
  BY HistoryAssumption
<1> QED BY <1>2, <1>3, <1>4

\* The line of the k-th message in the file: its characters, none of which is
\* a line break or a terminator, and the line break.
LEMMA LineStands ==
  ASSUME NEW t \in Histories, NEW k \in 1..Len(t)
  PROVE  \E a \in Nat \ {0} :
           /\ EndOf(t, k - 1) \in Nat /\ EndOf(t, k) = EndOf(t, k - 1) + a + 2
           /\ EndOf(t, k) <= Len(FileOf(t))
           /\ \A j \in (EndOf(t, k - 1) + 1)..(EndOf(t, k - 1) + a) :
                FileOf(t)[j] # CR /\ FileOf(t)[j] # NUL
           /\ FileOf(t)[EndOf(t, k - 1) + a + 1] = CR
<1>1. PICK n \in Nat : n = Len(t) /\ t \in Seq(Texts) /\ t \in Seq(Seq(TCHAR))
  BY HistoryTypes
<1>2. PICK x \in Seq(TCHAR) : x = t[k] /\ x \in Texts
  BY <1>1, ElementOfSeq
<1>3. PICK a \in Nat \ {0} : a = Len(x)
  BY <1>2, EmptySeq DEF Texts
<1>4. ASSUME NEW j \in 1..a PROVE x[j] # CR /\ x[j] # NUL
  <2>1. x \in Seq(TCHAR \ {CR, LF})
    BY <1>2 DEF Texts
  <2>2. x[j] \in TCHAR \ {CR, LF}
    BY <1>3, <2>1, ElementOfSeq
  <2> QED BY <2>2, CharactersAssumption
<1>5. PICK s \in Seq(Seq(TCHAR)) : s = SubSeq(t, 1, k - 1) /\ SubSeq(t, 1, k) = Append(s, x)
  <2>1. 0 \in 0..(k - 1) /\ 0 + 1 = 1
    BY <1>1
  <2>2. /\ SubSeq(t, 0 + 1, k) = Append(SubSeq(t, 0 + 1, k - 1), t[k])
        /\ SubSeq(t, 0 + 1, k - 1) \in Seq(Seq(TCHAR))
    BY <1>1, <2>1, OneMore
  <2> QED BY <1>2, <2>1, <2>2
<1>6. PICK f \in Seq(TCHAR) : f = FileOf(s) /\ FileOf(Append(s, x)) = f \o (x \o <<CR, LF>>)
  BY FileAppend
<1>7. PICK e \in Nat : e = Len(f) /\ e = EndOf(t, k - 1)
  BY <1>5, <1>6 DEF EndOf
<1>8. PICK line : line = x \o <<CR, LF>>
  OBVIOUS
<1>9. /\ line \in Seq(TCHAR) /\ Len(line) = a + 2
      /\ \A j \in 1..a : line[j] = x[j]
      /\ line[a + 1] = CR
  <2>1. PICK b \in Seq(TCHAR) : b = <<CR, LF>> /\ Len(b) = 2 /\ b[1] = CR
    BY BreakIs
  <2>2. /\ x \o b \in Seq(TCHAR) /\ Len(x \o b) = Len(x) + Len(b)
        /\ \A j \in 1..(Len(x) + Len(b)) : (x \o b)[j] = IF j <= Len(x) THEN x[j] ELSE b[j - Len(x)]
    BY ConcatProperties
  <2>3. Len(line) = a + 2 /\ \A j \in 1..(a + 2) : line[j] = IF j <= a THEN x[j] ELSE b[j - a]
    BY <1>3, <1>8, <2>1, <2>2
  <2>4. a + 1 \in 1..(a + 2) /\ ~ (a + 1 <= a) /\ (a + 1) - a = 1 /\ \A j \in 1..a : j \in 1..(a + 2) /\ j <= a
    OBVIOUS
  <2> QED BY <1>8, <2>1, <2>2, <2>3, <2>4
<1>10. PICK g \in Seq(TCHAR) : g = f \o line
  BY <1>9, ConcatProperties
<1>11. g = FileOf(SubSeq(t, 1, k))
  BY <1>5, <1>6, <1>8, <1>10
<1>12. /\ Len(g) = e + a + 2
       /\ \A j \in 1..(e + a + 2) : g[j] = IF j <= e THEN f[j] ELSE line[j - e]
  <2>1. PICK l \in Seq(TCHAR) : l = line
    BY <1>9
  <2>2. /\ Len(f \o l) = Len(f) + Len(l)
        /\ \A j \in 1..(Len(f) + Len(l)) : (f \o l)[j] = IF j <= Len(f) THEN f[j] ELSE l[j - Len(f)]
    BY ConcatProperties
  <2>3. Len(f) = e /\ Len(l) = a + 2 /\ g = f \o l /\ e + (a + 2) = e + a + 2
    BY <1>7, <1>9, <1>10, <2>1
  <2> QED BY <2>1, <2>2, <2>3
<1>13. PICK h \in Seq(TCHAR) : h = FileOf(SubSeq(t, k + 1, n))
  <2>1. \A i \in (k + 1)..n : t[i] \in Seq(TCHAR)
    BY <1>1, ElementOfSeq
  <2>2. SubSeq(t, k + 1, n) \in Seq(Seq(TCHAR))
    BY <1>1, <2>1, SubSeqProperties
  <2> QED BY <2>2, FileAppend, EmptySeq
<1>14. PICK whole : whole = FileOf(t)
  OBVIOUS
<1>15. whole = g \o h
  <2>1. k \in 0..Len(t)
    BY <1>1
  <2> QED BY <1>1, <1>11, <1>13, <1>14, <2>1, FileSplits
<1>16. /\ Len(whole) \in Nat /\ e + a + 2 <= Len(whole)
       /\ \A j \in 1..(e + a + 2) : whole[j] = g[j]
  <2>1. /\ Len(whole) = Len(g) + Len(h) /\ Len(h) \in Nat
        /\ \A j \in 1..(Len(g) + Len(h)) : whole[j] = IF j <= Len(g) THEN g[j] ELSE h[j - Len(g)]
    BY <1>15, ConcatProperties
  <2> QED BY <1>12, <2>1
<1>17. ASSUME NEW j \in (e + 1)..(e + a) PROVE whole[j] # CR /\ whole[j] # NUL
  <2>1. j \in 1..(e + a + 2) /\ ~ (j <= e) /\ j - e \in 1..a
    OBVIOUS
  <2>2. whole[j] = line[j - e]
    BY <1>12, <1>16, <2>1
  <2>3. line[j - e] = x[j - e]
    BY <1>9, <2>1
  <2> QED BY <1>4, <2>1, <2>2, <2>3
<1>18. whole[e + a + 1] = CR
  <2>1. e + a + 1 \in 1..(e + a + 2) /\ ~ (e + a + 1 <= e) /\ (e + a + 1) - e = a + 1
    OBVIOUS
  <2>2. whole[e + a + 1] = line[(e + a + 1) - e]
    BY <1>12, <1>16, <2>1
  <2> QED BY <1>9, <2>1, <2>2
<1>19. EndOf(t, k) = e + a + 2
  BY <1>11, <1>12 DEF EndOf
<1> QED BY <1>7, <1>14, <1>16, <1>17, <1>18, <1>19

\* Where a history ends and begins.
LEMMA EndsOfHistory ==
  ASSUME NEW t \in Histories
  PROVE  /\ FileOf(t) \in Seq(TCHAR)
         /\ EndOf(t, 0) = 0 /\ EndOf(t, Len(t)) = Len(FileOf(t))
         /\ \A k \in 0..Len(t) : EndOf(t, k) \in 0..Len(FileOf(t))
<1>1. t \in Seq(Seq(TCHAR)) /\ Len(t) \in Nat
  BY HistoryTypes
<1>2. FileOf(t) \in Seq(TCHAR) /\ Len(FileOf(t)) \in Nat
  BY <1>1, FileAppend, EmptySeq
<1>3. EndOf(t, 0) = 0
  <2>1. SubSeq(t, 1, 0) = <<>>
    BY SubSeqEmpty
  <2> QED BY <2>1, NoLines, EmptySeq DEF EndOf
<1>4. EndOf(t, Len(t)) = Len(FileOf(t))
  BY <1>1, SubSeqFull DEF EndOf
<1>5. ASSUME NEW k \in 0..Len(t) PROVE EndOf(t, k) \in 0..Len(FileOf(t))
  <2>1. CASE k = Len(t)
    BY <1>2, <1>4, <2>1
  <2>2. CASE k # Len(t)
    <3>1. k + 1 \in 1..Len(t) /\ (k + 1) - 1 = k
      BY <1>1, <2>2
    <3>2. PICK a \in Nat \ {0} :
            /\ EndOf(t, (k + 1) - 1) \in Nat /\ EndOf(t, k + 1) = EndOf(t, (k + 1) - 1) + a + 2
            /\ EndOf(t, k + 1) <= Len(FileOf(t))
      BY <3>1, LineStands
    <3>3. PICK e : e = EndOf(t, k)
      OBVIOUS
    <3>4. e \in Nat /\ e + a + 2 <= Len(FileOf(t))
      BY <3>1, <3>2, <3>3
    <3> QED BY <1>2, <3>3, <3>4
  <2> QED BY <2>1, <2>2
<1> QED BY <1>2, <1>3, <1>4, <1>5

\* The buffer with the file in it.
Buffer(t) == Append(FileOf(t), NUL)

\* It is the file with a terminator behind it.
LEMMA BufferIs ==
  ASSUME NEW t \in Histories
  PROVE  \E n \in Nat :
           /\ n = Len(FileOf(t)) /\ Buffer(t) \in Seq(TCHAR \cup {NUL}) /\ Len(Buffer(t)) = n + 1
           /\ Buffer(t)[n + 1] = NUL
           /\ \A i \in 1..n : Buffer(t)[i] = FileOf(t)[i] /\ Buffer(t)[i] # NUL
<1>1. PICK f : f = FileOf(t) /\ f \in Seq(TCHAR)
  BY EndsOfHistory
<1>2. PICK n \in Nat : n = Len(f)
  BY <1>1
<1>3. f \in Seq(TCHAR \cup {NUL}) /\ NUL \in TCHAR \cup {NUL}
  <2>1. f \in [1..n -> TCHAR]
    BY <1>1, <1>2, LenProperties
  <2>2. f \in [1..n -> TCHAR \cup {NUL}]
    BY <2>1
  <2> QED BY <2>2
<1>4. PICK b : b = Buffer(t) /\ b = Append(f, NUL)
  BY <1>1 DEF Buffer
<1>5. b \in Seq(TCHAR \cup {NUL}) /\ Len(b) = n + 1 /\ b[n + 1] = NUL /\ \A i \in 1..n : b[i] = f[i]
  BY <1>2, <1>3, <1>4, AppendProperties
<1>6. \A i \in 1..n : b[i] # NUL
  <2>1. \A i \in 1..n : f[i] \in TCHAR
    BY <1>1, <1>2, ElementOfSeq
  <2> QED BY <1>5, <2>1, CharactersAssumption
<1> QED BY <1>1, <1>2, <1>4, <1>5, <1>6

\* Behind k lines stands the terminator if there are no more.
LEMMA TerminatorLast ==
  ASSUME NEW t \in Histories, NEW k \in 0..Len(t)
  PROVE  Buffer(t)[EndOf(t, k) + 1] = NUL <=> k = Len(t)
<1>1. PICK n \in Nat :
        /\ n = Len(FileOf(t)) /\ Buffer(t)[n + 1] = NUL /\ \A i \in 1..n : Buffer(t)[i] # NUL
  BY BufferIs
<1>2. Len(t) \in Nat
  BY HistoryTypes
<1>3. CASE k = Len(t)
  BY <1>1, <1>3, EndsOfHistory
<1>4. CASE k # Len(t)
  <2>1. k + 1 \in 1..Len(t) /\ (k + 1) - 1 = k
    BY <1>2, <1>4
  <2>2. PICK a \in Nat \ {0} :
          /\ EndOf(t, (k + 1) - 1) \in Nat /\ EndOf(t, k + 1) = EndOf(t, (k + 1) - 1) + a + 2
          /\ EndOf(t, k + 1) <= Len(FileOf(t))
    BY <2>1, LineStands
  <2>3. PICK e : e = EndOf(t, k)
    OBVIOUS
  <2>4. e \in Nat /\ e + a + 2 <= n
    BY <1>1, <2>1, <2>2, <2>3
  <2>5. e + 1 \in 1..n
    BY <2>4
  <2> QED BY <1>1, <1>4, <2>3, <2>5
<1> QED BY <1>3, <1>4

\* The first line break behind k lines ends the next one.
LEMMA BreakNext ==
  ASSUME NEW t \in Histories, NEW k \in 0..(Len(t) - 1)
  PROVE  FirstAt(Buffer(t), EndOf(t, k) + 1, {CR}) + 2 = EndOf(t, k + 1) + 1
<1>1. PICK n \in Nat, b \in Seq(TCHAR \cup {NUL}) :
        /\ n = Len(FileOf(t)) /\ b = Buffer(t) /\ Len(b) = n + 1
        /\ \A i \in 1..n : b[i] = FileOf(t)[i]
  BY BufferIs
<1>2. Len(t) \in Nat
  BY HistoryTypes
<1>3. k + 1 \in 1..Len(t) /\ (k + 1) - 1 = k
  BY <1>2
<1>4. PICK a \in Nat \ {0} :
        /\ EndOf(t, (k + 1) - 1) \in Nat /\ EndOf(t, k + 1) = EndOf(t, (k + 1) - 1) + a + 2
        /\ EndOf(t, k + 1) <= Len(FileOf(t))
        /\ \A j \in (EndOf(t, (k + 1) - 1) + 1)..(EndOf(t, (k + 1) - 1) + a) :
             FileOf(t)[j] # CR /\ FileOf(t)[j] # NUL
        /\ FileOf(t)[EndOf(t, (k + 1) - 1) + a + 1] = CR
  BY <1>3, LineStands
<1>5. PICK e \in Nat : e = EndOf(t, k)
  BY <1>3, <1>4
<1>6. /\ EndOf(t, k + 1) = e + a + 2 /\ e + a + 2 <= n
      /\ \A j \in (e + 1)..(e + a) : FileOf(t)[j] # CR
      /\ FileOf(t)[e + a + 1] = CR
  BY <1>1, <1>3, <1>4, <1>5
<1>7. b[e + a + 1] = CR /\ \A j \in (e + 1)..(e + a) : b[j] # CR
  <2>1. e + a + 1 \in 1..n /\ \A j \in (e + 1)..(e + a) : j \in 1..n
    BY <1>6
  <2> QED BY <1>1, <1>6, <2>1
<1>8. PICK m : m = FirstAt(b, e + 1, {CR})
  OBVIOUS
<1>9. /\ m \in 1..(n + 2) /\ (m <= n + 1 => m >= e + 1 /\ b[m] = CR)
      /\ \A i \in (e + 1)..(n + 1) : b[i] = CR => m <= i
  <2>1. e + 1 \in Nat \ {0}
    OBVIOUS
  <2>2. /\ FirstAt(b, e + 1, {CR}) \in 1..(Len(b) + 1)
        /\ FirstAt(b, e + 1, {CR}) <= Len(b) =>
             FirstAt(b, e + 1, {CR}) >= e + 1 /\ b[FirstAt(b, e + 1, {CR})] \in {CR}
        /\ \A i \in (e + 1)..Len(b) : b[i] \in {CR} => FirstAt(b, e + 1, {CR}) <= i
    BY <2>1, FirstAtFinds
  <2>3. Len(b) = n + 1
    BY <1>1
  <2>4. /\ m \in 1..(n + 1 + 1) /\ (m <= n + 1 => m >= e + 1 /\ b[m] \in {CR})
        /\ \A i \in (e + 1)..(n + 1) : b[i] \in {CR} => m <= i
    BY <1>8, <2>2, <2>3
  <2> QED BY <2>4
<1>10. m = e + a + 1
  <2>1. e + a + 1 \in (e + 1)..(n + 1)
    BY <1>6
  <2>2. m <= e + a + 1
    BY <1>7, <1>9, <2>1
  <2>3. m >= e + 1 /\ b[m] = CR
    BY <1>6, <1>9, <2>2
  <2>4. m \notin (e + 1)..(e + a)
    BY <1>7, <2>3
  <2> QED BY <1>9, <2>2, <2>3, <2>4
<1> QED BY <1>1, <1>5, <1>6, <1>8, <1>10

\* The C string behind k lines is the file of the other messages.
LEMMA RestOfBuffer ==
  ASSUME NEW t \in Histories, NEW k \in 0..Len(t)
  PROVE  StringAt(Buffer(t), EndOf(t, k) + 1) = FileOf(SubSeq(t, k + 1, Len(t)))
<1>1. PICK n \in Nat, b \in Seq(TCHAR \cup {NUL}) :
        /\ n = Len(FileOf(t)) /\ b = Buffer(t) /\ Len(b) = n + 1 /\ b[n + 1] = NUL
        /\ \A i \in 1..n : b[i] = FileOf(t)[i] /\ b[i] # NUL
  BY BufferIs
<1>2. Len(t) \in Nat /\ t \in Seq(Seq(TCHAR))
  BY HistoryTypes
<1>3. PICK g \in Seq(TCHAR) : g = FileOf(SubSeq(t, 1, k))
  <2>1. \A i \in 1..k : t[i] \in Seq(TCHAR)
    BY <1>2, ElementOfSeq
  <2>2. SubSeq(t, 1, k) \in Seq(Seq(TCHAR))
    BY <1>2, <2>1, SubSeqProperties
  <2> QED BY <2>2, FileAppend, EmptySeq
<1>4. PICK h \in Seq(TCHAR) : h = FileOf(SubSeq(t, k + 1, Len(t)))
  <2>1. \A i \in (k + 1)..Len(t) : t[i] \in Seq(TCHAR)
    BY <1>2, ElementOfSeq
  <2>2. SubSeq(t, k + 1, Len(t)) \in Seq(Seq(TCHAR))
    BY <1>2, <2>1, SubSeqProperties
  <2> QED BY <2>2, FileAppend, EmptySeq
<1>5. PICK f \in Seq(TCHAR) : f = FileOf(t)
  BY EndsOfHistory
<1>6. f = g \o h
  BY <1>2, <1>3, <1>4, <1>5, FileSplits
<1>7. PICK e \in Nat : e = Len(g) /\ e = EndOf(t, k)
  BY <1>3 DEF EndOf
<1>8. PICK l \in Nat : l = Len(h)
  BY LenProperties
<1>9. n = e + l /\ \A i \in 1..n : f[i] = IF i <= e THEN g[i] ELSE h[i - e]
  <2>1. Len(f) = Len(g) + Len(h) /\ \A i \in 1..(Len(g) + Len(h)) : f[i] = IF i <= Len(g) THEN g[i] ELSE h[i - Len(g)]
    BY <1>6, ConcatProperties
  <2> QED BY <1>1, <1>5, <1>7, <1>8, <2>1
<1>10. PICK m : m = FirstAt(b, e + 1, {NUL})
  OBVIOUS
<1>11. m = n + 1
  <2>1. e + 1 \in Nat \ {0}
    OBVIOUS
  <2>2. /\ FirstAt(b, e + 1, {NUL}) \in 1..(Len(b) + 1)
        /\ FirstAt(b, e + 1, {NUL}) <= Len(b) =>
             FirstAt(b, e + 1, {NUL}) >= e + 1 /\ b[FirstAt(b, e + 1, {NUL})] \in {NUL}
        /\ \A i \in (e + 1)..Len(b) : b[i] \in {NUL} => FirstAt(b, e + 1, {NUL}) <= i
    BY <2>1, FirstAtFinds
  <2>3. Len(b) = n + 1 /\ b[n + 1] = NUL
    BY <1>1
  <2>4. /\ m \in 1..(n + 1 + 1) /\ (m <= n + 1 => b[m] = NUL)
        /\ \A i \in (e + 1)..(n + 1) : b[i] \in {NUL} => m <= i
    BY <1>10, <2>2, <2>3
  <2>5. n + 1 \in (e + 1)..(n + 1)
    BY <1>9
  <2>6. m <= n + 1
    BY <2>3, <2>4, <2>5
  <2>7. m \notin 1..n
    BY <1>1, <2>4, <2>6
  <2> QED BY <2>4, <2>6, <2>7
<1>12. PICK r : r = SubSeq(b, e + 1, n)
  OBVIOUS
<1>13. r \in Seq(TCHAR) /\ Len(r) = l /\ \A i \in 1..l : r[i] = b[e + i]
  <2>1. \A i \in (e + 1)..n : b[i] \in TCHAR
    <3>1. TAKE i \in (e + 1)..n
    <3>2. i \in 1..n /\ f[i] \in TCHAR
      BY <1>1, <1>5, ElementOfSeq
    <3> QED BY <1>1, <1>5, <3>2
  <2>2. /\ r \in Seq(TCHAR) /\ Len(r) = IF e + 1 <= n THEN n - (e + 1) + 1 ELSE 0
        /\ \A i \in 1..(n - (e + 1) + 1) : r[i] = b[(e + 1) + i - 1]
    BY <1>12, <2>1, SubSeqProperties
  <2>3. n - (e + 1) + 1 = l /\ (e + 1 <= n <=> l # 0) /\ \A i \in 1..l : (e + 1) + i - 1 = e + i
    BY <1>9
  <2> QED BY <2>2, <2>3
<1>14. ASSUME NEW i \in 1..l PROVE r[i] = h[i]
  <2>1. e + i \in 1..n /\ ~ (e + i <= e) /\ (e + i) - e = i
    BY <1>9
  <2> QED BY <1>1, <1>5, <1>9, <1>13, <2>1
<1>15. r = h
  BY <1>8, <1>13, <1>14, SeqEqual
<1>16. StringAt(b, e + 1) = r
  <2>1. m - 1 = n
    BY <1>11
  <2> QED BY <1>10, <1>12, <2>1 DEF StringAt
<1> QED BY <1>1, <1>4, <1>7, <1>15, <1>16

---------------------------------------------------------------------------
(* The loops over a history.                                                *)

\* The cursor stands behind k lines.
Passed(k) ==
  /\ k \in 0..Len(messages)
  /\ LineBegin = EndOf(messages, k) + 1

\* The loops pass the lines one by one, and the second does not pass more than
\* those that were not asked for.
HistoryInv ==
  /\ messages \in Histories /\ numberInt \in Counts /\ accounts = Buffer(messages)
  /\ phase \in {"read", "count", "skip", "done"}
  /\ phase # "done" => answer = <<>>
  /\ phase = "read" => cursor = 1 /\ first = TRUE /\ overAll = 0
  /\ phase \in {"count", "skip"} => cursor \in Nat /\ messages # <<>>
  /\ phase = "count" => Passed(overAll)
  /\ phase = "skip" =>
       /\ Passed(counter) /\ overAll = Len(messages) /\ numberInt < overAll
       /\ numberInt >= 0 => counter <= overAll - numberInt
  /\ HistoryAnswersCount

\* A file that is shorter than three characters has no message.
LEMMA ShortIsEmpty ==
  ASSUME NEW t \in Histories
  PROVE  Len(Buffer(t)) - 1 < 3 <=> t = <<>>
<1>1. PICK n \in Nat : n = Len(FileOf(t)) /\ Len(Buffer(t)) = n + 1
  BY BufferIs
<1>2. t \in Seq(Seq(TCHAR)) /\ Len(t) \in Nat
  BY HistoryTypes
<1>3. CASE t = <<>>
  <2>1. n = 0
    BY <1>1, <1>3, NoLines, EmptySeq
  <2> QED BY <1>1, <1>3, <2>1
<1>4. CASE t # <<>>
  <2>1. 1 \in 1..Len(t)
    BY <1>2, <1>4, EmptySeq
  <2>2. PICK a \in Nat \ {0} :
          /\ EndOf(t, 1 - 1) \in Nat /\ EndOf(t, 1) = EndOf(t, 1 - 1) + a + 2
          /\ EndOf(t, 1) <= Len(FileOf(t))
    BY <2>1, LineStands
  <2>3. PICK e \in Nat : e = EndOf(t, 1 - 1)
    BY <2>2
  <2>4. e + a + 2 <= n
    BY <1>1, <2>2, <2>3
  <2>5. n + 1 - 1 >= 3
    BY <2>4
  <2> QED BY <1>1, <1>4, <2>5
<1> QED BY <1>3, <1>4

\* The next line is passed.
LEMMA PassesNext ==
  ASSUME HistoryInv, NEW k, Passed(k), accounts[LineBegin] # NUL,
         cursor' = LineBreak, first' = FALSE, UNCHANGED messages
  PROVE  Passed(k + 1)' /\ cursor' \in Nat
<1>1. messages \in Histories /\ accounts = Buffer(messages)
  BY DEF HistoryInv
<1>2. k \in 0..Len(messages) /\ LineBegin = EndOf(messages, k) + 1 /\ Len(messages) \in Nat
  BY <1>1, HistoryTypes DEF Passed
<1>3. k # Len(messages)
  BY <1>1, <1>2, TerminatorLast
<1>4. k \in 0..(Len(messages) - 1) /\ k + 1 \in 0..Len(messages)
  BY <1>2, <1>3
<1>5. LineBreak = FirstAt(Buffer(messages), EndOf(messages, k) + 1, {CR})
  BY <1>1, <1>2 DEF LineBreak
<1>6. LineBreak + 2 = EndOf(messages, k + 1) + 1
  BY <1>1, <1>4, <1>5, BreakNext
<1>7. LineBreak \in Nat
  <2>1. PICK b \in Seq(TCHAR \cup {NUL}) : b = Buffer(messages)
    BY <1>1, BufferIs
  <2>2. PICK e \in Nat : e = EndOf(messages, k)
    BY <1>1, <1>2, EndsOfHistory
  <2>3. e + 1 \in Nat \ {0}
    OBVIOUS
  <2>4. FirstAt(b, e + 1, {CR}) \in 1..(Len(b) + 1) /\ Len(b) \in Nat
    BY <2>3, FirstAtFinds
  <2> QED BY <1>5, <2>1, <2>2, <2>4
<1>8. LineBegin' = LineBreak + 2
  BY DEF LineBegin
<1> QED BY <1>4, <1>6, <1>7, <1>8 DEF Passed

\* At the terminator all lines are passed.
LEMMA PassedAll ==
  ASSUME HistoryInv, NEW k, Passed(k), accounts[LineBegin] = NUL
  PROVE  k = Len(messages)
<1>1. messages \in Histories /\ accounts = Buffer(messages)
  BY DEF HistoryInv
<1>2. k \in 0..Len(messages) /\ LineBegin = EndOf(messages, k) + 1
  BY DEF Passed
<1> QED BY <1>1, <1>2, TerminatorLast

\* A history is answered with the last of its messages, as many as were asked for
\* (ProcessHistory), whatever the messages and the count are.
THEOREM HistoryCorrect == HistorySpec => []HistoryAnswersCount
<1>1. HistoryInit => HistoryInv
  BY DEF HistoryInit, HistoryInv, HistoryAnswersCount, Buffer
<1>2. HistoryInv /\ [HistoryNext]_historyVars => HistoryInv'
  <2> SUFFICES ASSUME HistoryInv, [HistoryNext]_historyVars PROVE HistoryInv'
    OBVIOUS
  <2>1. /\ messages \in Histories /\ numberInt \in Counts /\ accounts = Buffer(messages)
        /\ phase # "done" => answer = <<>>
    BY DEF HistoryInv
  <2>2. numberInt \in Int /\ Len(messages) \in Nat /\ messages \in Seq(Seq(TCHAR))
    BY <2>1, HistoryTypes
  <2>3. CASE ReadHistory
    <3>1. phase = "read" /\ cursor = 1 /\ first = TRUE /\ overAll = 0 /\ answer = <<>>
      BY <2>1, <2>3 DEF ReadHistory, Phase, HistoryInv
    <3>2. UNCHANGED <<messages, numberInt, accounts, cursor, first, overAll, counter>>
      BY <2>3 DEF ReadHistory
    <3>3. CASE messages = <<>>
      <4>1. phase' = "done" /\ answer' = <<<<LF>>>>
        BY <2>1, <2>3, <3>3, ShortIsEmpty DEF ReadHistory, Phase
      <4> QED BY <2>1, <3>2, <3>3, <4>1 DEF HistoryInv, HistoryAnswersCount
    <3>4. CASE messages # <<>>
      <4>1. phase' = "count" /\ answer' = <<>>
        BY <2>1, <2>3, <3>1, <3>4, ShortIsEmpty DEF ReadHistory, Phase
      <4>2. Passed(0)'
        <5>1. LineBegin' = 1 /\ EndOf(messages, 0) = 0
          BY <2>1, <3>1, <3>2, EndsOfHistory DEF LineBegin
        <5> QED BY <2>2, <3>2, <5>1 DEF Passed
      <4> QED BY <2>1, <3>1, <3>2, <3>4, <4>1, <4>2 DEF HistoryInv, HistoryAnswersCount
    <3> QED BY <3>3, <3>4
  <2>4. CASE CountLine
    <3>1. phase = "count" /\ Passed(overAll) /\ messages # <<>>
      BY <2>4 DEF CountLine, HistoryInv
    <3>k. PICK k : k = overAll
      OBVIOUS
    <3>2. Passed(k + 1)' /\ cursor' \in Nat
      BY <2>4, <3>1, <3>k, PassesNext DEF CountLine
    <3>3. Passed(overAll)'
      BY <2>4, <3>2, <3>k DEF CountLine, Passed
    <3> QED BY <2>1, <2>4, <3>1, <3>2, <3>3 DEF CountLine, HistoryInv, HistoryAnswersCount
  <2>5. CASE CountEnds
    <3>1. phase = "count" /\ Passed(overAll) /\ messages # <<>> /\ answer = <<>>
      BY <2>1, <2>5 DEF CountEnds, Phase, HistoryInv
    <3>2. overAll = Len(messages)
      BY <2>5, <3>1, PassedAll DEF CountEnds
    <3>3. Passed(0)'
      <4>1. LineBegin' = 1 /\ EndOf(messages, 0) = 0 /\ messages' = messages
        BY <2>1, <2>5, EndsOfHistory DEF CountEnds, LineBegin
      <4> QED BY <2>2, <4>1 DEF Passed
    <3>4. CASE overAll <= numberInt
      <4>1. answer' = <<StringAt(accounts, 1)>> /\ phase' = "done"
        BY <2>5, <3>1, <3>4 DEF CountEnds, Phase
      <4>2. StringAt(accounts, 1) = FileOf(messages)
        <5>1. 0 \in 0..Len(messages)
          BY <2>2
        <5>2. StringAt(Buffer(messages), EndOf(messages, 0) + 1) = FileOf(SubSeq(messages, 0 + 1, Len(messages)))
          BY <2>1, <5>1, RestOfBuffer
        <5>3. EndOf(messages, 0) + 1 = 1 /\ 0 + 1 = 1
          BY <2>1, EndsOfHistory
        <5> QED BY <2>1, <2>2, <5>2, <5>3, SubSeqFull
      <4>3. LastOf(messages, numberInt) = messages /\ ~ (numberInt < 0)
        <5>1. ~ (numberInt < Len(messages)) /\ ~ (numberInt < 0)
          BY <2>2, <3>2, <3>4
        <5>2. LastOf(messages, numberInt) = SubSeq(messages, 1, Len(messages))
          BY <5>1 DEF LastOf
        <5> QED BY <2>2, <5>1, <5>2, SubSeqFull
      <4>4. HistoryAnswersCount'
        BY <2>5, <3>1, <4>1, <4>2, <4>3 DEF CountEnds, HistoryAnswersCount
      <4> QED BY <2>1, <2>5, <4>1, <4>4 DEF CountEnds, HistoryInv
    <3>5. CASE ~ (overAll <= numberInt)
      <4>1. phase' = "skip" /\ answer' = <<>> /\ counter' = 0 /\ cursor' = 1
            /\ UNCHANGED <<messages, numberInt, accounts, overAll>>
        BY <2>5, <3>1, <3>5 DEF CountEnds, Phase
      <4>2. numberInt < overAll
        BY <2>2, <3>2, <3>5
      <4>3. numberInt >= 0 => 0 <= overAll - numberInt
        BY <2>2, <3>2, <4>2
      <4>4. Passed(counter)'
        BY <3>3, <4>1 DEF Passed
      <4> QED BY <2>1, <3>1, <3>2, <4>1, <4>2, <4>3, <4>4 DEF HistoryInv, HistoryAnswersCount
    <3> QED BY <3>4, <3>5
  <2>6. CASE SkipLine
    <3>1. /\ phase = "skip" /\ Passed(counter) /\ messages # <<>> /\ overAll = Len(messages)
          /\ numberInt < overAll /\ (numberInt >= 0 => counter <= overAll - numberInt)
      BY <2>6 DEF SkipLine, HistoryInv
    <3>k. PICK k : k = counter
      OBVIOUS
    <3>2. Passed(k + 1)' /\ cursor' \in Nat
      BY <2>6, <3>1, <3>k, PassesNext DEF SkipLine
    <3>3. Passed(counter)'
      BY <2>6, <3>2, <3>k DEF SkipLine, Passed
    <3>4. counter \in Nat
      BY <2>2, <3>1 DEF Passed
    <3>5. numberInt >= 0 => counter + 1 <= overAll - numberInt
      BY <2>2, <2>6, <3>1, <3>4 DEF SkipLine, Reached
    <3> QED BY <2>1, <2>6, <3>1, <3>2, <3>3, <3>5 DEF SkipLine, HistoryInv, HistoryAnswersCount
  <2>7. CASE SendRest
    <3>1. phase = "skip" /\ Passed(counter) /\ messages # <<>> /\ overAll = Len(messages) /\ numberInt < overAll
          /\ answer = <<>>
      BY <2>1, <2>7 DEF SendRest, Phase, HistoryInv
    <3>2. counter \in 0..Len(messages) /\ LineBegin = EndOf(messages, counter) + 1
      BY <3>1 DEF Passed
    <3>3. counter = Len(messages) - numberInt
      BY <2>2, <2>7, <3>1, <3>2 DEF SendRest, Reached
    <3>4. answer' = <<StringAt(accounts, LineBegin)>> /\ phase' = "done"
      BY <2>7, <3>1 DEF SendRest, Phase
    <3>5. StringAt(accounts, LineBegin) = FileOf(SubSeq(messages, counter + 1, Len(messages)))
      BY <2>1, <3>2, RestOfBuffer
    <3>6. LastOf(messages, numberInt) = SubSeq(messages, counter + 1, Len(messages)) /\ ~ (numberInt < 0)
      BY <2>2, <3>1, <3>2, <3>3 DEF LastOf
    <3>7. HistoryAnswersCount'
      BY <2>7, <3>1, <3>4, <3>5, <3>6 DEF SendRest, HistoryAnswersCount
    <3> QED BY <2>1, <2>7, <3>4, <3>7 DEF SendRest, HistoryInv
  <2>8. CASE SkipEnds
    <3>1. /\ phase = "skip" /\ Passed(counter) /\ messages # <<>> /\ overAll = Len(messages)
          /\ numberInt < overAll /\ (numberInt >= 0 => counter <= overAll - numberInt) /\ answer = <<>>
      BY <2>1, <2>8 DEF SkipEnds, Phase, HistoryInv
    <3>2. counter = Len(messages)
      BY <2>8, <3>1, PassedAll DEF SkipEnds
    <3>3. overAll - counter # numberInt
      BY <2>8 DEF SkipEnds, Reached
    <3>4. numberInt < 0
      BY <2>2, <3>1, <3>2, <3>3
    <3>5. HistoryAnswersCount'
      BY <2>8, <3>1, <3>4 DEF SkipEnds, HistoryAnswersCount
    <3> QED BY <2>1, <2>8, <3>5 DEF SkipEnds, Phase, HistoryInv
  <2>9. CASE UNCHANGED historyVars
    BY <2>9 DEF historyVars, HistoryInv, Passed, LineBegin, HistoryAnswersCount
  <2> QED BY <2>3, <2>4, <2>5, <2>6, <2>7, <2>8, <2>9 DEF HistoryNext, HistoryRest
<1>3. HistoryInv => HistoryAnswersCount
  BY DEF HistoryInv
<1> QED BY <1>1, <1>2, <1>3, PTL DEF HistorySpec

---------------------------------------------------------------------------
(* The loop over the accounts.                                              *)

\* From p on, the buffer holds the chunk, with a terminator behind it.
Agrees(b, w, p) ==
  /\ b \in Seq(TCHAR \cup {NUL}) /\ Len(b) = Len(w) + 1 /\ b[Len(w) + 1] = NUL
  /\ \A k \in p..Len(w) : b[k] = w[k]

\* With the cursor at p the next line starts at h: at the beginning, or behind
\* a line break.
Starts(w, p, start, h) ==
  IF start THEN p = 1 /\ h = 1 ELSE p \in 1..Len(w) /\ w[p] = CR /\ h = p + 2

\* What the loop looks for.
Answers(account, r) ==
  account.name = r.name /\ (r.op = "login" => account.pass = r.pass)

\* No line that starts before h is an account that answers the request.
NoneBefore(w, r, h) ==
  \A i \in LineStarts(w) :
    i < h /\ FirstAt(w, i, {Comma}) <= Len(w) => ~ Answers(AccountAt(w, i), r)

\* The first line break does not come before the first comma.
CommaFirst(w) == ~ (FirstAt(w, 1, {Comma}) > FirstAt(w, 1, {CR}))

\* The lines before the cursor are done with.
Reading ==
  /\ Agrees(buf, chunk, toAdd)
  /\ \E h \in Nat : Starts(chunk, toAdd, firstTime, h) /\ NoneBefore(chunk, want, h)
  /\ firstTime \/ CommaFirst(chunk)

\* A line break came before the first comma, and the comma is cut.
Blocked == Parse(chunk) = {} /\ buf[Search(buf, toAdd)] = NUL

ScanInv ==
  /\ chunk \in Chunks /\ want \in Wanted /\ firstTime \in BOOLEAN
  /\ ~eof => result = FALSE /\ (Reading \/ Blocked)
  /\ LoopMatchesParse

\* The separators and the terminator differ from one another.
LEMMA CharactersDiffer ==
  /\ Comma # CR /\ Comma # LF /\ CR # LF /\ Comma # NUL /\ CR # NUL
  /\ Comma \in TCHAR /\ CR \in TCHAR
<1>1. Comma # CR /\ Comma # LF /\ CR # LF
  BY DEF Comma, CR, LF
<1>2. Comma \in TCHAR /\ CR \in TCHAR /\ NUL \notin TCHAR
  BY CharactersAssumption DEF Separators
<1> QED BY <1>1, <1>2

\* What the chunks and the requests are.
LEMMA ScanTypes ==
  /\ \A w \in Chunks : w \in Seq(TCHAR) /\ Lined(w) /\ Len(w) \in Nat
  /\ \A r \in Wanted : /\ r.name \in Seq(TCHAR \ Separators) /\ r.op \in {"register", "login"}
                       /\ \A k \in 1..Len(r.name) : r.name[k] # CR
<1>1. \A w \in Chunks : w \in Seq(TCHAR) /\ Lined(w) /\ Len(w) \in Nat
  BY ScanAssumption, LenProperties
<1>2. ASSUME NEW r \in Wanted
      PROVE  /\ r.name \in Seq(TCHAR \ Separators) /\ r.op \in {"register", "login"}
             /\ \A k \in 1..Len(r.name) : r.name[k] # CR
  <2>1. r.name \in Seq(TCHAR \ Separators) /\ r.op \in {"register", "login"}
    BY ScanAssumption
  <2>2. \A k \in 1..Len(r.name) : r.name[k] \in TCHAR \ Separators
    BY <2>1, ElementOfSeq
  <2> QED BY <2>1, <2>2 DEF Separators
<1> QED BY <1>1, <1>2

\* The first of the wanted characters is found.
LEMMA FirstAtIs ==
  ASSUME NEW S, NEW w \in Seq(S), NEW i \in Nat \ {0}, NEW chars, NEW m \in i..Len(w),
         w[m] \in chars, \A k \in i..(m - 1) : w[k] \notin chars
  PROVE  FirstAt(w, i, chars) = m
<1>1. PICK f : f = FirstAt(w, i, chars)
  OBVIOUS
<1>2. Len(w) \in Nat /\ m \in Nat /\ i <= m /\ m <= Len(w)
  BY LenProperties
<1>3. /\ f \in 1..(Len(w) + 1) /\ (f <= Len(w) => f >= i /\ w[f] \in chars)
      /\ \A k \in i..Len(w) : w[k] \in chars => f <= k
  BY <1>1, FirstAtFinds
<1>4. f <= m
  BY <1>2, <1>3
<1>5. f >= i /\ w[f] \in chars
  BY <1>2, <1>3, <1>4
<1>6. f \notin i..(m - 1)
  BY <1>5
<1>7. f = m
  BY <1>2, <1>3, <1>4, <1>5, <1>6
<1> QED BY <1>1, <1>7

\* If there is none it is the index behind the last.
LEMMA FirstAtNone ==
  ASSUME NEW w, NEW i, NEW chars, \A k \in i..Len(w) : w[k] \notin chars
  PROVE  FirstAt(w, i, chars) = Len(w) + 1
BY DEF FirstAt

\* Sequences that agree between two indices have the same characters there.
LEMMA SamePart ==
  ASSUME NEW a, NEW b, NEW i \in Nat \ {0}, NEW j \in Nat,
         \A k \in i..j : a[k] \in TCHAR /\ b[k] = a[k]
  PROVE  SubSeq(b, i, j) = SubSeq(a, i, j)
<1>1. PICK x : x = SubSeq(a, i, j)
  OBVIOUS
<1>2. PICK y : y = SubSeq(b, i, j)
  OBVIOUS
<1>3. /\ x \in Seq(TCHAR) /\ Len(x) = (IF i <= j THEN j - i + 1 ELSE 0)
      /\ \A k \in 1..(j - i + 1) : x[k] = a[i + k - 1]
  BY <1>1, SubSeqProperties
<1>4. /\ y \in Seq(TCHAR) /\ Len(y) = (IF i <= j THEN j - i + 1 ELSE 0)
      /\ \A k \in 1..(j - i + 1) : y[k] = b[i + k - 1]
  <2>1. \A k \in i..j : b[k] \in TCHAR
    OBVIOUS
  <2> QED BY <1>2, <2>1, SubSeqProperties
<1>5. ASSUME NEW k \in 1..Len(x) PROVE x[k] = y[k]
  <2>1. k \in 1..(j - i + 1) /\ i + k - 1 \in i..j
    BY <1>3
  <2> QED BY <1>3, <1>4, <2>1
<1>6. x = y
  BY <1>3, <1>4, <1>5, SeqEqual
<1> QED BY <1>1, <1>2, <1>6

\* strstr finds the next comma of the chunk, or the terminator if there is none.
LEMMA SearchIs ==
  ASSUME NEW w \in Seq(TCHAR), Lined(w), NEW p \in 1..(Len(w) + 1), NEW b, Agrees(b, w, p),
         NEW m, m = Search(b, p)
  PROVE  /\ m \in p..(Len(w) + 1)
         /\ \A k \in p..Len(w) : k < m => w[k] # Comma
         /\ b[m] = NUL <=> m = Len(w) + 1
         /\ b[m] = Comma <=> m <= Len(w)
         /\ m <= Len(w) => w[m] = Comma
<1>1. PICK n \in Nat : n = Len(w)
  BY LenProperties
<1>2. /\ b \in Seq(TCHAR \cup {NUL}) /\ Len(b) = n + 1 /\ b[n + 1] = NUL
      /\ \A k \in p..n : b[k] = w[k]
  BY <1>1 DEF Agrees
<1>3. p \in Nat \ {0} /\ p <= n + 1
  BY <1>1
<1>4. /\ m \in 1..(n + 1 + 1) /\ (m <= n + 1 => m >= p /\ b[m] \in {Comma, NUL})
      /\ \A k \in p..(n + 1) : b[k] \in {Comma, NUL} => m <= k
  <2>1. /\ FirstAt(b, p, {Comma, NUL}) \in 1..(Len(b) + 1)
        /\ FirstAt(b, p, {Comma, NUL}) <= Len(b) =>
             FirstAt(b, p, {Comma, NUL}) >= p /\ b[FirstAt(b, p, {Comma, NUL})] \in {Comma, NUL}
        /\ \A k \in p..Len(b) : b[k] \in {Comma, NUL} => FirstAt(b, p, {Comma, NUL}) <= k
    BY <1>2, <1>3, FirstAtFinds
  <2>2. m = FirstAt(b, p, {Comma, NUL}) /\ Len(b) = n + 1
    BY <1>2 DEF Search
  <2> QED BY <2>1, <2>2
<1>5. n + 1 \in p..(n + 1) /\ b[n + 1] \in {Comma, NUL}
  BY <1>2, <1>3
<1>6. m \in p..(n + 1) /\ b[m] \in {Comma, NUL}
  BY <1>3, <1>4, <1>5
<1>7. \A k \in 1..n : w[k] # NUL
  BY <1>1 DEF Lined
<1>8. m # n + 1 => m \in p..n /\ m \in 1..n /\ b[m] = w[m] /\ b[m] # NUL
  BY <1>2, <1>3, <1>6, <1>7
<1>9. \A k \in p..n : k < m => w[k] # Comma
  <2>1. SUFFICES ASSUME NEW k \in p..n, k < m, w[k] = Comma PROVE FALSE
    OBVIOUS
  <2>2. k \in p..(n + 1) /\ b[k] \in {Comma, NUL}
    BY <1>2, <1>3, <2>1
  <2> QED BY <1>3, <1>4, <1>6, <2>1, <2>2
<1>10. b[m] = NUL <=> m = n + 1
  BY <1>2, <1>8
<1>11. (b[m] = Comma <=> m <= n) /\ (m <= n => w[m] = Comma)
  <2>1. m = n + 1 => b[m] # Comma /\ ~ (m <= n)
    BY <1>2, CharactersDiffer
  <2>2. m # n + 1 => b[m] = Comma /\ m <= n /\ w[m] = Comma
    BY <1>3, <1>6, <1>8
  <2> QED BY <2>1, <2>2
<1> QED BY <1>1, <1>6, <1>9, <1>10, <1>11

\* m is the comma of the line that starts at h, next after the cursor.
Placed(w, p, start, h, m) ==
  /\ p \in Nat \ {0} /\ h \in Nat \ {0} /\ p <= h /\ h <= m
  /\ h \in LineStarts(w) /\ FirstAt(w, h, {Comma}) = m
  /\ \A k \in 1..Len(w) : w[k] = CR /\ k + 2 > h => k >= h
  /\ ~start => \A k \in h..(m - 1) : w[k] # CR

\* The next comma belongs to the line that starts next.
LEMMA CommaPlaced ==
  ASSUME NEW w \in Seq(TCHAR), Lined(w), NEW p, NEW h, NEW start \in BOOLEAN, Starts(w, p, start, h),
         NEW m \in Nat, p <= m, m <= Len(w), w[m] = Comma,
         \A k \in p..Len(w) : k < m => w[k] # Comma
  PROVE  Placed(w, p, start, h, m)
<1>1. PICK n \in Nat : n = Len(w)
  BY LenProperties
<1>2. /\ \A k \in 1..n : w[k] = CR /\ k < n => w[k + 1] = LF
      /\ \A j, k \in 1..n : j < k /\ w[j] = CR /\ w[k] = CR => \E c \in j..k : w[c] = Comma
  BY <1>1 DEF Lined
<1>3. p \in Nat \ {0} /\ h \in Nat \ {0} /\ p <= h /\ p <= n
  BY <1>1 DEF Starts
<1>4. h <= m
  <2>1. CASE start
    BY <1>3, <2>1 DEF Starts
  <2>2. CASE ~start
    <3>1. p \in 1..n /\ w[p] = CR /\ h = p + 2
      BY <1>1, <2>2 DEF Starts
    <3>2. m # p
      BY <3>1, CharactersDiffer
    <3>3. m # p + 1
      BY <1>1, <1>2, <3>1, CharactersDiffer
    <3> QED BY <3>1, <3>2, <3>3
  <2> QED BY <2>1, <2>2
<1>5. h \in LineStarts(w)
  BY DEF Starts, LineStarts
<1>6. FirstAt(w, h, {Comma}) = m
  <2>1. m \in h..Len(w) /\ w[m] \in {Comma}
    BY <1>1, <1>3, <1>4
  <2>2. \A k \in h..(m - 1) : w[k] \notin {Comma}
    <3>1. TAKE k \in h..(m - 1)
    <3>2. k \in p..n /\ k < m
      BY <1>1, <1>3
    <3> QED BY <1>1, <3>2
  <2> QED BY <1>3, <2>1, <2>2, FirstAtIs
<1>7. ASSUME NEW k \in 1..n, w[k] = CR, k + 2 > h PROVE k >= h
  <2>1. CASE start
    BY <2>1 DEF Starts
  <2>2. CASE ~start
    <3>1. p \in 1..n /\ w[p] = CR /\ h = p + 2
      BY <1>1, <2>2 DEF Starts
    <3>2. k # p + 1
      BY <1>2, <1>7, <3>1, CharactersDiffer
    <3> QED BY <1>7, <3>1, <3>2
  <2> QED BY <2>1, <2>2
<1>8. ASSUME ~start, NEW k \in h..(m - 1), w[k] = CR PROVE FALSE
  <2>1. p \in 1..n /\ w[p] = CR /\ h = p + 2 /\ k \in 1..n /\ p < k /\ k < m
    BY <1>1, <1>3, <1>8 DEF Starts
  <2>2. PICK c \in p..k : w[c] = Comma
    BY <1>2, <1>8, <2>1
  <2>3. c \in p..n /\ c < m
    BY <2>1
  <2> QED BY <1>1, <2>2, <2>3
<1> QED BY <1>1, <1>3, <1>4, <1>5, <1>6, <1>7, <1>8 DEF Placed

\* The buffer after the comma at m was overwritten.
CutAt(b, m) == [b EXCEPT ![m] = NUL]

\* The comma of the line that starts at h, behind the cursor, is at m.
Cutting(b, w, p, h, m) ==
  /\ w \in Seq(TCHAR) /\ Lined(w) /\ Agrees(b, w, p)
  /\ p \in Nat \ {0} /\ h \in Nat \ {0} /\ m \in Nat
  /\ p <= h /\ h <= m /\ m <= Len(w)

\* What the buffer is then.
IsCut(c, w, h, m) ==
  /\ Agrees(c, w, m + 1) /\ c[m] = NUL
  /\ \A k \in h..Len(w) : k # m => c[k] = w[k]
  /\ FirstAt(c, h, {NUL}) = m
  /\ StringAt(c, h) = SubSeq(w, h, m - 1)

\* The string from the line's start on is what the chunk has up to the comma.
LEMMA CutIs ==
  ASSUME NEW w, NEW b, NEW p, NEW h, NEW m, Cutting(b, w, p, h, m)
  PROVE  IsCut(CutAt(b, m), w, h, m)
<1>0. /\ w \in Seq(TCHAR) /\ Lined(w) /\ Agrees(b, w, p)
      /\ p \in Nat \ {0} /\ h \in Nat \ {0} /\ m \in Nat /\ p <= h /\ h <= m /\ m <= Len(w)
  BY DEF Cutting
<1>1. PICK n \in Nat : n = Len(w)
  BY <1>0, LenProperties
<1>2. /\ b \in Seq(TCHAR \cup {NUL}) /\ Len(b) = n + 1 /\ b[n + 1] = NUL
      /\ \A k \in p..n : b[k] = w[k]
  BY <1>0, <1>1 DEF Agrees
<1>3. PICK c : c = CutAt(b, m)
  BY <1>0
<1>4. c \in Seq(TCHAR \cup {NUL}) /\ Len(c) = n + 1 /\ \A k \in 1..(n + 1) : c[k] = IF k = m THEN NUL ELSE b[k]
  <2>1. m \in 1..Len(b) /\ NUL \in TCHAR \cup {NUL}
    BY <1>0, <1>1, <1>2
  <2>2. c \in Seq(TCHAR \cup {NUL}) /\ Len(c) = Len(b) /\ \A k \in 1..Len(b) : c[k] = IF k = m THEN NUL ELSE b[k]
    BY <1>0, <1>2, <1>3, <2>1, ExceptSeq DEF CutAt
  <2> QED BY <1>0, <1>2, <2>2
<1>5. c[m] = NUL /\ c[n + 1] = NUL /\ \A k \in h..n : k # m => c[k] = w[k]
  <2>1. m \in 1..(n + 1) /\ n + 1 \in 1..(n + 1) /\ n + 1 # m
    BY <1>0, <1>1
  <2>2. \A k \in h..n : k \in 1..(n + 1) /\ k \in p..n
    BY <1>0
  <2> QED BY <1>0, <1>2, <1>4, <2>1, <2>2
<1>6. Agrees(c, w, m + 1)
  <2>1. \A k \in (m + 1)..n : k \in h..n /\ k # m
    BY <1>0, <1>1
  <2> QED BY <1>0, <1>1, <1>4, <1>5, <2>1 DEF Agrees
<1>7. ASSUME NEW k \in h..(m - 1) PROVE c[k] = w[k] /\ w[k] # NUL /\ w[k] \in TCHAR
  <2>1. k \in h..n /\ k # m /\ k \in 1..n
    BY <1>0, <1>1
  <2> QED BY <1>0, <1>1, <1>5, <2>1, ElementOfSeq DEF Lined
<1>8. FirstAt(c, h, {NUL}) = m
  <2>1. m \in h..Len(c) /\ c[m] \in {NUL} /\ \A k \in h..(m - 1) : c[k] \notin {NUL}
    BY <1>0, <1>1, <1>4, <1>5, <1>7
  <2> QED BY <1>0, <1>4, <2>1, FirstAtIs
<1>9. SubSeq(c, h, m - 1) = SubSeq(w, h, m - 1)
  <2>1. m - 1 \in Nat
    BY <1>0
  <2>2. \A k \in h..(m - 1) : w[k] \in TCHAR /\ c[k] = w[k]
    BY <1>0, <1>7
  <2> QED BY <1>0, <2>1, <2>2, SamePart
<1>10. StringAt(c, h) = SubSeq(w, h, m - 1)
  BY <1>0, <1>8, <1>9 DEF StringAt
<1> QED BY <1>1, <1>3, <1>5, <1>6, <1>8, <1>10 DEF IsCut

\* A line break before the comma ends the line there.
LEMMA EndsBefore ==
  ASSUME NEW w, NEW b, NEW p, NEW h, NEW m, Cutting(b, w, p, h, m),
         NEW k \in h..(m - 1), w[k] = CR
  PROVE  /\ LineEnd(CutAt(b, m), h) \in h..(m - 1)
         /\ CutAt(b, m)[LineEnd(CutAt(b, m), h)] = CR /\ w[LineEnd(CutAt(b, m), h)] = CR
<1>0. /\ w \in Seq(TCHAR) /\ Lined(w) /\ Agrees(b, w, p)
      /\ p \in Nat \ {0} /\ h \in Nat \ {0} /\ m \in Nat /\ p <= h /\ h <= m /\ m <= Len(w)
  BY DEF Cutting
<1>1. PICK n \in Nat : n = Len(w)
  BY <1>0, LenProperties
<1>2. PICK c : c = CutAt(b, m)
  BY <1>0
<1>3. /\ c \in Seq(TCHAR \cup {NUL}) /\ Len(c) = n + 1
      /\ \A i \in h..n : i # m => c[i] = w[i]
      /\ FirstAt(c, h, {NUL}) = m
  <2>1. IsCut(c, w, h, m)
    BY <1>2, CutIs
  <2> QED BY <1>1, <2>1 DEF Agrees, IsCut
<1>4. PICK q : q = FirstAt(c, h, {CR})
  BY <1>0
<1>5. /\ q \in 1..(n + 1 + 1) /\ (q <= n + 1 => q >= h /\ c[q] = CR)
      /\ \A i \in h..(n + 1) : c[i] = CR => q <= i
  <2>1. /\ FirstAt(c, h, {CR}) \in 1..(Len(c) + 1)
        /\ FirstAt(c, h, {CR}) <= Len(c) => FirstAt(c, h, {CR}) >= h /\ c[FirstAt(c, h, {CR})] \in {CR}
        /\ \A i \in h..Len(c) : c[i] \in {CR} => FirstAt(c, h, {CR}) <= i
    BY <1>0, <1>3, FirstAtFinds
  <2> QED BY <1>0, <1>3, <1>4, <2>1
<1>6. k \in h..n /\ k # m /\ k \in h..(n + 1)
  BY <1>0, <1>1
<1>7. q <= k
  BY <1>0, <1>3, <1>5, <1>6
<1>8. q \in h..(m - 1) /\ c[q] = CR
  BY <1>0, <1>5, <1>6, <1>7
<1>9. LineEnd(c, h) = q
  BY <1>0, <1>3, <1>4, <1>8 DEF LineEnd
<1>10. w[q] = CR
  BY <1>0, <1>1, <1>3, <1>8
<1> QED BY <1>0, <1>2, <1>8, <1>9, <1>10

\* The line from h on, its comma at m, ends at e, and what stands between the
\* comma and the end is the account's password.
EndsAt(c, w, h, m, e) ==
  /\ e \in (m + 1)..(Len(w) + 1)
  /\ \A k \in h..Len(w) : w[k] = CR => k >= e
  /\ c[e] = NUL <=> e = Len(w) + 1
  /\ e <= Len(w) => w[e] = CR
  /\ SubSeq(c, m + 1, e - 1) = AccountAt(w, h).pass

\* Without a line break before the comma the line ends at the next line break,
\* or at the terminator.
LEMMA EndsBehind ==
  ASSUME NEW w, NEW b, NEW p, NEW h, NEW m, Cutting(b, w, p, h, m),
         w[m] = Comma, FirstAt(w, h, {Comma}) = m,
         \A k \in h..(m - 1) : w[k] # CR,
         NEW e, e = LineEnd(CutAt(b, m), h)
  PROVE  EndsAt(CutAt(b, m), w, h, m, e)
<1>0. /\ w \in Seq(TCHAR) /\ Lined(w) /\ Agrees(b, w, p)
      /\ p \in Nat \ {0} /\ h \in Nat \ {0} /\ m \in Nat /\ p <= h /\ h <= m /\ m <= Len(w)
  BY DEF Cutting
<1>1. PICK n \in Nat : n = Len(w)
  BY <1>0, LenProperties
<1>2. PICK c : c = CutAt(b, m)
  BY <1>0
<1>3. /\ c \in Seq(TCHAR \cup {NUL}) /\ Len(c) = n + 1 /\ c[n + 1] = NUL /\ c[m] = NUL
      /\ \A i \in h..n : i # m => c[i] = w[i]
      /\ FirstAt(c, h, {NUL}) = m
  <2>1. IsCut(c, w, h, m)
    BY <1>2, CutIs, Zenon
  <2> QED BY <1>1, <2>1 DEF Agrees, IsCut
<1>4. \A k \in 1..n : w[k] # NUL /\ w[k] \in TCHAR
  BY <1>0, <1>1, ElementOfSeq DEF Lined
<1>5. ~ (FirstAt(c, h, {CR}) < m)
  <2>1. PICK q : q = FirstAt(c, h, {CR})
    BY <1>0
  <2>2. q \in 1..(n + 1 + 1) /\ (q <= n + 1 => q >= h /\ c[q] = CR)
    <3>1. /\ FirstAt(c, h, {CR}) \in 1..(Len(c) + 1)
          /\ FirstAt(c, h, {CR}) <= Len(c) => FirstAt(c, h, {CR}) >= h /\ c[FirstAt(c, h, {CR})] \in {CR}
      BY <1>0, <1>3, FirstAtFinds
    <3> QED BY <1>0, <1>3, <2>1, <3>1
  <2>3. SUFFICES ASSUME q < m PROVE FALSE
    BY <1>0, <2>1
  <2>4. q \in h..(m - 1) /\ q \in h..n /\ q # m /\ c[q] = CR
    BY <1>0, <1>1, <2>2, <2>3
  <2> QED BY <1>0, <1>3, <2>4
<1>6. e = FirstAt(c, m + 1, {CR, NUL})
  <2>1. e = LineEnd(c, h)
    BY <1>0, <1>2
  <2> QED BY <1>0, <1>3, <1>5, <2>1 DEF LineEnd
<1>7. /\ e \in (m + 1)..(n + 1) /\ c[e] \in {CR, NUL}
      /\ \A i \in (m + 1)..(n + 1) : c[i] \in {CR, NUL} => e <= i
  <2>1. m + 1 \in Nat \ {0}
    BY <1>0
  <2>2. /\ FirstAt(c, m + 1, {CR, NUL}) \in 1..(Len(c) + 1)
        /\ FirstAt(c, m + 1, {CR, NUL}) <= Len(c) =>
             FirstAt(c, m + 1, {CR, NUL}) >= m + 1 /\ c[FirstAt(c, m + 1, {CR, NUL})] \in {CR, NUL}
        /\ \A i \in (m + 1)..Len(c) : c[i] \in {CR, NUL} => FirstAt(c, m + 1, {CR, NUL}) <= i
    BY <1>0, <1>3, <2>1, FirstAtFinds
  <2>3. /\ e \in 1..(n + 1 + 1) /\ (e <= n + 1 => e >= m + 1 /\ c[e] \in {CR, NUL})
        /\ \A i \in (m + 1)..(n + 1) : c[i] \in {CR, NUL} => e <= i
    BY <1>0, <1>3, <1>6, <2>2
  <2>4. n + 1 \in (m + 1)..(n + 1) /\ c[n + 1] \in {CR, NUL}
    BY <1>0, <1>1, <1>3
  <2> QED BY <1>0, <2>3, <2>4
<1>8. e <= n => e \in h..n /\ e # m /\ e \in 1..n /\ c[e] = w[e]
  BY <1>0, <1>3, <1>7
<1>9. (c[e] = NUL <=> e = n + 1) /\ (e <= n => w[e] = CR)
  <2>1. CASE e = n + 1
    BY <1>0, <1>3, <2>1
  <2>2. CASE e # n + 1
    <3>1. e <= n
      BY <1>0, <1>7, <2>2
    <3>2. c[e] = w[e] /\ w[e] # NUL
      BY <1>0, <1>4, <1>8, <3>1
    <3> QED BY <1>0, <1>7, <2>2, <3>2
  <2> QED BY <1>0, <2>1, <2>2
<1>10. ASSUME NEW k \in h..n, w[k] = CR PROVE k >= e
  <2>1. k # m
    BY <1>0, <1>10, CharactersDiffer
  <2>2. k \notin h..(m - 1)
    BY <1>0, <1>10
  <2>3. k \in (m + 1)..(n + 1) /\ c[k] = CR
    BY <1>0, <1>3, <1>10, <2>1, <2>2
  <2> QED BY <1>0, <1>7, <2>3
<1>11. FirstAt(w, m, {CR}) = e
  <2>1. w[m] # CR
    BY <1>0, CharactersDiffer
  <2>2. CASE e <= n
    <3>1. e \in m..Len(w) /\ w[e] \in {CR} /\ m \in Nat \ {0}
      BY <1>0, <1>1, <1>7, <1>9, <2>2
    <3>2. ASSUME NEW k \in m..(e - 1) PROVE w[k] \notin {CR}
      <4>1. k \in h..n /\ ~ (k >= e)
        BY <1>0, <1>7, <2>2
      <4> QED BY <1>0, <1>10, <4>1
    <3> QED BY <1>0, <3>1, <3>2, FirstAtIs
  <2>3. CASE ~ (e <= n)
    <3>1. e = n + 1
      BY <1>0, <1>7, <2>3
    <3>2. ASSUME NEW k \in m..Len(w) PROVE w[k] \notin {CR}
      <4>1. k \in h..n /\ ~ (k >= e)
        BY <1>0, <1>1, <3>1
      <4> QED BY <1>0, <1>10, <4>1
    <3>3. FirstAt(w, m, {CR}) = Len(w) + 1
      BY <1>0, <3>2, FirstAtNone
    <3> QED BY <1>0, <1>1, <3>1, <3>3
  <2> QED BY <1>0, <2>2, <2>3
<1>12. AccountAt(w, h).pass = SubSeq(w, m + 1, e - 1)
  BY <1>0, <1>11 DEF AccountAt
<1>13. SubSeq(c, m + 1, e - 1) = SubSeq(w, m + 1, e - 1)
  <2>1. m + 1 \in Nat \ {0} /\ e - 1 \in Nat
    BY <1>0, <1>7
  <2>2. ASSUME NEW k \in (m + 1)..(e - 1) PROVE w[k] \in TCHAR /\ c[k] = w[k]
    <3>1. k \in h..n /\ k # m /\ k \in 1..n
      BY <1>0, <1>7
    <3> QED BY <1>0, <1>3, <1>4, <3>1
  <2>3. \A k \in (m + 1)..(e - 1) : w[k] \in TCHAR /\ c[k] = w[k]
    BY <1>0, <2>2
  <2> QED BY <2>1, <2>3, SamePart
<1> QED BY <1>1, <1>2, <1>7, <1>9, <1>10, <1>12, <1>13 DEF EndsAt

\* If every line of the chunk was looked at, no account answers the request.
LEMMA Unanswered ==
  ASSUME NEW w, NEW r,
         \A i \in LineStarts(w) : FirstAt(w, i, {Comma}) <= Len(w) => ~ Answers(AccountAt(w, i), r)
  PROVE  ~ Matches(w, r)
<1>1. SUFFICES ASSUME NEW account \in Parse(w), Answers(account, r) PROVE FALSE
  BY DEF Matches, Answers
<1>2. PICK i \in LineStarts(w) : FirstAt(w, i, {Comma}) <= Len(w) /\ account = AccountAt(w, i)
  BY <1>1 DEF Parse
<1> QED BY <1>1, <1>2

\* A line that answers the request is an account of the chunk.
LEMMA Answered ==
  ASSUME NEW w, NEW r, CommaFirst(w), NEW h \in LineStarts(w), FirstAt(w, h, {Comma}) <= Len(w),
         Answers(AccountAt(w, h), r)
  PROVE  Matches(w, r)
<1>1. AccountAt(w, h) \in Parse(w)
  BY DEF Parse, CommaFirst
<1> QED BY <1>1 DEF Matches, Answers

\* When the line at h does not answer, none before the one behind e does.
LEMMA NoneUpTo ==
  ASSUME NEW w, NEW r, NEW h \in Nat \ {0}, NEW e \in Nat,
         NoneBefore(w, r, h), ~ Answers(AccountAt(w, h), r),
         \A k \in 1..Len(w) : w[k] = CR /\ k + 2 > h => k >= e
  PROVE  NoneBefore(w, r, e + 2)
<1>1. SUFFICES ASSUME NEW i \in LineStarts(w), i < e + 2, FirstAt(w, i, {Comma}) <= Len(w),
                      Answers(AccountAt(w, i), r)
               PROVE  FALSE
  BY DEF NoneBefore
<1>2. i \in Nat
  BY DEF LineStarts
<1>3. ~ (i < h) /\ i # h
  BY <1>1 DEF NoneBefore
<1>4. i > h
  BY <1>2, <1>3
<1>5. PICK k \in 1..Len(w) : w[k] = CR /\ i = k + 2
  BY <1>4 DEF LineStarts
<1>6. k >= e
  BY <1>4, <1>5
<1> QED BY <1>1, <1>5, <1>6

\* If the first line break comes before the comma, the loop stops at the comma
\* it has overwritten, and so does Parse.
LEMMA StopsThere ==
  ASSUME NEW w, NEW b, NEW m, NEW q, Cutting(b, w, 1, 1, m), w[m] = Comma,
         FirstAt(w, 1, {Comma}) = m, q \in 1..(m - 1), w[q] = CR
  PROVE  Search(CutAt(b, m), q) = m /\ Parse(w) = {}
<1>1. PICK n \in Nat : n = Len(w)
  BY LenProperties DEF Cutting
<1>2. PICK c : c = CutAt(b, m)
  OBVIOUS
<1>3. /\ c \in Seq(TCHAR \cup {NUL}) /\ Len(c) = n + 1 /\ c[m] = NUL
      /\ \A i \in 1..n : i # m => c[i] = w[i]
  <2>1. IsCut(c, w, 1, m)
    BY <1>2, CutIs, Zenon
  <2> QED BY <1>1, <2>1 DEF Agrees, IsCut
<1>4. m \in Nat /\ m <= n /\ w \in Seq(TCHAR) /\ Lined(w)
  BY <1>1 DEF Cutting
<1>5. \A k \in 1..(m - 1) : w[k] # Comma /\ w[k] # NUL
  <2>1. \A k \in 1..Len(w) : w[k] \in {Comma} => FirstAt(w, 1, {Comma}) <= k
    BY <1>4, FirstAtFinds
  <2>2. \A k \in 1..(m - 1) : k \in 1..Len(w) /\ ~ (m <= k)
    BY <1>1, <1>4
  <2> QED BY <1>4, <2>1, <2>2 DEF Lined
<1>6. Search(c, q) = m
  <2>1. q \in Nat \ {0} /\ m \in q..Len(c) /\ c[m] \in {Comma, NUL}
    BY <1>3, <1>4
  <2>2. ASSUME NEW k \in q..(m - 1) PROVE c[k] \notin {Comma, NUL}
    <3>1. k \in 1..(m - 1) /\ k \in 1..n /\ k # m
      BY <1>4
    <3> QED BY <1>3, <1>5, <3>1
  <2> QED BY <1>3, <2>1, <2>2, FirstAtIs DEF Search
<1>7. FirstAt(w, 1, {CR}) <= q
  <2>1. q \in 1..Len(w) /\ w[q] \in {CR}
    BY <1>1, <1>4
  <2> QED BY <1>4, <2>1, FirstAtFinds
<1>8. FirstAt(w, 1, {Comma}) > FirstAt(w, 1, {CR})
  <2>1. FirstAt(w, 1, {CR}) \in Int
    BY <1>4, FirstAtFinds
  <2> QED BY <1>4, <1>7, <2>1
<1> QED BY <1>2, <1>6, <1>8 DEF Parse

\* If it does not, the first comma comes first.
LEMMA FirstComma ==
  ASSUME NEW w \in Seq(TCHAR), NEW m \in 1..Len(w), FirstAt(w, 1, {Comma}) = m,
         \A k \in 1..(m - 1) : w[k] # CR
  PROVE  CommaFirst(w)
<1>1. PICK q : q = FirstAt(w, 1, {CR})
  OBVIOUS
<1>2. q \in 1..(Len(w) + 1) /\ (q <= Len(w) => w[q] = CR)
  <2>1. /\ FirstAt(w, 1, {CR}) \in 1..(Len(w) + 1)
        /\ FirstAt(w, 1, {CR}) <= Len(w) => w[FirstAt(w, 1, {CR})] \in {CR}
    BY FirstAtFinds
  <2> QED BY <1>1, <2>1
<1>3. Len(w) \in Nat
  BY LenProperties
<1>4. ~ (m > q)
  BY <1>2, <1>3
<1> QED BY <1>1, <1>4 DEF CommaFirst

\* A name the client lets through has no line break in it.
LEMMA NameDiffers ==
  ASSUME NEW w \in Seq(TCHAR), NEW h \in Nat \ {0}, NEW m \in Nat, m <= Len(w),
         NEW k \in h..(m - 1), w[k] = CR, NEW r \in Wanted
  PROVE  SubSeq(w, h, m - 1) # r.name
<1>1. SUFFICES ASSUME SubSeq(w, h, m - 1) = r.name PROVE FALSE
  OBVIOUS
<1>2. Len(w) \in Nat
  BY LenProperties
<1>3. \A i \in h..(m - 1) : w[i] \in TCHAR
  <2>1. \A i \in h..(m - 1) : i \in 1..Len(w)
    BY <1>2
  <2> QED BY <2>1, ElementOfSeq
<1>4. /\ Len(SubSeq(w, h, m - 1)) = (IF h <= m - 1 THEN (m - 1) - h + 1 ELSE 0)
      /\ \A i \in 1..((m - 1) - h + 1) : SubSeq(w, h, m - 1)[i] = w[h + i - 1]
  <2>1. m - 1 \in Nat
    OBVIOUS
  <2> QED BY <1>3, <2>1, SubSeqProperties
<1>5. PICK j \in Int : j = k - h + 1
  OBVIOUS
<1>6. j \in 1..((m - 1) - h + 1) /\ h + j - 1 = k
  BY <1>5
<1>7. SubSeq(w, h, m - 1)[j] = CR
  <2>1. SubSeq(w, h, m - 1)[j] = w[h + j - 1]
    BY <1>4, <1>6
  <2> QED BY <1>6, <2>1
<1>8. j \in 1..Len(r.name)
  <2>1. Len(SubSeq(w, h, m - 1)) = (m - 1) - h + 1
    BY <1>4, <1>6
  <2> QED BY <1>1, <1>6, <2>1
<1>9. r.name[j] = CR
  BY <1>1, <1>7
<1> QED BY <1>8, <1>9, ScanTypes

\* The loop over the accounts answers what Parse says, whatever window of a file
\* of records it scans: the commas it has overwritten and the lines it has
\* stepped over neither hide an account nor invent one.
THEOREM ScanCorrect == ScanSpec => []LoopMatchesParse
<1>1. ScanInit => ScanInv
  <2>1. SUFFICES ASSUME ScanInit PROVE ScanInv
    OBVIOUS
  <2>2. chunk \in Seq(TCHAR) /\ Len(chunk) \in Nat
    BY <2>1, ScanTypes DEF ScanInit
  <2>3. Agrees(buf, chunk, 1)
    <3>1. chunk \in Seq(TCHAR \cup {NUL})
      BY <2>2
    <3>2. buf = Append(chunk, NUL) /\ NUL \in TCHAR \cup {NUL}
      BY <2>1 DEF ScanInit
    <3>3. /\ buf \in Seq(TCHAR \cup {NUL}) /\ Len(buf) = Len(chunk) + 1
          /\ buf[Len(chunk) + 1] = NUL /\ \A k \in 1..Len(chunk) : buf[k] = chunk[k]
      BY <3>1, <3>2, AppendProperties
    <3> QED BY <3>3 DEF Agrees
  <2>4. NoneBefore(chunk, want, 1)
    BY <2>2 DEF NoneBefore, LineStarts
  <2>5. toAdd = 1 /\ firstTime = TRUE /\ eof = FALSE /\ result = FALSE
    BY <2>1 DEF ScanInit
  <2>6. Starts(chunk, toAdd, firstTime, 1)
    BY <2>5 DEF Starts
  <2>7. Reading
    BY <2>3, <2>4, <2>5, <2>6 DEF Reading
  <2> QED BY <2>1, <2>5, <2>7 DEF ScanInit, ScanInv, LoopMatchesParse
<1>2. ScanInv /\ [ScanNext]_scanVars => ScanInv'
  <2>1. SUFFICES ASSUME ScanInv, [ScanNext]_scanVars PROVE ScanInv'
    OBVIOUS
  <2>2. chunk \in Seq(TCHAR) /\ Lined(chunk) /\ Len(chunk) \in Nat /\ want \in Wanted /\ firstTime \in BOOLEAN
    BY <2>1, ScanTypes DEF ScanInv
  <2>3. PICK w, r, b, p, m :
          w = chunk /\ r = want /\ b = buf /\ p = toAdd /\ m = Search(buf, toAdd)
    OBVIOUS
  <2>4. ASSUME Reading, NEW h \in Nat, Starts(w, p, firstTime, h)
        PROVE  /\ m \in p..(Len(w) + 1) /\ p \in Nat \ {0} /\ h \in Nat \ {0} /\ Agrees(b, w, p)
               /\ \A k \in p..Len(w) : k < m => w[k] # Comma
               /\ b[m] = NUL <=> m = Len(w) + 1
               /\ b[m] = Comma <=> m <= Len(w)
               /\ m <= Len(w) => w[m] = Comma
    <3>1. p \in 1..(Len(w) + 1) /\ h \in Nat \ {0}
      BY <2>2, <2>3, <2>4 DEF Starts
    <3>2. Agrees(b, w, p)
      BY <2>3, <2>4 DEF Reading
    <3>3. w \in Seq(TCHAR) /\ Lined(w) /\ m = Search(b, p)
      BY <2>2, <2>3
    <3>4. /\ m \in p..(Len(w) + 1)
          /\ \A k \in p..Len(w) : k < m => w[k] # Comma
          /\ b[m] = NUL <=> m = Len(w) + 1
          /\ b[m] = Comma <=> m <= Len(w)
          /\ m <= Len(w) => w[m] = Comma
      BY <3>1, <3>2, <3>3, SearchIs
    <3> QED BY <3>1, <3>2, <3>4
  <2>5. CASE NoComma
    <3>1. ~eof /\ b[m] = NUL /\ result = FALSE /\ (Reading \/ Blocked)
      BY <2>1, <2>3, <2>5 DEF NoComma, ScanInv
    <3>2. ~ Matches(w, r)
      <4>1. CASE Blocked
        BY <2>3, <4>1 DEF Blocked, Matches
      <4>2. CASE Reading
        <5>1. PICK h \in Nat : Starts(w, p, firstTime, h) /\ NoneBefore(w, r, h)
          BY <2>3, <4>2 DEF Reading
        <5>2. m = Len(w) + 1 /\ p <= h /\ h \in Nat \ {0} /\ p \in Nat
          BY <2>4, <3>1, <4>2, <5>1 DEF Starts
        <5>3. \A k \in p..Len(w) : w[k] # Comma
          BY <2>2, <2>3, <2>4, <4>2, <5>1, <5>2
        <5>4. ASSUME NEW i \in LineStarts(w), FirstAt(w, i, {Comma}) <= Len(w)
              PROVE  ~ Answers(AccountAt(w, i), r)
          <6>1. i \in Nat \ {0}
            BY DEF LineStarts
          <6>2. /\ FirstAt(w, i, {Comma}) >= i /\ FirstAt(w, i, {Comma}) \in 1..Len(w)
                /\ w[FirstAt(w, i, {Comma})] \in {Comma}
            BY <2>2, <2>3, <5>4, <6>1, FirstAtFinds
          <6>3. ~ (FirstAt(w, i, {Comma}) >= p)
            BY <5>2, <5>3, <6>2
          <6>4. i < h
            BY <5>2, <6>1, <6>2, <6>3
          <6> QED BY <5>1, <5>4, <6>4 DEF NoneBefore
        <5> QED BY <5>4, Unanswered
      <4> QED BY <3>1, <4>1, <4>2
    <3>3. eof' /\ ~result' /\ chunk' = w /\ want' = r /\ firstTime' = firstTime
      BY <2>3, <2>5, <3>1 DEF NoComma
    <3>4. LoopMatchesParse'
      BY <3>2, <3>3 DEF LoopMatchesParse
    <3> QED BY <2>1, <2>3, <3>3, <3>4 DEF ScanInv
  <2>6. CASE Line
    <3>1. ~eof /\ b[m] = Comma /\ result = FALSE /\ Reading
      BY <2>1, <2>3, <2>6, CharactersDiffer DEF Line, ScanInv, Blocked
    <3>2. PICK h \in Nat : Starts(w, p, firstTime, h) /\ NoneBefore(w, r, h)
      BY <2>3, <3>1 DEF Reading
    <3>3. /\ m \in p..Len(w) /\ p \in Nat \ {0} /\ h \in Nat \ {0} /\ Agrees(b, w, p)
          /\ \A k \in p..Len(w) : k < m => w[k] # Comma
          /\ m \in Nat /\ w[m] = Comma
      BY <2>2, <2>3, <2>4, <3>1, <3>2
    <3>4. w \in Seq(TCHAR) /\ Lined(w) /\ Len(w) \in Nat /\ r \in Wanted /\ firstTime \in BOOLEAN
      BY <2>2, <2>3
    <3>5. Placed(w, p, firstTime, h, m)
      <4>1. PICK start \in BOOLEAN : start = firstTime
        BY <3>4
      <4>2. p <= m /\ m <= Len(w) /\ Starts(w, p, start, h)
        BY <3>2, <3>3, <4>1
      <4>3. Placed(w, p, start, h, m)
        BY <3>3, <3>4, <4>1, <4>2, CommaPlaced
      <4> QED BY <4>1, <4>3
    <3>6. Cutting(b, w, p, h, m)
      BY <3>3, <3>4, <3>5 DEF Cutting, Placed
    <3>7. PICK c : c = CutAt(b, m)
      OBVIOUS
    <3>8. IsCut(c, w, h, m)
      BY <3>6, <3>7, CutIs, Zenon
    <3>9. PICK e : e = LineEnd(c, h)
      OBVIOUS
    <3>10. h = IF firstTime THEN toAdd ELSE toAdd + 2
      BY <2>3, <3>2 DEF Starts
    <3>11. /\ buf' = c
           /\ result' = (StringAt(c, h) = r.name /\
                (r.op = "login" => SubSeq(c, FirstAt(c, h, {NUL}) + 1, e - 1) = r.pass))
           /\ toAdd' = IF c[e] = NUL THEN e + 1 ELSE e
           /\ firstTime' = FALSE /\ chunk' = w /\ want' = r
      BY <2>3, <2>6, <3>7, <3>9, <3>10 DEF Line, CutAt
    <3>12. eof' = (result' \/ c[e] = NUL)
      BY <2>3, <2>6, <3>7, <3>9, <3>10 DEF Line, CutAt
    <3>13. result' = (SubSeq(w, h, m - 1) = r.name /\
             (r.op = "login" => SubSeq(c, m + 1, e - 1) = r.pass))
      BY <3>8, <3>11 DEF IsCut
    <3>14. FirstAt(w, h, {Comma}) = m /\ h \in LineStarts(w) /\ h <= m
      BY <3>5 DEF Placed
    <3>15. h \in Nat \ {0} /\ m \in Nat /\ m <= Len(w) /\ m \in 1..Len(w) /\ w \in Seq(TCHAR)
      BY <3>3, <3>4
    <3>16. r \in Wanted
      BY <3>4
    <3>17. w[m] = Comma
      BY <3>3
    <3>18. CASE \E k \in h..(m - 1) : w[k] = CR
      <4>1. PICK k \in h..(m - 1) : w[k] = CR
        BY <3>18
      <4>2. firstTime /\ p = 1 /\ h = 1
        BY <3>2, <3>5, <4>1 DEF Placed, Starts
      <4>3. e \in h..(m - 1) /\ c[e] = CR /\ w[e] = CR
        BY <3>6, <3>7, <3>9, <4>1, EndsBefore
      <4>4. SubSeq(w, h, m - 1) # r.name
        BY <3>15, <3>16, <4>1, NameDiffers
      <4>5. result' = FALSE /\ eof' = FALSE /\ toAdd' = e
        BY <3>11, <3>12, <3>13, <4>3, <4>4, CharactersDiffer
      <4>6. Search(c, e) = m /\ Parse(w) = {}
        <5>1. Cutting(b, w, 1, 1, m) /\ FirstAt(w, 1, {Comma}) = m
          BY <3>6, <3>14, <4>2
        <5>2. e \in 1..(m - 1) /\ w[e] = CR
          BY <4>2, <4>3
        <5>3. Search(CutAt(b, m), e) = m /\ Parse(w) = {}
          BY <3>17, <5>1, <5>2, StopsThere
        <5> QED BY <3>7, <5>3
      <4>7. c[m] = NUL
        BY <3>8 DEF IsCut
      <4>8. Blocked'
        BY <3>11, <4>5, <4>6, <4>7 DEF Blocked
      <4>9. LoopMatchesParse'
        BY <4>5 DEF LoopMatchesParse
      <4> QED BY <2>1, <2>3, <3>11, <4>5, <4>8, <4>9 DEF ScanInv
    <3>19. CASE \A k \in h..(m - 1) : w[k] # CR
      <4>1. EndsAt(c, w, h, m, e)
        BY <3>3, <3>6, <3>7, <3>9, <3>14, <3>19, EndsBehind
      <4>2. result' <=> Answers(AccountAt(w, h), r)
        <5>1. AccountAt(w, h).name = SubSeq(w, h, m - 1)
          BY <3>14 DEF AccountAt
        <5>2. AccountAt(w, h).pass = SubSeq(c, m + 1, e - 1)
          BY <4>1 DEF EndsAt
        <5> QED BY <3>13, <5>1, <5>2 DEF Answers
      <4>3. e \in (m + 1)..(Len(w) + 1) /\ (c[e] = NUL <=> e = Len(w) + 1) /\ (e <= Len(w) => w[e] = CR)
        BY <4>1 DEF EndsAt
      <4>4. CommaFirst(w)
        <5>1. CASE firstTime
          <6>1. h = 1
            BY <3>2, <5>1 DEF Starts
          <6>2. FirstAt(w, 1, {Comma}) = m /\ \A k \in 1..(m - 1) : w[k] # CR
            BY <3>14, <3>19, <6>1
          <6> QED BY <3>15, <6>2, FirstComma
        <5>2. CASE ~firstTime
          BY <2>3, <3>1, <5>2 DEF Reading
        <5> QED BY <5>1, <5>2
      <4>5. CASE result'
        <5>1. Matches(w, r)
          <6>1. Answers(AccountAt(w, h), r) /\ FirstAt(w, h, {Comma}) <= Len(w) /\ h \in LineStarts(w)
            BY <3>14, <3>15, <4>2, <4>5
          <6> QED BY <4>4, <6>1, Answered
        <5>2. eof' /\ LoopMatchesParse'
          BY <3>11, <3>12, <4>5, <5>1 DEF LoopMatchesParse
        <5> QED BY <2>1, <2>3, <3>11, <5>2 DEF ScanInv
      <4>6. CASE ~result'
        <5>1. \A k \in 1..Len(w) : w[k] = CR /\ k + 2 > h => k >= e
          BY <3>5, <4>1 DEF Placed, EndsAt
        <5>2. NoneBefore(w, r, e + 2)
          BY <3>2, <3>3, <4>2, <4>3, <4>6, <5>1, NoneUpTo
        <5>3. CASE e = Len(w) + 1
          <6>1. \A i \in LineStarts(w) : i < e + 2
            BY <3>4, <5>3 DEF LineStarts
          <6>2. ~ Matches(w, r)
            BY <5>2, <6>1, Unanswered DEF NoneBefore
          <6>3. eof' /\ LoopMatchesParse'
            BY <3>11, <3>12, <4>3, <4>6, <5>3, <6>2 DEF LoopMatchesParse
          <6> QED BY <2>1, <2>3, <3>11, <6>3 DEF ScanInv
        <5>4. CASE e # Len(w) + 1
          <6>1. result' = FALSE
            BY <3>11, <4>6
          <6>2. eof' = FALSE /\ toAdd' = e /\ e \in Nat /\ e \in 1..Len(w) /\ w[e] = CR /\ e >= m + 1
            <7>1. e \in Nat /\ e \in 1..Len(w) /\ e >= m + 1
              BY <3>4, <3>15, <4>3, <5>4
            <7>2. c[e] # NUL /\ w[e] = CR
              BY <4>3, <5>4, <7>1
            <7>3. toAdd' = e
              BY <3>11, <7>2
            <7>4. eof' = FALSE
              BY <3>12, <6>1, <7>2
            <7> QED BY <7>1, <7>2, <7>3, <7>4
          <6>3. Agrees(c, w, e)
            <7>1. Agrees(c, w, m + 1)
              BY <3>8 DEF IsCut
            <7> QED BY <3>3, <6>2, <7>1 DEF Agrees
          <6>4. Starts(w, e, FALSE, e + 2)
            BY <6>2 DEF Starts
          <6>5. Reading'
            <7>1. e + 2 \in Nat
              BY <6>2
            <7> QED BY <3>11, <4>4, <5>2, <6>2, <6>3, <6>4, <7>1 DEF Reading
          <6>6. LoopMatchesParse'
            BY <6>2 DEF LoopMatchesParse
          <6> QED BY <2>1, <2>3, <3>11, <6>1, <6>5, <6>6 DEF ScanInv
        <5> QED BY <5>3, <5>4
      <4> QED BY <4>5, <4>6
    <3> QED BY <3>18, <3>19
  <2>7. CASE UNCHANGED scanVars
    BY <2>1, <2>7 DEF scanVars, ScanInv, Reading, Blocked, LoopMatchesParse
  <2> QED BY <2>1, <2>5, <2>6, <2>7 DEF ScanNext, ScanRest
<1>3. ScanInv => LoopMatchesParse
  BY DEF ScanInv
<1> QED BY <1>1, <1>2, <1>3, PTL DEF ScanSpec
=============================================================================
