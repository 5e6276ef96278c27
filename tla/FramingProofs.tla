---------------------------- MODULE FramingProofs ----------------------------
(***************************************************************************)
(* What holds of the texts for one client for any handlers, any texts and    *)
(* any segments: while the handlers take turns and no receive is cut, the    *)
(* words that are under way are the rest of the texts, and the client prints *)
(* the texts in order.                                                       *)
(***************************************************************************)
EXTENDS Framing, FiniteSetTheorems, SequenceTheorems, WellFoundedInduction, TLAPS

---------------------------------------------------------------------------
(* The inductive invariant.                                                 *)

\* A text is made of its own words, or it is the answer to an exit.
Sound ==
  \A t \in 1..Len(texts) :
    texts[t] = ExitAnswer \/ \E n \in Lengths : texts[t] = Text(t, n)

\* <<t, i>>: the lengths of the first t texts have passed, and i words of the t-th.
Positions == Nat \X Nat

Size(T, t) == IF t = 0 THEN 0 ELSE Len(T[t])

\* Word w leads from p to q in the stream of texts T: it is the next word of the text
\* or, after the last one, the length of the next text.
Moves(T, p, w, q) ==
  \/ /\ p[1] \in 1..Len(T) /\ p[2] < Len(T[p[1]])
     /\ w = T[p[1]][p[2] + 1] /\ q = <<p[1], p[2] + 1>>
  \/ /\ p[1] < Len(T) /\ p[2] = Size(T, p[1])
     /\ w = Number(Len(T[p[1] + 1])) /\ q = <<p[1] + 1, 0>>

\* So do the words of q, one by one.
Leads(T, q, p, r) ==
  \E f \in [0..Len(q) -> Positions] :
    /\ f[0] = p /\ f[Len(q)] = r
    /\ \A i \in 1..Len(q) : Moves(T, f[i - 1], q[i], f[i])

\* So do the segments of w.
Stream(T, w, p, r) ==
  \E f \in [0..Len(w) -> Positions] :
    /\ f[0] = p /\ f[Len(w)] = r
    /\ \A i \in 1..Len(w) : Leads(T, w[i], f[i - 1], f[i])

\* What has been sent ends with a text, or with its length if a handler is in it.
Sent ==
  <<Len(texts), IF \E s \in Senders : pc[s] # 0 THEN 0 ELSE Size(texts, Len(texts))>>

\* Words q and then segments w lead from p to e.
Coming(T, q, w, p, e) == \E m \in Positions : Leads(T, q, p, m) /\ Stream(T, w, m, e)

\* The texts to be printed among the first n of T, and P is just these, in order.
ToBePrinted(T, n) == {t \in 1..n : t \in DOMAIN T /\ T[t] \notin {<<>>, ExitAnswer}}
Ordered(T, P, n) ==
  /\ Len(P) = Cardinality(ToBePrinted(T, n))
  /\ \A t \in ToBePrinted(T, n) : P[Cardinality(ToBePrinted(T, t))] = T[t]

\* The handlers take turns.
Turns == ~mixed => \A s \in Senders : pc[s] # 0 => pc[s] = Len(texts)

\* The reader is where a text begins or where its words do, and has printed the
\* texts before; what is to come is the rest of what was sent.
InStep ==
  /\ at = "length" =>
       \E r \in 0..Len(texts) :
         /\ Ordered(texts, printed, r)
         /\ Coming(texts, arrived, wire, <<r, Size(texts, r)>>, Sent)
  /\ at = "text" =>
       \E r \in 1..Len(texts) :
         /\ Ordered(texts, printed, r - 1) /\ length = Len(texts[r])
         /\ Coming(texts, arrived, wire, <<r, 0>>, Sent)
  /\ at \in {"ended", "left"} => \E r \in 0..Len(texts) : Ordered(texts, printed, r)
  /\ at = "ended" => \E t \in DOMAIN texts : texts[t] = <<>>

IInv == TypeOK /\ Sound /\ Turns /\ (Undisturbed => InStep)

---------------------------------------------------------------------------
(* Lemmas about sequences of words.                                         *)

\* A set of natural numbers that is not empty has a least element.
LEMMA LeastNat ==
  ASSUME NEW T \in SUBSET Nat, T # {}
  PROVE  \E k \in T : \A j \in T : k <= j
<1> USE DEF OpToRel
<1>1. PICK k \in T : \A j \in T : ~ (<<j, k>> \in OpToRel(<, Nat))
  BY NatLessThanWellFounded, WFMin
<1>2. \A j \in T : ~ (j < k)
  BY <1>1
<1> QED BY <1>2

\* A part of a sequence, by its elements.
LEMMA PartOf ==
  ASSUME NEW S, NEW q \in Seq(S), NEW a \in Nat, NEW b \in Nat, a <= b, b <= Len(q)
  PROVE  /\ SubSeq(q, a + 1, b) \in Seq(S) /\ Len(SubSeq(q, a + 1, b)) = b - a
         /\ \A i \in 1..(b - a) : SubSeq(q, a + 1, b)[i] = q[a + i]
<1>1. Len(q) \in Nat
  BY LenProperties
<1>2. PICK m \in Int : m = a + 1
  OBVIOUS
<1>3. \A k \in m..b : q[k] \in S
  <2>1. \A k \in m..b : k \in 1..Len(q)
    BY <1>1, <1>2
  <2> QED BY <2>1, ElementOfSeq
<1>4. PICK s : s = SubSeq(q, m, b)
  OBVIOUS
<1>5. /\ s \in Seq(S) /\ Len(s) = IF m <= b THEN b - m + 1 ELSE 0
      /\ \A j \in 1..(b - m + 1) : s[j] = q[m + j - 1]
  BY <1>3, <1>4, SubSeqProperties
<1>6. b - m + 1 = b - a /\ (m <= b <=> b - a > 0)
  BY <1>2
<1>7. Len(s) = b - a
  BY <1>5, <1>6
<1>8. ASSUME NEW j \in 1..(b - a) PROVE s[j] = q[a + j]
  <2>1. s[j] = q[m + j - 1] /\ m + j - 1 = a + j
    BY <1>2, <1>5, <1>6
  <2> QED BY <2>1
<1> QED BY <1>2, <1>4, <1>5, <1>7, <1>8

\* Multiples grow with their factor.
LEMMA Multiples ==
  ASSUME NEW a \in Nat, NEW b \in Nat, NEW s \in Nat, a <= b
  PROVE  a * s \in Nat /\ b * s \in Nat /\ a * s <= b * s
<1>1. PICK d \in Nat : b = a + d
  <2>1. b - a \in Nat /\ b = a + (b - a)
    OBVIOUS
  <2> QED BY <2>1
<1>2. b * s = a * s + d * s
  BY <1>1
<1>3. a * s \in Nat /\ d * s \in Nat
  OBVIOUS
<1> QED BY <1>2, <1>3

\* So many segments are just enough.
LEMMA Enough ==
  ASSUME NEW n \in Nat, NEW s \in Nat \ {0}
  PROVE  /\ (n + s - 1) \div s \in Nat
         /\ n <= ((n + s - 1) \div s) * s
         /\ (n + s - 1) \div s # 0 => (((n + s - 1) \div s) - 1) * s < n
<1>1. PICK x \in Nat : x = n + s - 1
  OBVIOUS
<1>2. PICK k \in Int : k = x \div s
  OBVIOUS
<1>3. k * s <= x /\ x < (k + 1) * s
  BY <1>2
<1>4. (k + 1) * s = k * s + s /\ (k - 1) * s = k * s - s
  OBVIOUS
<1>5. k >= 0
  <2>1. ASSUME k < 0 PROVE FALSE
    <3>1. PICK d \in Nat : k + 1 = 0 - d
      <4>1. 0 - (k + 1) \in Nat /\ k + 1 = 0 - (0 - (k + 1))
        BY <2>1
      <4> QED BY <4>1
    <3>2. (k + 1) * s = 0 - d * s /\ d * s \in Nat
      BY <3>1
    <3> QED BY <1>3, <3>2
  <2> QED BY <2>1
<1>6. n <= k * s /\ (k - 1) * s < n
  <2>1. k * s \in Int
    OBVIOUS
  <2> QED BY <1>1, <1>3, <1>4, <2>1
<1> QED BY <1>1, <1>2, <1>5, <1>6

\* A send cuts its words where some positions say.
LEMMA PiecesCut ==
  ASSUME NEW words \in Seq(Words)
  PROVE  /\ Pieces(words) \in Seq(Seq(Words))
         /\ \E c \in [0..Len(Pieces(words)) -> 0..Len(words)] :
              /\ c[0] = 0 /\ c[Len(Pieces(words))] = Len(words)
              /\ \A k \in 1..Len(Pieces(words)) :
                   /\ c[k - 1] <= c[k] /\ Len(Pieces(words)[k]) = c[k] - c[k - 1]
                   /\ \A i \in 1..(c[k] - c[k - 1]) :
                        Pieces(words)[k][i] = words[c[k - 1] + i]
<1>1. PICK n \in Nat : n = Len(words)
  BY LenProperties
<1>s. Segment \in Nat \ {0}
  BY FramingAssumption
<1>2. PICK K \in Nat : /\ K = (n + Segment - 1) \div Segment
                       /\ n <= K * Segment /\ (K # 0 => (K - 1) * Segment < n)
  BY <1>s, Enough
<1> DEFINE o(k) == IF k * Segment < n THEN k * Segment ELSE n
           c == [k \in 0..K |-> o(k)]
<1>3. ASSUME NEW k \in 0..K PROVE o(k) \in 0..n
  BY <1>s, Multiples
<1>4. c \in [0..K -> 0..n] /\ c[0] = 0 /\ c[K] = n
  <2>1. 0 * Segment = 0
    BY <1>s
  <2>2. o(0) = 0
    BY <2>1
  <2>3. o(K) = n
    <3>1. K * Segment \in Nat
      BY <1>s, Multiples
    <3> QED BY <1>2, <3>1
  <2> QED BY <1>3, <2>2, <2>3
<1>5. ASSUME NEW k \in 1..K
      PROVE  /\ c[k - 1] = (k - 1) * Segment /\ c[k] = o(k) /\ c[k - 1] <= c[k]
             /\ c[k - 1] \in Nat /\ c[k] \in Nat /\ c[k] <= n
  <2>1. k - 1 \in 0..K /\ k \in 0..K /\ k - 1 \in Nat /\ k \in Nat /\ K - 1 \in Nat /\ K # 0
    OBVIOUS
  <2>2. /\ (k - 1) * Segment <= (K - 1) * Segment /\ (k - 1) * Segment <= k * Segment
        /\ (k - 1) * Segment \in Nat /\ k * Segment \in Nat /\ (K - 1) * Segment \in Nat
    BY <1>s, <2>1, Multiples
  <2>3. (k - 1) * Segment < n
    BY <1>2, <2>1, <2>2
  <2>4. o(k - 1) = (k - 1) * Segment /\ o(k - 1) <= o(k) /\ o(k) <= n /\ o(k) \in Nat
    BY <2>2, <2>3
  <2> QED BY <2>1, <2>2, <2>4
<1>6. Pieces(words) = [k \in 1..K |-> SubSeq(words, (k - 1) * Segment + 1, o(k))]
  BY <1>1, <1>2 DEF Pieces
<1> HIDE DEF o, c
<1>7. ASSUME NEW k \in 1..K
      PROVE  /\ Pieces(words)[k] \in Seq(Words) /\ Len(Pieces(words)[k]) = c[k] - c[k - 1]
             /\ \A i \in 1..(c[k] - c[k - 1]) : Pieces(words)[k][i] = words[c[k - 1] + i]
  <2>1. Pieces(words)[k] = SubSeq(words, c[k - 1] + 1, c[k])
    BY <1>5, <1>6
  <2>2. PICK x \in Nat, y \in Nat : x = c[k - 1] /\ y = c[k] /\ x <= y /\ y <= Len(words)
    BY <1>1, <1>5
  <2>3. /\ SubSeq(words, x + 1, y) \in Seq(Words) /\ Len(SubSeq(words, x + 1, y)) = y - x
        /\ \A i \in 1..(y - x) : SubSeq(words, x + 1, y)[i] = words[x + i]
    <3>1. x <= y /\ y <= Len(words)
      BY <2>2
    <3> QED BY <3>1, PartOf, Zenon
  <2> QED BY <2>1, <2>2, <2>3
<1>8. Pieces(words) \in Seq(Seq(Words)) /\ Len(Pieces(words)) = K
  <2>1. PICK P : P = Pieces(words)
    OBVIOUS
  <2>2. P \in [1..K -> Seq(Words)]
    BY <1>6, <1>7, <2>1
  <2>3. P \in Seq(Seq(Words)) /\ Len(P) = K
    BY <2>2
  <2> QED BY <2>1, <2>3
<1>9. \A k \in 1..K : c[k - 1] <= c[k]
  BY <1>5
<1>10. \A k \in 1..K :
         /\ c[k - 1] <= c[k] /\ Len(Pieces(words)[k]) = c[k] - c[k - 1]
         /\ \A i \in 1..(c[k] - c[k - 1]) : Pieces(words)[k][i] = words[c[k - 1] + i]
  BY <1>7, <1>9
<1>11. PICK e : e = c
  OBVIOUS
<1>12. e \in [0..Len(Pieces(words)) -> 0..Len(words)]
  BY <1>1, <1>4, <1>8, <1>11
<1>13. e[0] = 0 /\ e[Len(Pieces(words))] = Len(words)
  BY <1>1, <1>4, <1>8, <1>11
<1>14. \A k \in 1..Len(Pieces(words)) :
         /\ e[k - 1] <= e[k] /\ Len(Pieces(words)[k]) = e[k] - e[k - 1]
         /\ \A i \in 1..(e[k] - e[k - 1]) : Pieces(words)[k][i] = words[e[k - 1] + i]
  BY <1>8, <1>10, <1>11
<1> QED BY <1>8, <1>12, <1>13, <1>14, Zenon

---------------------------------------------------------------------------
(* Lemmas about the stream.                                                 *)

\* Two series of positions that meet make one.
LEMMA Joined ==
  ASSUME NEW a \in Nat, NEW b \in Nat,
         NEW f \in [0..a -> Positions], NEW g \in [0..b -> Positions], f[a] = g[0]
  PROVE  \E h \in [0..(a + b) -> Positions] :
           /\ \A i \in 0..a : h[i] = f[i]
           /\ \A j \in 0..b : h[a + j] = g[j]
<1> DEFINE h == [i \in 0..(a + b) |-> IF i <= a THEN f[i] ELSE g[i - a]]
<1>1. ASSUME NEW i \in 0..(a + b) PROVE h[i] \in Positions
  <2>1. CASE i <= a
    BY <2>1
  <2>2. CASE ~ (i <= a)
    <3>1. i - a \in 0..b
      BY <2>2
    <3> QED BY <2>2, <3>1
  <2> QED BY <2>1, <2>2
<1>2. ASSUME NEW i \in 0..a PROVE h[i] = f[i]
  OBVIOUS
<1>3. ASSUME NEW j \in 0..b PROVE h[a + j] = g[j]
  <2>1. CASE j = 0
    BY <2>1
  <2>2. CASE j # 0
    <3>1. a + j \in 0..(a + b) /\ ~ (a + j <= a) /\ (a + j) - a = j
      BY <2>2
    <3> QED BY <3>1
  <2> QED BY <2>1, <2>2
<1>4. h \in [0..(a + b) -> Positions]
  BY <1>1
<1> HIDE DEF h
<1> QED BY <1>2, <1>3, <1>4

\* Words that follow words.
LEMMA LeadsOn ==
  ASSUME NEW T, NEW q \in Seq(Words), NEW t \in Seq(Words), NEW p, NEW m, NEW r,
         Leads(T, q, p, m), Leads(T, t, m, r)
  PROVE  Leads(T, q \o t, p, r)
<1>1. PICK a \in Nat, b \in Nat : a = Len(q) /\ b = Len(t)
  BY LenProperties
<1>2. PICK f \in [0..a -> Positions] :
        f[0] = p /\ f[a] = m /\ \A i \in 1..a : Moves(T, f[i - 1], q[i], f[i])
  BY <1>1 DEF Leads
<1>3. PICK g \in [0..b -> Positions] :
        g[0] = m /\ g[b] = r /\ \A i \in 1..b : Moves(T, g[i - 1], t[i], g[i])
  BY <1>1 DEF Leads
<1>4. PICK h \in [0..(a + b) -> Positions] :
        (\A i \in 0..a : h[i] = f[i]) /\ (\A j \in 0..b : h[a + j] = g[j])
  <2>1. f[a] = g[0]
    BY <1>2, <1>3
  <2> QED BY <2>1, Joined
<1>5. PICK u : u = q \o t
  OBVIOUS
<1>6. Len(u) = a + b /\ \A i \in 1..(a + b) : u[i] = IF i <= a THEN q[i] ELSE t[i - a]
  BY <1>1, <1>5, ConcatProperties
<1>7. ASSUME NEW i \in 1..(a + b) PROVE Moves(T, h[i - 1], u[i], h[i])
  <2>1. CASE i <= a
    <3>1. i \in 1..a /\ i \in 0..a /\ i - 1 \in 0..a
      BY <2>1
    <3> QED BY <1>2, <1>4, <1>6, <2>1, <3>1
  <2>2. CASE ~ (i <= a)
    <3>1. PICK j \in 1..b : i = a + j
      <4>1. i - a \in 1..b /\ i = a + (i - a)
        BY <2>2
      <4> QED BY <4>1
    <3>2. j \in 0..b /\ j - 1 \in 0..b /\ i - 1 = a + (j - 1) /\ i - a = j
      BY <3>1
    <3>3. h[i] = g[j] /\ h[i - 1] = g[j - 1] /\ u[i] = t[j]
      BY <1>4, <1>6, <2>2, <3>1, <3>2
    <3> QED BY <1>3, <3>3
  <2> QED BY <2>1, <2>2
<1>8. h[0] = p /\ h[a + b] = r
  <2>1. 0 \in 0..a /\ b \in 0..b
    OBVIOUS
  <2> QED BY <1>2, <1>3, <1>4, <2>1
<1> QED BY <1>5, <1>6, <1>7, <1>8 DEF Leads

\* Segments that follow segments.
LEMMA StreamOn ==
  ASSUME NEW T, NEW q \in Seq(Seq(Words)), NEW t \in Seq(Seq(Words)), NEW p, NEW m, NEW r,
         Stream(T, q, p, m), Stream(T, t, m, r)
  PROVE  Stream(T, q \o t, p, r)
<1>1. PICK a \in Nat, b \in Nat : a = Len(q) /\ b = Len(t)
  BY LenProperties
<1>2. PICK f \in [0..a -> Positions] :
        f[0] = p /\ f[a] = m /\ \A i \in 1..a : Leads(T, q[i], f[i - 1], f[i])
  BY <1>1 DEF Stream
<1>3. PICK g \in [0..b -> Positions] :
        g[0] = m /\ g[b] = r /\ \A i \in 1..b : Leads(T, t[i], g[i - 1], g[i])
  BY <1>1 DEF Stream
<1>4. PICK h \in [0..(a + b) -> Positions] :
        (\A i \in 0..a : h[i] = f[i]) /\ (\A j \in 0..b : h[a + j] = g[j])
  <2>1. f[a] = g[0]
    BY <1>2, <1>3
  <2> QED BY <2>1, Joined
<1>5. PICK u : u = q \o t
  OBVIOUS
<1>6. Len(u) = a + b /\ \A i \in 1..(a + b) : u[i] = IF i <= a THEN q[i] ELSE t[i - a]
  BY <1>1, <1>5, ConcatProperties
<1>7. ASSUME NEW i \in 1..(a + b) PROVE Leads(T, u[i], h[i - 1], h[i])
  <2>1. CASE i <= a
    <3>1. i \in 1..a /\ i \in 0..a /\ i - 1 \in 0..a
      BY <2>1
    <3> QED BY <1>2, <1>4, <1>6, <2>1, <3>1
  <2>2. CASE ~ (i <= a)
    <3>1. PICK j \in 1..b : i = a + j
      <4>1. i - a \in 1..b /\ i = a + (i - a)
        BY <2>2
      <4> QED BY <4>1
    <3>2. j \in 0..b /\ j - 1 \in 0..b /\ i - 1 = a + (j - 1) /\ i - a = j
      BY <3>1
    <3>3. h[i] = g[j] /\ h[i - 1] = g[j - 1] /\ u[i] = t[j]
      BY <1>4, <1>6, <2>2, <3>1, <3>2
    <3> QED BY <1>3, <3>3
  <2> QED BY <2>1, <2>2
<1>8. h[0] = p /\ h[a + b] = r
  <2>1. 0 \in 0..a /\ b \in 0..b
    OBVIOUS
  <2> QED BY <1>2, <1>3, <1>4, <2>1
<1> QED BY <1>5, <1>6, <1>7, <1>8 DEF Stream

\* A part of a series of positions.
LEMMA Shifted ==
  ASSUME NEW n \in Nat, NEW a \in 0..n, NEW b \in a..n, NEW f \in [0..n -> Positions]
  PROVE  \E g \in [0..(b - a) -> Positions] : \A i \in 0..(b - a) : g[i] = f[a + i]
<1> DEFINE g == [i \in 0..(b - a) |-> f[a + i]]
<1>1. \A i \in 0..(b - a) : a + i \in 0..n
  OBVIOUS
<1>2. g \in [0..(b - a) -> Positions] /\ \A i \in 0..(b - a) : g[i] = f[a + i]
  BY <1>1
<1> HIDE DEF g
<1> QED BY <1>2

\* Any part of words that lead on does.
LEMMA LeadsPart ==
  ASSUME NEW T, NEW q \in Seq(Words), NEW n \in Nat, n = Len(q),
         NEW a \in 0..n, NEW b \in a..n, NEW f \in [0..n -> Positions],
         \A i \in 1..n : Moves(T, f[i - 1], q[i], f[i]),
         NEW t, Len(t) = b - a, \A i \in 1..(b - a) : t[i] = q[a + i]
  PROVE  Leads(T, t, f[a], f[b])
<1>1. PICK g \in [0..(b - a) -> Positions] : \A i \in 0..(b - a) : g[i] = f[a + i]
  BY Shifted
<1>2. ASSUME NEW i \in 1..(b - a) PROVE Moves(T, g[i - 1], t[i], g[i])
  <2>1. /\ a + i \in 1..n /\ i - 1 \in 0..(b - a) /\ i \in 0..(b - a)
        /\ a + (i - 1) = (a + i) - 1
    OBVIOUS
  <2>2. g[i] = f[a + i] /\ g[i - 1] = f[(a + i) - 1] /\ t[i] = q[a + i]
    BY <1>1, <2>1
  <2> QED BY <2>1, <2>2
<1>3. g[0] = f[a] /\ g[b - a] = f[b]
  <2>1. 0 \in 0..(b - a) /\ b - a \in 0..(b - a) /\ a + 0 = a /\ a + (b - a) = b
    OBVIOUS
  <2> QED BY <1>1, <2>1
<1> QED BY <1>1, <1>2, <1>3 DEF Leads

\* The first word leads to where the others begin.
LEMMA LeadsHead ==
  ASSUME NEW T, NEW q \in Seq(Words), q # <<>>, NEW p, NEW r, Leads(T, q, p, r)
  PROVE  \E m \in Positions : Moves(T, p, Head(q), m) /\ Leads(T, Tail(q), m, r)
<1>1. PICK n \in Nat \ {0} : n = Len(q)
  BY EmptySeq
<1>2. PICK f \in [0..n -> Positions] :
        f[0] = p /\ f[n] = r /\ \A i \in 1..n : Moves(T, f[i - 1], q[i], f[i])
  BY <1>1 DEF Leads
<1>3. PICK t : t = Tail(q)
  OBVIOUS
<1>4. Len(t) = n - 1 /\ \A i \in 1..(n - 1) : t[i] = q[i + 1]
  BY <1>1, <1>3, HeadTailProperties
<1>5. 1 \in 0..n /\ n \in 1..n /\ 1 \in 1..n /\ \A i \in 1..(n - 1) : i + 1 = 1 + i
  OBVIOUS
<1>6. Leads(T, t, f[1], f[n])
  <2>1. Len(t) = n - 1 /\ \A i \in 1..(n - 1) : t[i] = q[1 + i]
    BY <1>4, <1>5
  <2>2. 1 \in 0..n /\ n \in 1..n
    BY <1>5
  <2> QED BY <1>1, <1>2, <2>1, <2>2, LeadsPart
<1>7. Moves(T, p, Head(q), f[1])
  <2>1. Moves(T, f[1 - 1], q[1], f[1]) /\ 1 - 1 = 0
    BY <1>2, <1>5
  <2> QED BY <1>1, <1>2, <2>1
<1> QED BY <1>2, <1>3, <1>5, <1>6, <1>7

\* The first segment leads to where the others begin.
LEMMA StreamHead ==
  ASSUME NEW T, NEW w \in Seq(Seq(Words)), w # <<>>, NEW p, NEW r, Stream(T, w, p, r)
  PROVE  \E m \in Positions : Leads(T, Head(w), p, m) /\ Stream(T, Tail(w), m, r)
<1>1. PICK n \in Nat \ {0} : n = Len(w)
  BY EmptySeq
<1>2. PICK f \in [0..n -> Positions] :
        f[0] = p /\ f[n] = r /\ \A i \in 1..n : Leads(T, w[i], f[i - 1], f[i])
  BY <1>1 DEF Stream
<1>3. PICK t : t = Tail(w)
  OBVIOUS
<1>4. Len(t) = n - 1 /\ \A i \in 1..(n - 1) : t[i] = w[i + 1]
  BY <1>1, <1>3, HeadTailProperties
<1>5. 1 \in 0..n /\ n \in 1..n /\ 1 \in 1..n
  OBVIOUS
<1>6. PICK g \in [0..(n - 1) -> Positions] : \A i \in 0..(n - 1) : g[i] = f[1 + i]
  BY <1>2, <1>5, Shifted
<1>7. ASSUME NEW i \in 1..(n - 1) PROVE Leads(T, t[i], g[i - 1], g[i])
  <2>1. i + 1 \in 1..n /\ i - 1 \in 0..(n - 1) /\ i \in 0..(n - 1)
        /\ 1 + (i - 1) = (i + 1) - 1 /\ 1 + i = i + 1
    OBVIOUS
  <2>2. g[i] = f[i + 1] /\ g[i - 1] = f[(i + 1) - 1] /\ t[i] = w[i + 1]
    BY <1>4, <1>6, <2>1
  <2> QED BY <1>2, <2>1, <2>2
<1>8. g[0] = f[1] /\ g[n - 1] = f[n]
  <2>1. 0 \in 0..(n - 1) /\ n - 1 \in 0..(n - 1) /\ 1 + 0 = 1 /\ 1 + (n - 1) = n
    OBVIOUS
  <2> QED BY <1>6, <2>1
<1>9. Stream(T, t, f[1], r)
  BY <1>2, <1>4, <1>6, <1>7, <1>8 DEF Stream
<1>10. Leads(T, Head(w), p, f[1])
  <2>1. Leads(T, w[1], f[1 - 1], f[1]) /\ 1 - 1 = 0
    BY <1>2, <1>5
  <2> QED BY <1>1, <1>2, <2>1
<1> QED BY <1>2, <1>3, <1>5, <1>9, <1>10
\* No words lead nowhere.
LEMMA LeadsNothing ==
  ASSUME NEW T, NEW p \in Positions
  PROVE  Leads(T, <<>>, p, p) /\ Stream(T, <<>>, p, p)
<1>1. PICK f \in [0..0 -> Positions] : f[0] = p
  <2>1. [i \in 0..0 |-> p] \in [0..0 -> Positions] /\ [i \in 0..0 |-> p][0] = p
    OBVIOUS
  <2> QED BY <2>1
<1>2. Len(<<>>) = 0
  OBVIOUS
<1>3. \A i \in 1..0 : FALSE
  OBVIOUS
<1> QED BY <1>1, <1>2, <1>3 DEF Leads, Stream

\* Words that lead on do so in segments.
LEMMA PiecesStream ==
  ASSUME NEW T, NEW words \in Seq(Words), NEW p, NEW r, Leads(T, words, p, r)
  PROVE  Stream(T, Pieces(words), p, r)
<1>1. PICK n \in Nat : n = Len(words)
  BY LenProperties
<1>2. PICK f \in [0..n -> Positions] :
        f[0] = p /\ f[n] = r /\ \A i \in 1..n : Moves(T, f[i - 1], words[i], f[i])
  BY <1>1 DEF Leads
<1>3. PICK P \in Seq(Seq(Words)) : P = Pieces(words)
  BY PiecesCut
<1>4. PICK K \in Nat : K = Len(P)
  BY LenProperties
<1>5. PICK c \in [0..K -> 0..n] :
        /\ c[0] = 0 /\ c[K] = n
        /\ \A k \in 1..K :
             /\ c[k - 1] <= c[k] /\ Len(P[k]) = c[k] - c[k - 1]
             /\ \A i \in 1..(c[k] - c[k - 1]) : P[k][i] = words[c[k - 1] + i]
  <2>1. \E c \in [0..Len(Pieces(words)) -> 0..Len(words)] :
          /\ c[0] = 0 /\ c[Len(Pieces(words))] = Len(words)
          /\ \A k \in 1..Len(Pieces(words)) :
               /\ c[k - 1] <= c[k] /\ Len(Pieces(words)[k]) = c[k] - c[k - 1]
               /\ \A i \in 1..(c[k] - c[k - 1]) :
                    Pieces(words)[k][i] = words[c[k - 1] + i]
    BY PiecesCut, Zenon
  <2> QED BY <1>1, <1>3, <1>4, <2>1
<1>6. PICK g \in [0..K -> Positions] : \A k \in 0..K : g[k] = f[c[k]]
  <2>1. [k \in 0..K |-> f[c[k]]] \in [0..K -> Positions]
    OBVIOUS
  <2> QED BY <2>1
<1>7. ASSUME NEW k \in 1..K PROVE Leads(T, P[k], g[k - 1], g[k])
  <2>1. k \in 0..K /\ k - 1 \in 0..K
    OBVIOUS
  <2>2. PICK a \in 0..n, b \in 0..n : a = c[k - 1] /\ b = c[k] /\ b \in a..n
    <3>1. c[k - 1] \in 0..n /\ c[k] \in 0..n /\ c[k - 1] <= c[k]
      BY <1>5, <2>1
    <3> QED BY <3>1
  <2>3. PICK t : t = P[k]
    OBVIOUS
  <2>4. Len(t) = b - a /\ \A i \in 1..(b - a) : t[i] = words[a + i]
    BY <1>5, <2>2, <2>3
  <2>5. Leads(T, t, f[a], f[b])
    BY <1>1, <1>2, <2>2, <2>4, LeadsPart
  <2> QED BY <1>6, <2>1, <2>2, <2>3, <2>5
<1>8. g[0] = p /\ g[K] = r
  <2>1. 0 \in 0..K /\ K \in 0..K
    OBVIOUS
  <2> QED BY <1>2, <1>5, <1>6, <2>1
<1> QED BY <1>3, <1>4, <1>6, <1>7, <1>8 DEF Stream

\* A text more changes nothing of the way through those before.
LEMMA MovesMore ==
  ASSUME NEW T \in Seq(Seq(Words)), NEW x \in Seq(Words), NEW p \in Positions, NEW w, NEW q,
         Moves(T, p, w, q)
  PROVE  Moves(Append(T, x), p, w, q)
<1>1. PICK U : U = Append(T, x)
  OBVIOUS
<1>2. PICK n \in Nat : n = Len(T)
  BY LenProperties
<1>3. Len(U) = n + 1 /\ \A k \in 1..n : U[k] = T[k]
  BY <1>1, <1>2, AppendProperties
<1>4. p[1] \in Nat /\ p[2] \in Nat
  BY DEF Positions
<1>5. CASE p[1] \in 1..n /\ p[2] < Len(T[p[1]]) /\ w = T[p[1]][p[2] + 1] /\ q = <<p[1], p[2] + 1>>
  <2>1. U[p[1]] = T[p[1]] /\ p[1] \in 1..(n + 1)
    BY <1>3, <1>5
  <2> QED BY <1>1, <1>3, <1>5, <2>1 DEF Moves
<1>6. CASE /\ p[1] < n /\ p[2] = Size(T, p[1])
           /\ w = Number(Len(T[p[1] + 1])) /\ q = <<p[1] + 1, 0>>
  <2>1. U[p[1] + 1] = T[p[1] + 1] /\ p[1] < n + 1 /\ (p[1] # 0 => U[p[1]] = T[p[1]])
    BY <1>3, <1>4, <1>6
  <2>2. Size(U, p[1]) = Size(T, p[1])
    BY <2>1 DEF Size
  <2> QED BY <1>1, <1>3, <1>6, <2>1, <2>2 DEF Moves
<1> QED BY <1>2, <1>5, <1>6 DEF Moves

\* Nor of the way of several words.
LEMMA LeadsMore ==
  ASSUME NEW T \in Seq(Seq(Words)), NEW x \in Seq(Words), NEW p, NEW r, NEW q \in Seq(Words),
         Leads(T, q, p, r)
  PROVE  Leads(Append(T, x), q, p, r)
<1>1. PICK n \in Nat : n = Len(q)
  BY LenProperties
<1>2. PICK f \in [0..n -> Positions] :
        f[0] = p /\ f[n] = r /\ \A i \in 1..n : Moves(T, f[i - 1], q[i], f[i])
  BY <1>1 DEF Leads
<1>3. ASSUME NEW i \in 1..n PROVE Moves(Append(T, x), f[i - 1], q[i], f[i])
  <2>1. f[i - 1] \in Positions
    OBVIOUS
  <2> QED BY <1>2, <2>1, MovesMore
<1> QED BY <1>1, <1>2, <1>3 DEF Leads

\* The same for segments.
LEMMA StreamMore ==
  ASSUME NEW T \in Seq(Seq(Words)), NEW x \in Seq(Words), NEW p, NEW r,
         NEW w \in Seq(Seq(Words)), Stream(T, w, p, r)
  PROVE  Stream(Append(T, x), w, p, r)
<1>1. PICK n \in Nat : n = Len(w)
  BY LenProperties
<1>2. PICK f \in [0..n -> Positions] :
        f[0] = p /\ f[n] = r /\ \A i \in 1..n : Leads(T, w[i], f[i - 1], f[i])
  BY <1>1 DEF Stream
<1>3. ASSUME NEW i \in 1..n PROVE Leads(Append(T, x), w[i], f[i - 1], f[i])
  <2>1. w[i] \in Seq(Words)
    BY <1>1, ElementOfSeq
  <2> QED BY <1>2, <2>1, LeadsMore
<1> QED BY <1>1, <1>2, <1>3 DEF Stream

\* The words of a text lead through it.
LEMMA TextLeads ==
  ASSUME NEW T \in Seq(Seq(Words)), NEW t \in 1..Len(T)
  PROVE  Leads(T, T[t], <<t, 0>>, <<t, Len(T[t])>>)
<1>1. PICK x \in Seq(Words) : x = T[t]
  BY ElementOfSeq
<1>2. PICK n \in Nat : n = Len(x)
  BY LenProperties
<1>3. t \in Nat
  BY LenProperties
<1>4. PICK f \in [0..n -> Positions] : \A i \in 0..n : f[i] = <<t, i>>
  <2>1. [i \in 0..n |-> <<t, i>>] \in [0..n -> Positions]
    BY <1>3 DEF Positions
  <2> QED BY <2>1
<1>5. ASSUME NEW i \in 1..n PROVE Moves(T, f[i - 1], x[i], f[i])
  <2>1. f[i] = <<t, i>> /\ f[i - 1] = <<t, i - 1>> /\ (i - 1) + 1 = i /\ i - 1 < n
    BY <1>4
  <2> QED BY <1>1, <1>2, <2>1 DEF Moves
<1>6. f[0] = <<t, 0>> /\ f[n] = <<t, n>>
  BY <1>4
<1> QED BY <1>1, <1>2, <1>5, <1>6 DEF Leads

\* Its length leads to it.
LEMMA NumberLeads ==
  ASSUME NEW T \in Seq(Seq(Words)), NEW t \in Nat, t < Len(T)
  PROVE  Leads(T, <<Number(Len(T[t + 1]))>>, <<t, Size(T, t)>>, <<t + 1, 0>>)
<1>1. Size(T, t) \in Nat
  <2>1. CASE t = 0
    BY <2>1 DEF Size
  <2>2. CASE t # 0
    <3>1. t \in 1..Len(T)
      BY <2>2, LenProperties
    <3>2. Len(T[t]) \in Nat
      BY <3>1, ElementOfSeq, LenProperties
    <3> QED BY <2>2, <3>2 DEF Size
  <2> QED BY <2>1, <2>2
<1>2. PICK q : q = <<Number(Len(T[t + 1]))>>
  OBVIOUS
<1>3. Len(q) = 1 /\ q[1] = Number(Len(T[t + 1]))
  BY <1>2
<1>4. PICK p \in Positions, r \in Positions : p = <<t, Size(T, t)>> /\ r = <<t + 1, 0>>
  <2>1. <<t, Size(T, t)>> \in Positions
    BY <1>1 DEF Positions
  <2>2. <<t + 1, 0>> \in Positions
    BY DEF Positions
  <2> QED BY <2>1, <2>2
<1>5. PICK f \in [0..1 -> Positions] : f[0] = p /\ f[1] = r
  <2>1. [i \in 0..1 |-> IF i = 0 THEN p ELSE r] \in [0..1 -> Positions]
    OBVIOUS
  <2>2. /\ [i \in 0..1 |-> IF i = 0 THEN p ELSE r][0] = p
        /\ [i \in 0..1 |-> IF i = 0 THEN p ELSE r][1] = r
    OBVIOUS
  <2> QED BY <2>1, <2>2, Zenon
<1>6. Moves(T, p, q[1], r)
  <2>1. p[1] = t /\ p[2] = Size(T, t)
    BY <1>4
  <2> QED BY <1>3, <1>4, <2>1 DEF Moves
<1>7. ASSUME NEW i \in 1..1 PROVE Moves(T, f[i - 1], q[i], f[i])
  <2>1. i = 1 /\ i - 1 = 0
    OBVIOUS
  <2> QED BY <1>5, <1>6, <2>1
<1> QED BY <1>2, <1>3, <1>4, <1>5, <1>7 DEF Leads

\* Where a text begins, as many words as it has are its own.
LEMMA Whole ==
  ASSUME NEW T \in Seq(Seq(Words)), NEW t \in 1..Len(T), NEW q \in Seq(Words), NEW r,
         Leads(T, q, <<t, 0>>, r), Len(T[t]) <= Len(q)
  PROVE  /\ SubSeq(q, 1, Len(T[t])) = T[t]
         /\ Leads(T, SubSeq(q, Len(T[t]) + 1, Len(q)), <<t, Len(T[t])>>, r)
<1>1. PICK x \in Seq(Words) : x = T[t]
  BY ElementOfSeq
<1>2. PICK n \in Nat, m \in Nat : n = Len(x) /\ m = Len(q) /\ n <= m
  BY <1>1, LenProperties
<1>3. PICK f \in [0..m -> Positions] :
        f[0] = <<t, 0>> /\ f[m] = r /\ \A i \in 1..m : Moves(T, f[i - 1], q[i], f[i])
  BY <1>2 DEF Leads
<1>4. t \in Nat /\ t # 0
  BY LenProperties
<1>5. ASSUME NEW i \in 1..n, f[i - 1] = <<t, i - 1>>
      PROVE  q[i] = x[i] /\ f[i] = <<t, i>>
  <2>1. Moves(T, <<t, i - 1>>, q[i], f[i])
    <3>1. i \in 1..m
      BY <1>2
    <3> QED BY <1>3, <1>5, <3>1
  <2>2. Size(T, t) = n
    BY <1>1, <1>2, <1>4 DEF Size
  <2>3. <<t, i - 1>>[1] = t /\ <<t, i - 1>>[2] = i - 1 /\ (i - 1) + 1 = i /\ i - 1 # n
    OBVIOUS
  <2> QED BY <1>1, <2>1, <2>2, <2>3 DEF Moves
<1>6. ASSUME NEW i \in 0..n PROVE f[i] = <<t, i>>
  <2> DEFINE B == {j \in 0..n : f[j] # <<t, j>>}
  <2>1. ASSUME B # {} PROVE FALSE
    <3>1. PICK k \in B : \A j \in B : k <= j
      <4>1. PICK C : C = B
        OBVIOUS
      <4>2. C \in SUBSET Nat /\ C # {}
        BY <2>1, <4>1
      <4>3. \E k \in C : \A j \in C : k <= j
        BY <4>2, LeastNat
      <4> QED BY <4>1, <4>3
    <3>2. k # 0
      BY <1>3
    <3>3. k - 1 \in 0..n /\ k - 1 \notin B /\ k \in 1..n
      BY <3>1, <3>2
    <3> QED BY <1>5, <3>3
  <2> QED BY <2>1
<1>7. ASSUME NEW i \in 1..n PROVE q[i] = x[i]
  <2>1. i - 1 \in 0..n
    OBVIOUS
  <2> QED BY <1>5, <1>6, <2>1
<1>8. SubSeq(q, 1, n) = x
  <2>1. PICK s : s = SubSeq(q, 0 + 1, n)
    OBVIOUS
  <2>2. s \in Seq(Words) /\ Len(s) = n /\ \A i \in 1..n : s[i] = q[i]
    <3>1. \A i \in 1..n : 0 + i = i
      OBVIOUS
    <3>2. n - 0 = n /\ 0 <= n /\ n <= Len(q) /\ 0 \in Nat
      BY <1>2
    <3>3. /\ SubSeq(q, 0 + 1, n) \in Seq(Words) /\ Len(SubSeq(q, 0 + 1, n)) = n - 0
          /\ \A i \in 1..(n - 0) : SubSeq(q, 0 + 1, n)[i] = q[0 + i]
      BY <3>2, PartOf, Zenon
    <3> QED BY <2>1, <3>1, <3>2, <3>3
  <2>3. s = x
    BY <1>2, <1>7, <2>2, SeqEqual
  <2> QED BY <2>1, <2>3
<1>9. Leads(T, SubSeq(q, n + 1, m), f[n], f[m])
  <2>1. n <= m /\ m <= Len(q)
    BY <1>2
  <2>2. /\ SubSeq(q, n + 1, m) \in Seq(Words) /\ Len(SubSeq(q, n + 1, m)) = m - n
        /\ \A i \in 1..(m - n) : SubSeq(q, n + 1, m)[i] = q[n + i]
    BY <2>1, PartOf, Zenon
  <2>3. n \in 0..m /\ m \in n..m
    BY <1>2
  <2> QED BY <1>2, <1>3, <2>2, <2>3, LeadsPart
<1>10. f[n] = <<t, n>>
  BY <1>6
<1> QED BY <1>1, <1>2, <1>3, <1>8, <1>9, <1>10
---------------------------------------------------------------------------
(* What is to come, after a step.                                           *)

\* The size of a text is a number, and its end a position.
LEMMA SizeNat ==
  ASSUME NEW T \in Seq(Seq(Words)), NEW t \in 0..Len(T)
  PROVE  Size(T, t) \in Nat /\ <<t, Size(T, t)>> \in Positions
<1>1. Len(T) \in Nat
  BY LenProperties
<1>2. CASE t = 0
  BY <1>2 DEF Size, Positions
<1>3. CASE t # 0
  <2>1. t \in 1..Len(T) /\ t \in Nat
    BY <1>1, <1>3
  <2>2. T[t] \in Seq(Words)
    BY <2>1, ElementOfSeq
  <2>3. Len(T[t]) \in Nat
    BY <2>2, LenProperties
  <2> QED BY <1>3, <2>1, <2>3 DEF Size, Positions
<1> QED BY <1>2, <1>3

\* The length of a new text.
LEMMA ComingLength ==
  ASSUME NEW T \in Seq(Seq(Words)), NEW x \in Seq(Words), NEW q \in Seq(Words),
         NEW w \in Seq(Seq(Words)), NEW p, NEW n \in Nat, n = Len(T),
         Coming(T, q, w, p, <<n, Size(T, n)>>), Number(Len(x)) \in Words
  PROVE  Coming(Append(T, x), q, w \o Pieces(<<Number(Len(x))>>), p, <<n + 1, 0>>)
<1>1. PICK m \in Positions : Leads(T, q, p, m) /\ Stream(T, w, m, <<n, Size(T, n)>>)
  BY DEF Coming
<1>2. PICK U : U = Append(T, x)
  OBVIOUS
<1>3. U \in Seq(Seq(Words)) /\ Len(U) = n + 1 /\ U[n + 1] = x /\ (n # 0 => U[n] = T[n])
  BY <1>2, AppendProperties
<1>4. Leads(U, q, p, m)
  BY <1>1, <1>2, LeadsMore
<1>5. Stream(U, w, m, <<n, Size(T, n)>>)
  BY <1>1, <1>2, StreamMore
<1>6. Size(U, n) = Size(T, n)
  BY <1>3 DEF Size
<1>7. PICK y \in Seq(Words) : y = <<Number(Len(x))>>
  <2>1. PICK u \in Words : u = Number(Len(x))
    OBVIOUS
  <2>2. <<u>> \in Seq(Words)
    OBVIOUS
  <2> QED BY <2>1, <2>2
<1>8. Leads(U, y, <<n, Size(T, n)>>, <<n + 1, 0>>)
  <2>1. n < Len(U)
    BY <1>3
  <2>2. Leads(U, <<Number(Len(U[n + 1]))>>, <<n, Size(U, n)>>, <<n + 1, 0>>)
    BY <1>3, <2>1, NumberLeads
  <2> QED BY <1>3, <1>6, <1>7, <2>2
<1>9. Stream(U, Pieces(y), <<n, Size(T, n)>>, <<n + 1, 0>>) /\ Pieces(y) \in Seq(Seq(Words))
  BY <1>8, PiecesStream, PiecesCut
<1>10. Stream(U, w \o Pieces(y), m, <<n + 1, 0>>)
  BY <1>5, <1>9, StreamOn
<1> QED BY <1>1, <1>2, <1>4, <1>7, <1>10 DEF Coming

\* The words of the last one.
LEMMA ComingText ==
  ASSUME NEW T \in Seq(Seq(Words)), NEW q, NEW w \in Seq(Seq(Words)), NEW p,
         NEW n \in 1..Len(T), Coming(T, q, w, p, <<n, 0>>)
  PROVE  Coming(T, q, w \o Pieces(T[n]), p, <<n, Size(T, n)>>)
<1>1. PICK m \in Positions : Leads(T, q, p, m) /\ Stream(T, w, m, <<n, 0>>)
  BY DEF Coming
<1>2. PICK y \in Seq(Words) : y = T[n]
  BY ElementOfSeq
<1>3. Leads(T, y, <<n, 0>>, <<n, Len(y)>>)
  BY <1>2, TextLeads
<1>4. Stream(T, Pieces(y), <<n, 0>>, <<n, Len(y)>>) /\ Pieces(y) \in Seq(Seq(Words))
  BY <1>3, PiecesStream, PiecesCut
<1>5. Stream(T, w \o Pieces(y), m, <<n, Len(y)>>)
  BY <1>1, <1>4, StreamOn
<1>6. Size(T, n) = Len(y)
  <2>1. n # 0
    BY LenProperties
  <2> QED BY <1>2, <2>1 DEF Size
<1> QED BY <1>1, <1>2, <1>5, <1>6 DEF Coming

\* A segment arrives.
LEMMA ComingArrives ==
  ASSUME NEW T, NEW q \in Seq(Words), NEW w \in Seq(Seq(Words)), NEW p, NEW e, w # <<>>,
         Coming(T, q, w, p, e)
  PROVE  Coming(T, q \o Head(w), Tail(w), p, e)
<1>1. PICK m \in Positions : Leads(T, q, p, m) /\ Stream(T, w, m, e)
  BY DEF Coming
<1>2. PICK k \in Positions : Leads(T, Head(w), m, k) /\ Stream(T, Tail(w), k, e)
  BY <1>1, StreamHead
<1>3. Head(w) \in Seq(Words)
  BY HeadTailProperties
<1>4. Leads(T, q \o Head(w), p, k)
  BY <1>1, <1>2, <1>3, LeadsOn
<1> QED BY <1>2, <1>4 DEF Coming

\* A length is read where a text begins.
LEMMA LengthComes ==
  ASSUME NEW T \in Seq(Seq(Words)), NEW q \in Seq(Words), NEW w, NEW r \in 0..Len(T), NEW e,
         q # <<>>, Coming(T, q, w, <<r, Size(T, r)>>, e)
  PROVE  /\ r + 1 \in 1..Len(T) /\ Head(q) = Number(Len(T[r + 1]))
         /\ Coming(T, Tail(q), w, <<r + 1, 0>>, e)
<1>1. PICK m \in Positions : Leads(T, q, <<r, Size(T, r)>>, m) /\ Stream(T, w, m, e)
  BY DEF Coming
<1>2. PICK k \in Positions :
        Moves(T, <<r, Size(T, r)>>, Head(q), k) /\ Leads(T, Tail(q), k, m)
  BY <1>1, LeadsHead
<1>3. Len(T) \in Nat /\ Size(T, r) \in Nat
  BY LenProperties, SizeNat
<1>4. <<r, Size(T, r)>>[1] = r /\ <<r, Size(T, r)>>[2] = Size(T, r)
  OBVIOUS
<1>5. ~ (r \in 1..Len(T) /\ Size(T, r) < Len(T[r]))
  <2>1. ASSUME r \in 1..Len(T) PROVE Size(T, r) = Len(T[r])
    <3>1. r # 0
      BY <1>3, <2>1
    <3> QED BY <3>1 DEF Size
  <2> QED BY <1>3, <2>1
<1>6. r < Len(T) /\ Head(q) = Number(Len(T[r + 1])) /\ k = <<r + 1, 0>>
  BY <1>2, <1>4, <1>5 DEF Moves
<1> QED BY <1>1, <1>2, <1>3, <1>6 DEF Coming

\* A text is read whole if all of it has arrived.
LEMMA TextComes ==
  ASSUME NEW T \in Seq(Seq(Words)), NEW q \in Seq(Words), NEW w, NEW r \in 1..Len(T), NEW e,
         Len(T[r]) <= Len(q), Coming(T, q, w, <<r, 0>>, e)
  PROVE  /\ SubSeq(q, 1, Len(T[r])) = T[r]
         /\ Coming(T, SubSeq(q, Len(T[r]) + 1, Len(q)), w, <<r, Size(T, r)>>, e)
<1>1. PICK m \in Positions : Leads(T, q, <<r, 0>>, m) /\ Stream(T, w, m, e)
  BY DEF Coming
<1>2. /\ SubSeq(q, 1, Len(T[r])) = T[r]
      /\ Leads(T, SubSeq(q, Len(T[r]) + 1, Len(q)), <<r, Len(T[r])>>, m)
  BY <1>1, Whole
<1>3. Size(T, r) = Len(T[r])
  <2>1. r # 0
    BY LenProperties
  <2> QED BY <2>1 DEF Size
<1> QED BY <1>1, <1>2, <1>3 DEF Coming

---------------------------------------------------------------------------
(* What was printed, after a step.                                          *)

\* The texts to be printed are finitely many.
LEMMA ToBePrintedFinite ==
  ASSUME NEW T, NEW n \in Nat
  PROVE  IsFiniteSet(ToBePrinted(T, n)) /\ Cardinality(ToBePrinted(T, n)) \in Nat
<1>1. IsFiniteSet(1..n)
  BY FS_Interval
<1>2. ToBePrinted(T, n) \subseteq 1..n
  BY DEF ToBePrinted
<1>3. IsFiniteSet(ToBePrinted(T, n))
  BY <1>1, <1>2, FS_Subset
<1> QED BY <1>3, FS_CardinalityType

\* Each of them has its place.
LEMMA Place ==
  ASSUME NEW T, NEW n \in Nat, NEW t \in ToBePrinted(T, n)
  PROVE  Cardinality(ToBePrinted(T, t)) \in 1..Cardinality(ToBePrinted(T, n))
<1>1. t \in 1..n /\ t \in Nat
  BY DEF ToBePrinted
<1>2. ToBePrinted(T, t) \subseteq ToBePrinted(T, n) /\ t \in ToBePrinted(T, t)
  BY <1>1 DEF ToBePrinted
<1>3. PICK A, B : A = ToBePrinted(T, t) /\ B = ToBePrinted(T, n)
  OBVIOUS
<1>4. /\ IsFiniteSet(A) /\ Cardinality(A) \in Nat
      /\ IsFiniteSet(B) /\ Cardinality(B) \in Nat
  BY <1>1, <1>3, ToBePrintedFinite
<1>5. Cardinality(A) <= Cardinality(B)
  BY <1>2, <1>3, <1>4, FS_Subset
<1>6. Cardinality(A) # 0
  BY <1>2, <1>3, <1>4, FS_EmptySet
<1> QED BY <1>3, <1>4, <1>5, <1>6

\* A new text changes nothing of what was printed.
LEMMA OrderedMore ==
  ASSUME NEW T \in Seq(Seq(Words)), NEW x \in Seq(Words), NEW P, NEW n \in 0..Len(T),
         Ordered(T, P, n)
  PROVE  Ordered(Append(T, x), P, n)
<1>1. PICK U : U = Append(T, x)
  OBVIOUS
<1>2. PICK m \in Nat : m = Len(T)
  BY LenProperties
<1>3. /\ \A k \in 1..m : U[k] = T[k]
      /\ DOMAIN U = 1..(m + 1) /\ DOMAIN T = 1..m
  <2>1. U \in Seq(Seq(Words)) /\ Len(U) = m + 1 /\ \A k \in 1..m : U[k] = T[k]
    BY <1>1, <1>2, AppendProperties
  <2> QED BY <1>2, <2>1, LenProperties
<1>4. ASSUME NEW k \in 0..m PROVE ToBePrinted(U, k) = ToBePrinted(T, k)
  BY <1>3 DEF ToBePrinted
<1>5. ASSUME NEW t \in ToBePrinted(T, n)
      PROVE  t \in 0..m /\ U[t] = T[t]
  BY <1>2, <1>3 DEF ToBePrinted
<1>6. ToBePrinted(U, n) = ToBePrinted(T, n)
  BY <1>2, <1>4
<1>7. ASSUME NEW t \in ToBePrinted(U, n) PROVE P[Cardinality(ToBePrinted(U, t))] = U[t]
  <2>1. t \in ToBePrinted(T, n) /\ ToBePrinted(U, t) = ToBePrinted(T, t) /\ U[t] = T[t]
    BY <1>4, <1>5, <1>6
  <2> QED BY <2>1 DEF Ordered
<1> QED BY <1>1, <1>6, <1>7 DEF Ordered

\* The next text is printed if it is one to be printed.
LEMMA OrderedNext ==
  ASSUME NEW T \in Seq(Seq(Words)), NEW P \in Seq(Seq(Words)), NEW r \in 1..Len(T),
         Ordered(T, P, r - 1)
  PROVE  /\ T[r] \in {<<>>, ExitAnswer} => Ordered(T, P, r)
         /\ T[r] \notin {<<>>, ExitAnswer} => Ordered(T, Append(P, T[r]), r)
<1>1. r \in Nat /\ r - 1 \in Nat /\ r \in DOMAIN T
  BY LenProperties
<1>2. CASE T[r] \in {<<>>, ExitAnswer}
  <2>1. ToBePrinted(T, r) = ToBePrinted(T, r - 1)
    BY <1>1, <1>2 DEF ToBePrinted
  <2>2. Ordered(T, P, r)
    BY <2>1 DEF Ordered
  <2> QED BY <1>2, <2>2
<1>3. CASE T[r] \notin {<<>>, ExitAnswer}
  <2>1. PICK A, B : A = ToBePrinted(T, r - 1) /\ B = ToBePrinted(T, r)
    OBVIOUS
  <2>2. B = A \cup {r} /\ r \notin A
    BY <1>1, <1>3, <2>1 DEF ToBePrinted
  <2>3. PICK c \in Nat : c = Cardinality(A) /\ IsFiniteSet(A)
    BY <1>1, <2>1, ToBePrintedFinite
  <2>4. Cardinality(B) = c + 1
    BY <2>2, <2>3, FS_AddElement
  <2>5. T[r] \in Seq(Words)
    BY ElementOfSeq
  <2>6. PICK Q : Q = Append(P, T[r])
    OBVIOUS
  <2>7. Len(P) = c /\ \A t \in A : P[Cardinality(ToBePrinted(T, t))] = T[t]
    BY <2>1, <2>3 DEF Ordered
  <2>8. Len(Q) = c + 1 /\ Q[c + 1] = T[r] /\ \A i \in 1..c : Q[i] = P[i]
    BY <2>5, <2>6, <2>7, AppendProperties
  <2>9. ASSUME NEW t \in B PROVE Q[Cardinality(ToBePrinted(T, t))] = T[t]
    <3>1. CASE t = r
      BY <2>1, <2>4, <2>8, <3>1
    <3>2. CASE t # r
      <4>1. t \in A
        BY <2>2, <3>2
      <4>2. Cardinality(ToBePrinted(T, t)) \in 1..c
        BY <1>1, <2>1, <2>3, <4>1, Place
      <4> QED BY <2>7, <2>8, <4>1, <4>2
    <3> QED BY <3>1, <3>2
  <2>10. Ordered(T, Q, r)
    BY <2>1, <2>4, <2>8, <2>9 DEF Ordered
  <2> QED BY <1>3, <2>6, <2>10
<1> QED BY <1>2, <1>3
---------------------------------------------------------------------------
(* The inductive invariant holds from the start.                             *)

\* At first there is no text.
LEMMA InitOK == Init => IInv
<1> SUFFICES ASSUME Init PROVE IInv
  OBVIOUS
<1>1. TypeOK
  <2>1. texts = <<>> /\ Len(texts) = 0 /\ <<>> \in Seq(Words) /\ <<>> \in Seq(Seq(Words))
    BY DEF Init
  <2>2. pc \in [Senders -> 0..Len(texts)] /\ \A s \in Senders : pc[s] = 0
    BY <2>1 DEF Init
  <2>3. MaxTexts \in Nat /\ 0 <= MaxTexts
    BY FramingAssumption
  <2>4. /\ exiting = FALSE /\ mixed = FALSE /\ split = FALSE /\ wire = <<>> /\ arrived = <<>>
        /\ at = "length" /\ length = 0 /\ printed = <<>>
    BY DEF Init
  <2> QED BY <2>1, <2>2, <2>3, <2>4 DEF TypeOK
<1>2. texts = <<>> /\ printed = <<>> /\ wire = <<>> /\ arrived = <<>> /\ at = "length"
  BY DEF Init
<1>3. Len(texts) = 0 /\ Size(texts, 0) = 0 /\ <<0, 0>> \in Positions
  BY <1>2 DEF Size, Positions
<1>4. Sound /\ Turns
  BY <1>2, <1>3 DEF Sound, Turns, Init
<1>5. Sent = <<0, 0>>
  BY <1>3 DEF Sent, Init
<1>6. Coming(texts, arrived, wire, <<0, 0>>, <<0, 0>>)
  BY <1>2, <1>3, LeadsNothing DEF Coming
<1>7. Ordered(texts, printed, 0)
  <2>1. ToBePrinted(texts, 0) = {}
    BY DEF ToBePrinted
  <2>2. Len(printed) = 0
    BY <1>2
  <2> QED BY <2>1, <2>2, FS_EmptySet DEF Ordered
<1>8. InStep
  <2>1. 0 \in 0..Len(texts)
    BY <1>3
  <2> QED BY <1>2, <1>3, <1>5, <1>6, <1>7, <2>1 DEF InStep
<1> QED BY <1>1, <1>4, <1>8 DEF IInv

---------------------------------------------------------------------------
(* The server's steps preserve it.                                          *)

\* A length is a natural number and none that two characters make.
LEMMA LengthType ==
  Huge \in Nat /\ Huge > 1 /\ \A n \in Lengths : n \in Nat /\ n # Huge
<1>1. Lengths \subseteq 0..LongestText
  BY FramingAssumption
<1>2. LongestText \in Nat /\ LongestText > 0
  BY SMT DEF LongestText
<1>3. Huge = LongestText + 1
  BY DEF Huge
<1> QED BY <1>1, <1>2, <1>3

\* The words of a text are words.
LEMMA TextType ==
  ASSUME NEW t \in 0..MaxTexts, NEW n \in Nat
  PROVE  Text(t, n) \in Seq(Words) /\ Len(Text(t, n)) = n
<1>1. PICK x : x = Text(t, n)
  OBVIOUS
<1>2. x \in [1..n -> Words]
  BY <1>1 DEF Text, Words
<1>3. x \in Seq(Words) /\ Len(x) = n
  BY <1>2
<1> QED BY <1>1, <1>3

\* A segment is made of words.
LEMMA TransmitType ==
  ASSUME NEW y \in Seq(Words), wire \in Seq(Seq(Words)), Transmit(y)
  PROVE  wire' \in Seq(Seq(Words)) /\ wire' = wire \o Pieces(y)
<1>1. Pieces(y) \in Seq(Seq(Words))
  BY PiecesCut
<1>2. wire \o Pieces(y) \in Seq(Seq(Words))
  BY <1>1, ConcatProperties
<1> QED BY <1>2 DEF Transmit

\* The length of a text is sent.
LEMMA AnnounceOK ==
  ASSUME IInv, NEW s \in Senders, NEW x, Announce(s, x), exiting' \in BOOLEAN,
         x = ExitAnswer \/ \E n \in Lengths : x = Text(Len(texts) + 1, n)
  PROVE  IInv'
<1>1. /\ texts \in Seq(Seq(Words)) /\ Len(texts) <= MaxTexts
      /\ pc \in [Senders -> 0..Len(texts)]
      /\ \A a, b \in Senders : a # b /\ pc[a] # 0 => pc[a] # pc[b]
      /\ mixed \in BOOLEAN /\ split \in BOOLEAN
      /\ wire \in Seq(Seq(Words)) /\ arrived \in Seq(Words)
      /\ at \in {"length", "text", "ended", "left"}
      /\ length \in Nat /\ printed \in Seq(Seq(Words))
  BY DEF IInv, TypeOK
<1>2. PICK L \in Nat : L = Len(texts) /\ L < MaxTexts
  BY <1>1, LenProperties DEF Announce
<1>3. /\ pc[s] = 0 /\ texts' = Append(texts, x) /\ pc' = [pc EXCEPT ![s] = Len(texts')]
      /\ Transmit(<<Number(Len(x))>>)
      /\ mixed' = (mixed \/ \E r \in Senders : pc[r] # 0)
      /\ arrived' = arrived /\ at' = at /\ length' = length /\ printed' = printed
      /\ split' = split
  BY DEF Announce, reader
<1>4. x \in Seq(Words)
  <2>1. ASSUME NEW n \in Lengths, x = Text(L + 1, n) PROVE x \in Seq(Words)
    <3>1. n \in Nat /\ L + 1 \in 0..MaxTexts
      BY <1>2, <2>1, LengthType, FramingAssumption
    <3> QED BY <2>1, <3>1, TextType
  <2>2. ExitAnswer \in Seq(Words)
    <3>1. Number(0) \in Words
      BY FramingAssumption DEF Number, Words
    <3> QED BY <3>1 DEF ExitAnswer
  <2> QED BY <1>2, <2>1, <2>2
<1>5. Number(Len(x)) \in Words
  <2>1. Len(x) \in Nat
    BY <1>4, LenProperties
  <2> QED BY <2>1, FramingAssumption DEF Number, Words
<1>6. /\ texts' \in Seq(Seq(Words)) /\ Len(texts') = L + 1 /\ texts'[L + 1] = x
      /\ \A k \in 1..L : texts'[k] = texts[k]
  BY <1>1, <1>2, <1>3, <1>4, AppendProperties
<1>7. /\ wire' \in Seq(Seq(Words)) /\ wire' = wire \o Pieces(<<Number(Len(x))>>)
  <2>1. PICK u \in Words : u = Number(Len(x))
    BY <1>5
  <2>2. <<u>> \in Seq(Words)
    OBVIOUS
  <2> QED BY <1>1, <1>3, <2>1, <2>2, TransmitType
<1>8. pc' = [pc EXCEPT ![s] = L + 1] /\ \A a \in Senders : pc[a] \in 0..L
  BY <1>1, <1>2, <1>3, <1>6
<1>9. /\ pc' \in [Senders -> 0..(L + 1)] /\ pc'[s] = L + 1
      /\ \A a \in Senders : a # s => pc'[a] = pc[a]
  BY <1>1, <1>8
<1>10. TypeOK'
  <2>1. \A a, b \in Senders : a # b /\ pc'[a] # 0 => pc'[a] # pc'[b]
    BY <1>1, <1>2, <1>8, <1>9
  <2>2. mixed' \in BOOLEAN
    BY <1>3
  <2>3. Len(texts') <= MaxTexts
    BY <1>2, <1>6, FramingAssumption
  <2> QED BY <1>1, <1>3, <1>6, <1>7, <1>9, <2>1, <2>2, <2>3 DEF TypeOK
<1>11. Sound'
  <2>1. ASSUME NEW t \in 1..(L + 1)
        PROVE  texts'[t] = ExitAnswer \/ \E n \in Lengths : texts'[t] = Text(t, n)
    <3>1. CASE t = L + 1
      BY <1>2, <1>6, <3>1
    <3>2. CASE t # L + 1
      <4>1. t \in 1..L
        BY <3>2
      <4>2. texts[t] = ExitAnswer \/ \E n \in Lengths : texts[t] = Text(t, n)
        BY <1>2, <4>1 DEF IInv, Sound
      <4> QED BY <1>6, <4>1, <4>2
    <3> QED BY <3>1, <3>2
  <2> QED BY <1>6, <2>1 DEF Sound
<1>12. ~mixed' => ~mixed /\ \A a \in Senders : pc[a] = 0
  BY <1>3
<1>13. Turns'
  <2>1. ASSUME ~mixed', NEW a \in Senders, pc'[a] # 0 PROVE pc'[a] = L + 1
    BY <1>9, <1>12, <2>1
  <2> QED BY <1>6, <2>1 DEF Turns
<1>14. ASSUME Undisturbed' PROVE InStep'
  <2>1. Undisturbed /\ ~mixed' /\ \A a \in Senders : pc[a] = 0
    BY <1>3, <1>12, <1>14 DEF Undisturbed
  <2>2. InStep
    BY <2>1 DEF IInv
  <2>3. Sent = <<L, Size(texts, L)>>
    BY <1>2, <2>1 DEF Sent
  <2>4. Sent' = <<L + 1, 0>>
    <3>1. L + 1 # 0
      OBVIOUS
    <3>2. \E a \in Senders : pc'[a] # 0
      BY <1>9, <3>1
    <3> QED BY <1>6, <3>2 DEF Sent
  <2>5. ASSUME NEW p, Coming(texts, arrived, wire, p, Sent)
        PROVE  Coming(texts', arrived', wire', p, Sent')
    <3>1. Coming(texts, arrived, wire, p, <<L, Size(texts, L)>>)
      BY <2>3, <2>5
    <3>2. Coming(Append(texts, x), arrived, wire \o Pieces(<<Number(Len(x))>>), p,
                 <<L + 1, 0>>)
      BY <1>1, <1>2, <1>4, <1>5, <3>1, ComingLength
    <3> QED BY <1>3, <1>7, <2>4, <3>2
  <2>6. ASSUME NEW r \in 0..L, Ordered(texts, printed, r) PROVE Ordered(texts', printed', r)
    <3>1. Ordered(Append(texts, x), printed, r)
      BY <1>1, <1>2, <1>4, <2>6, OrderedMore
    <3> QED BY <1>3, <3>1
  <2>7. ASSUME NEW r \in 0..L PROVE r \in 0..Len(texts') /\ Size(texts', r) = Size(texts, r)
    <3>1. r # 0 => r \in 1..L
      OBVIOUS
    <3> QED BY <1>6, <3>1 DEF Size
  <2>8. CASE at = "length"
    <3>1. PICK r \in 0..L :
            /\ Ordered(texts, printed, r)
            /\ Coming(texts, arrived, wire, <<r, Size(texts, r)>>, Sent)
      BY <1>2, <2>2, <2>8 DEF InStep
    <3>2. /\ r \in 0..Len(texts') /\ Ordered(texts', printed', r)
          /\ Coming(texts', arrived', wire', <<r, Size(texts', r)>>, Sent')
      BY <2>5, <2>6, <2>7, <3>1
    <3> QED BY <1>3, <2>8, <3>2 DEF InStep
  <2>9. CASE at = "text"
    <3>1. PICK r \in 1..L :
            /\ Ordered(texts, printed, r - 1) /\ length = Len(texts[r])
            /\ Coming(texts, arrived, wire, <<r, 0>>, Sent)
      BY <1>2, <2>2, <2>9 DEF InStep
    <3>2. r - 1 \in 0..L /\ r \in 1..Len(texts') /\ texts'[r] = texts[r]
      BY <1>6
    <3>3. /\ Ordered(texts', printed', r - 1) /\ length' = Len(texts'[r])
          /\ Coming(texts', arrived', wire', <<r, 0>>, Sent')
      BY <1>3, <2>5, <2>6, <3>1, <3>2
    <3> QED BY <1>3, <2>9, <3>2, <3>3 DEF InStep
  <2>10. CASE at \in {"ended", "left"}
    <3>1. PICK r \in 0..L : Ordered(texts, printed, r)
      BY <1>2, <2>2, <2>10 DEF InStep
    <3>2. r \in 0..Len(texts') /\ Ordered(texts', printed', r)
      BY <2>6, <2>7, <3>1
    <3>3. ASSUME at = "ended" PROVE \E t \in DOMAIN texts' : texts'[t] = <<>>
      <4>1. PICK t \in DOMAIN texts : texts[t] = <<>>
        BY <2>2, <3>3 DEF InStep
      <4>2. t \in 1..L /\ DOMAIN texts' = 1..(L + 1)
        BY <1>1, <1>2, <1>6, LenProperties
      <4> QED BY <1>6, <4>1, <4>2
    <3>4. at' = at /\ at' # "length" /\ at' # "text"
      BY <1>3, <2>10
    <3> QED BY <2>10, <3>2, <3>3, <3>4 DEF InStep
  <2> QED BY <1>1, <2>8, <2>9, <2>10
<1> QED BY <1>10, <1>11, <1>13, <1>14 DEF IInv
\* A text is sent.
LEMMA SendTextOK ==
  ASSUME IInv, NEW s \in Senders, SendText(s)
  PROVE  IInv'
<1>1. /\ texts \in Seq(Seq(Words)) /\ Len(texts) <= MaxTexts
      /\ pc \in [Senders -> 0..Len(texts)]
      /\ \A a, b \in Senders : a # b /\ pc[a] # 0 => pc[a] # pc[b]
      /\ exiting \in BOOLEAN /\ mixed \in BOOLEAN /\ split \in BOOLEAN
      /\ wire \in Seq(Seq(Words)) /\ arrived \in Seq(Words)
      /\ at \in {"length", "text", "ended", "left"}
      /\ length \in Nat /\ printed \in Seq(Seq(Words))
  BY DEF IInv, TypeOK
<1>2. PICK L \in Nat : L = Len(texts)
  BY <1>1, LenProperties
<1>3. /\ pc[s] # 0 /\ Transmit(texts[pc[s]]) /\ pc' = [pc EXCEPT ![s] = 0]
      /\ texts' = texts /\ exiting' = exiting /\ mixed' = mixed /\ arrived' = arrived
      /\ at' = at /\ length' = length /\ printed' = printed /\ split' = split
  BY DEF SendText, reader
<1>4. PICK t \in 1..L : t = pc[s]
  BY <1>1, <1>2, <1>3
<1>5. texts[t] \in Seq(Words)
  BY <1>1, <1>2, <1>4, ElementOfSeq
<1>6. wire' \in Seq(Seq(Words)) /\ wire' = wire \o Pieces(texts[t])
  BY <1>1, <1>3, <1>4, <1>5, TransmitType
<1>7. /\ pc' \in [Senders -> 0..L] /\ pc'[s] = 0
      /\ \A a \in Senders : a # s => pc'[a] = pc[a]
  BY <1>1, <1>2, <1>3
<1>8. TypeOK'
  <2>1. \A a, b \in Senders : a # b /\ pc'[a] # 0 => pc'[a] # pc'[b]
    BY <1>1, <1>7
  <2>2. pc' \in [Senders -> 0..Len(texts')]
    BY <1>2, <1>3, <1>7
  <2> QED BY <1>1, <1>3, <1>6, <2>1, <2>2 DEF TypeOK
<1>9. Sound'
  BY <1>3 DEF IInv, Sound
<1>10. Turns'
  <2>1. ASSUME ~mixed, NEW a \in Senders, pc'[a] # 0 PROVE pc'[a] = Len(texts)
    <3>1. pc'[a] = pc[a]
      BY <1>7, <2>1
    <3> QED BY <2>1, <3>1 DEF IInv, Turns
  <2> QED BY <1>3, <2>1 DEF Turns
<1>11. ASSUME Undisturbed' PROVE InStep'
  <2>1. Undisturbed /\ ~mixed
    BY <1>3, <1>11 DEF Undisturbed
  <2>2. InStep
    BY <2>1 DEF IInv
  <2>3. t = L
    BY <1>2, <1>3, <1>4, <2>1 DEF IInv, Turns
  <2>4. Sent = <<L, 0>>
    BY <1>2, <1>3 DEF Sent
  <2>5. Sent' = <<L, Size(texts, L)>>
    <3>1. ASSUME NEW a \in Senders PROVE pc'[a] = 0
      <4>1. CASE a = s
        BY <1>7, <4>1
      <4>2. CASE a # s
        <5>1. pc[s] # pc[a]
          BY <1>1, <1>3, <4>2
        <5>2. pc[a] # 0 => pc[a] = L
          BY <1>2, <2>1 DEF IInv, Turns
        <5> QED BY <1>4, <1>7, <2>3, <4>2, <5>1, <5>2
      <4> QED BY <4>1, <4>2
    <3> QED BY <1>2, <1>3, <3>1 DEF Sent
  <2>6. ASSUME NEW p, Coming(texts, arrived, wire, p, Sent)
        PROVE  Coming(texts', arrived', wire', p, Sent')
    <3>1. L \in 1..Len(texts) /\ Coming(texts, arrived, wire, p, <<L, 0>>)
      BY <1>2, <1>4, <2>3, <2>4, <2>6
    <3>2. Coming(texts, arrived, wire \o Pieces(texts[L]), p, <<L, Size(texts, L)>>)
      BY <1>1, <3>1, ComingText
    <3> QED BY <1>3, <1>6, <2>3, <2>5, <3>2
  <2> QED BY <1>3, <2>2, <2>6 DEF InStep
<1> QED BY <1>8, <1>9, <1>10, <1>11 DEF IInv

---------------------------------------------------------------------------
(* So do those of the network and of the client, which leave the server as   *)
(* it is.                                                                   *)

\* What is left of the invariant to prove for such a step.
LEMMA ReaderOK ==
  ASSUME IInv, UNCHANGED server, wire' \in Seq(Seq(Words)), arrived' \in Seq(Words),
         at' \in {"length", "text", "ended", "left"}, length' \in Nat,
         printed' \in Seq(Seq(Words)), split' \in BOOLEAN, split => split',
         Undisturbed' /\ InStep => InStep'
  PROVE  IInv'
<1>1. texts' = texts /\ pc' = pc /\ exiting' = exiting /\ mixed' = mixed
  BY DEF server
<1>2. TypeOK'
  BY <1>1 DEF IInv, TypeOK
<1>3. Sound' /\ Turns'
  BY <1>1 DEF IInv, Sound, Turns
<1>4. Undisturbed' => Undisturbed
  BY <1>1 DEF Undisturbed, IInv, TypeOK
<1> QED BY <1>2, <1>3, <1>4 DEF IInv

\* A segment arrives.
LEMMA ArriveOK ==
  ASSUME IInv, Arrive
  PROVE  IInv'
<1>1. /\ wire \in Seq(Seq(Words)) /\ arrived \in Seq(Words) /\ length \in Nat
      /\ at \in {"length", "text", "ended", "left"}
      /\ printed \in Seq(Seq(Words)) /\ split \in BOOLEAN
  BY DEF IInv, TypeOK
<1>2. /\ wire # <<>> /\ arrived' = arrived \o Head(wire) /\ wire' = Tail(wire)
      /\ texts' = texts /\ pc' = pc /\ UNCHANGED server
      /\ at' = at /\ length' = length /\ printed' = printed /\ split' = split
  BY DEF Arrive, server, reader
<1>3. Head(wire) \in Seq(Words) /\ wire' \in Seq(Seq(Words))
  BY <1>1, <1>2, HeadTailProperties
<1>4. arrived' \in Seq(Words)
  BY <1>1, <1>2, <1>3, ConcatProperties
<1>5. Sent' = Sent
  BY <1>2 DEF Sent
<1>6. ASSUME NEW p, Coming(texts, arrived, wire, p, Sent)
      PROVE  Coming(texts', arrived', wire', p, Sent')
  <2>1. Coming(texts, arrived \o Head(wire), Tail(wire), p, Sent)
    BY <1>1, <1>2, <1>6, ComingArrives
  <2> QED BY <1>2, <1>5, <2>1
<1>7. InStep => InStep'
  BY <1>2, <1>6 DEF InStep
<1> QED BY <1>1, <1>2, <1>3, <1>4, <1>7, ReaderOK

\* The length of the next text is read as it is.
LEMMA ReceiveLengthOK ==
  ASSUME IInv, ReceiveLength
  PROVE  IInv'
<1>1. /\ texts \in Seq(Seq(Words)) /\ wire \in Seq(Seq(Words)) /\ arrived \in Seq(Words)
      /\ printed \in Seq(Seq(Words)) /\ split \in BOOLEAN
  BY DEF IInv, TypeOK
<1>2. /\ at = "length" /\ arrived # <<>> /\ length' = IntOf(Head(arrived))
      /\ arrived' = Tail(arrived) /\ at' = "text"
      /\ texts' = texts /\ pc' = pc /\ UNCHANGED server
      /\ wire' = wire /\ printed' = printed /\ split' = split
  BY DEF ReceiveLength, server
<1>3. Head(arrived) \in Words /\ arrived' \in Seq(Words)
  BY <1>1, <1>2, HeadTailProperties
<1>4. length' \in Nat
  <2>1. ASSUME NEW u \in Words PROVE IntOf(u) \in Nat
    BY LengthType DEF IntOf, Words
  <2> QED BY <1>2, <1>3, <2>1
<1>5. Sent' = Sent
  BY <1>2 DEF Sent
<1>6. ASSUME InStep PROVE InStep'
  <2>1. PICK r \in 0..Len(texts) :
          /\ Ordered(texts, printed, r)
          /\ Coming(texts, arrived, wire, <<r, Size(texts, r)>>, Sent)
    BY <1>2, <1>6 DEF InStep
  <2>2. /\ r + 1 \in 1..Len(texts) /\ Head(arrived) = Number(Len(texts[r + 1]))
        /\ Coming(texts, Tail(arrived), wire, <<r + 1, 0>>, Sent)
    BY <1>1, <1>2, <2>1, LengthComes
  <2>3. length' = Len(texts[r + 1])
    <3>1. ASSUME NEW n PROVE IntOf(Number(n)) = n
      BY DEF IntOf, Number
    <3> QED BY <1>2, <2>2, <3>1
  <2>4. PICK k \in 1..Len(texts) : k = r + 1 /\ k - 1 = r
    BY <2>2
  <2>5. /\ Ordered(texts', printed', k - 1) /\ length' = Len(texts'[k])
        /\ Coming(texts', arrived', wire', <<k, 0>>, Sent')
    BY <1>2, <1>5, <2>1, <2>2, <2>3, <2>4
  <2> QED BY <1>2, <2>5 DEF InStep
<1> QED BY <1>1, <1>2, <1>3, <1>4, <1>6, ReaderOK

\* The length of a text is one that CreateDataBuffer accepts.
LEMMA BufferFailsOK ==
  ASSUME IInv, BufferFails
  PROVE  IInv'
<1>1. /\ texts \in Seq(Seq(Words)) /\ wire \in Seq(Seq(Words)) /\ arrived \in Seq(Words)
      /\ length \in Nat /\ printed \in Seq(Seq(Words)) /\ split \in BOOLEAN
  BY DEF IInv, TypeOK
<1>2. /\ at = "text" /\ length = Huge /\ at' = "ended"
      /\ texts' = texts /\ pc' = pc /\ UNCHANGED server
      /\ wire' = wire /\ arrived' = arrived /\ printed' = printed /\ split' = split
      /\ length' = length
  BY DEF BufferFails, server
<1>3. ASSUME InStep PROVE FALSE
  <2>1. PICK r \in 1..Len(texts) : length = Len(texts[r])
    BY <1>2, <1>3 DEF InStep
  <2>2. texts[r] = ExitAnswer \/ \E n \in Lengths : texts[r] = Text(r, n)
    BY DEF IInv, Sound
  <2>3. CASE texts[r] = ExitAnswer
    <3>1. Len(texts[r]) = 1
      BY <2>3 DEF ExitAnswer
    <3> QED BY <1>2, <2>1, <3>1, LengthType
  <2>4. CASE \E n \in Lengths : texts[r] = Text(r, n)
    <3>1. PICK n \in Lengths : texts[r] = Text(r, n)
      BY <2>4
    <3>2. n \in Nat /\ n # Huge
      BY LengthType
    <3>3. r \in 0..MaxTexts
      BY <1>1, LenProperties, FramingAssumption DEF IInv, TypeOK
    <3>4. Len(texts[r]) = n
      BY <3>1, <3>2, <3>3, TextType
    <3> QED BY <1>2, <2>1, <3>2, <3>4
  <2> QED BY <2>2, <2>3, <2>4
<1> QED BY <1>1, <1>2, <1>3, ReaderOK

\* A text of no characters ends the thread.
LEMMA ReceiveNothingOK ==
  ASSUME IInv, ReceiveNothing
  PROVE  IInv'
<1>1. /\ texts \in Seq(Seq(Words)) /\ wire \in Seq(Seq(Words)) /\ arrived \in Seq(Words)
      /\ length \in Nat /\ printed \in Seq(Seq(Words)) /\ split \in BOOLEAN
  BY DEF IInv, TypeOK
<1>2. /\ at = "text" /\ length = 0 /\ at' = "ended"
      /\ texts' = texts /\ pc' = pc /\ UNCHANGED server
      /\ wire' = wire /\ arrived' = arrived /\ printed' = printed /\ split' = split
      /\ length' = length
  BY DEF ReceiveNothing, server
<1>3. ASSUME InStep PROVE InStep'
  <2>1. PICK r \in 1..Len(texts) : Ordered(texts, printed, r - 1) /\ length = Len(texts[r])
    BY <1>2, <1>3 DEF InStep
  <2>2. texts[r] \in Seq(Words) /\ DOMAIN texts = 1..Len(texts) /\ Len(texts) \in Nat
    BY <1>1, ElementOfSeq, LenProperties
  <2>3. texts[r] = <<>>
    BY <1>2, <2>1, <2>2, EmptySeq
  <2>4. r \in DOMAIN texts /\ r - 1 \in 0..Len(texts)
    BY <2>2
  <2> QED BY <1>2, <2>1, <2>3, <2>4 DEF InStep
<1> QED BY <1>1, <1>2, <1>3, ReaderOK

\* The characters of the next text are read, all of them unless the receive is cut.
LEMMA ReceiveSomeOK ==
  ASSUME IInv, ReceiveSome
  PROVE  IInv'
<1>1. /\ texts \in Seq(Seq(Words)) /\ wire \in Seq(Seq(Words)) /\ arrived \in Seq(Words)
      /\ length \in Nat /\ printed \in Seq(Seq(Words)) /\ split \in BOOLEAN
      /\ Len(texts) <= MaxTexts
  BY DEF IInv, TypeOK
<1>2. /\ at = "text" /\ length # 0 /\ arrived # <<>> /\ at' = "length"
      /\ texts' = texts /\ pc' = pc /\ mixed' = mixed /\ UNCHANGED server
      /\ wire' = wire /\ length' = length
  BY DEF ReceiveSome, server
<1>3. PICK got : got = Received(length)
  OBVIOUS
<1>4. /\ printed' = IF IntOf(got[1]) = 0 THEN printed ELSE Append(printed, got)
      /\ arrived' = SubSeq(arrived, Len(got) + 1, Len(arrived))
      /\ split' = (split \/ Len(got) < length)
  BY <1>3 DEF ReceiveSome
<1>5. PICK m \in Nat : m = Len(arrived)
  BY <1>1, LenProperties
<1>6. PICK n \in Nat : n = (IF length < m THEN length ELSE m) /\ n <= m
  BY <1>1
<1>7. got = SubSeq(arrived, 0 + 1, n)
  <2>1. 0 + 1 = 1
    OBVIOUS
  <2> QED BY <1>3, <1>5, <1>6, <2>1 DEF Received
<1>8. got \in Seq(Words) /\ Len(got) = n
  <2>1. 0 <= n /\ n <= Len(arrived) /\ 0 \in Nat /\ n - 0 = n
    BY <1>5, <1>6
  <2>2. /\ SubSeq(arrived, 0 + 1, n) \in Seq(Words) /\ Len(SubSeq(arrived, 0 + 1, n)) = n - 0
        /\ \A i \in 1..(n - 0) : SubSeq(arrived, 0 + 1, n)[i] = arrived[0 + i]
    BY <1>1, <2>1, PartOf, Zenon
  <2> QED BY <1>7, <2>1, <2>2
<1>9. arrived' \in Seq(Words)
  <2>1. n <= m /\ m <= Len(arrived)
    BY <1>5, <1>6
  <2>2. SubSeq(arrived, n + 1, m) \in Seq(Words)
    BY <1>1, <2>1, PartOf, Zenon
  <2> QED BY <1>4, <1>5, <1>8, <2>2
<1>10. printed' \in Seq(Seq(Words))
  BY <1>1, <1>4, <1>8, AppendProperties
<1>11. split' \in BOOLEAN /\ (split => split')
  BY <1>1, <1>4
<1>12. Sent' = Sent
  BY <1>2 DEF Sent
<1>13. ASSUME Undisturbed', InStep PROVE InStep'
  <2>1. PICK r \in 1..Len(texts) :
          /\ Ordered(texts, printed, r - 1) /\ length = Len(texts[r])
          /\ Coming(texts, arrived, wire, <<r, 0>>, Sent)
    BY <1>2, <1>13 DEF InStep
  <2>2. n = length /\ length <= m
    <3>1. ~(Len(got) < length)
      BY <1>4, <1>13 DEF Undisturbed
    <3>2. ~(n < length)
      BY <1>8, <3>1
    <3>3. CASE length < m
      BY <1>6, <3>2, <3>3
    <3>4. CASE ~(length < m)
      BY <1>1, <1>5, <1>6, <3>2, <3>4
    <3> QED BY <3>3, <3>4
  <2>3. /\ SubSeq(arrived, 1, Len(texts[r])) = texts[r]
        /\ Coming(texts, SubSeq(arrived, Len(texts[r]) + 1, Len(arrived)), wire,
                  <<r, Size(texts, r)>>, Sent)
    <3>1. Len(texts[r]) <= Len(arrived)
      BY <1>5, <2>1, <2>2
    <3> QED BY <1>1, <2>1, <3>1, TextComes
  <2>4. got = texts[r]
    <3>1. 0 + 1 = 1
      OBVIOUS
    <3> QED BY <1>7, <2>1, <2>2, <2>3, <3>1
  <2>5. Coming(texts', arrived', wire', <<r, Size(texts', r)>>, Sent')
    BY <1>2, <1>4, <1>12, <2>3, <2>4
  <2>6. texts[r] # <<>>
    <3>1. Len(<<>>) = 0
      OBVIOUS
    <3> QED BY <1>2, <2>1, <3>1
  <2>7. IntOf(texts[r][1]) = 0 <=> texts[r] = ExitAnswer
    <3>1. CASE texts[r] = ExitAnswer
      <4>1. texts[r][1] = Number(0)
        BY <3>1 DEF ExitAnswer
      <4> QED BY <3>1, <4>1 DEF IntOf, Number
    <3>2. CASE texts[r] # ExitAnswer
      <4>1. PICK k \in Lengths : texts[r] = Text(r, k)
        BY <3>2 DEF IInv, Sound
      <4>2. r \in 0..MaxTexts /\ k \in Nat /\ r # 0
        BY <1>1, LenProperties, LengthType, FramingAssumption
      <4>3. k # 0
        BY <1>2, <2>1, <4>1, <4>2, TextType
      <4>4. texts[r][1] = <<r, 1>>
        BY <4>1, <4>2, <4>3 DEF Text
      <4>5. IntOf(texts[r][1]) = Huge
        BY <4>2, <4>4 DEF IntOf
      <4> QED BY <3>2, <4>5, LengthType
    <3> QED BY <3>1, <3>2
  <2>8. Ordered(texts', printed', r)
    <3>1. /\ texts[r] \in {<<>>, ExitAnswer} => Ordered(texts, printed, r)
          /\ texts[r] \notin {<<>>, ExitAnswer}
               => Ordered(texts, Append(printed, texts[r]), r)
      BY <1>1, <2>1, OrderedNext
    <3>2. CASE texts[r] = ExitAnswer
      BY <1>2, <1>4, <2>4, <2>7, <3>1, <3>2
    <3>3. CASE texts[r] # ExitAnswer
      BY <1>2, <1>4, <2>4, <2>6, <2>7, <3>1, <3>3
    <3> QED BY <3>2, <3>3
  <2>9. r \in 0..Len(texts')
    BY <1>1, <1>2, LenProperties
  <2> QED BY <1>2, <2>5, <2>8, <2>9 DEF InStep
<1> QED BY <1>1, <1>2, <1>9, <1>10, <1>11, <1>13, ReaderOK

\* The loop is left between two texts.
LEMMA LeaveOK ==
  ASSUME IInv, Leave
  PROVE  IInv'
<1>1. /\ wire \in Seq(Seq(Words)) /\ arrived \in Seq(Words) /\ length \in Nat
      /\ printed \in Seq(Seq(Words)) /\ split \in BOOLEAN
  BY DEF IInv, TypeOK
<1>2. /\ at = "length" /\ at' = "left"
      /\ texts' = texts /\ UNCHANGED server
      /\ wire' = wire /\ arrived' = arrived /\ printed' = printed /\ split' = split
      /\ length' = length
  BY DEF Leave, server
<1>3. InStep => InStep'
  BY <1>2 DEF InStep
<1> QED BY <1>1, <1>2, <1>3, ReaderOK

---------------------------------------------------------------------------
(* The theorems.                                                            *)

\* Every step preserves the invariant.
LEMMA NextOK == IInv /\ [Next]_vars => IInv'
<1> SUFFICES ASSUME IInv, [Next]_vars PROVE IInv'
  OBVIOUS
<1>1. exiting \in BOOLEAN
  BY DEF IInv, TypeOK
<1>2. ASSUME NEW s \in Senders, SendLength(s) PROVE IInv'
  <2>1. PICK n \in Lengths : Announce(s, Text(Len(texts) + 1, n)) /\ exiting' = exiting
    BY <1>2 DEF SendLength
  <2> QED BY <1>1, <2>1, AnnounceOK
<1>3. ASSUME NEW s \in Senders, SendExitLength(s) PROVE IInv'
  <2>1. Announce(s, ExitAnswer) /\ exiting' \in BOOLEAN
    BY <1>3 DEF SendExitLength
  <2> QED BY <2>1, AnnounceOK
<1>4. ASSUME NEW s \in Senders, SendText(s) PROVE IInv'
  BY <1>4, SendTextOK
<1>5. CASE Arrive
  BY <1>5, ArriveOK
<1>6. CASE ReceiveLength
  BY <1>6, ReceiveLengthOK
<1>7. CASE BufferFails
  BY <1>7, BufferFailsOK
<1>8. CASE ReceiveNothing
  BY <1>8, ReceiveNothingOK
<1>9. CASE ReceiveSome
  BY <1>9, ReceiveSomeOK
<1>10. CASE Leave
  BY <1>10, LeaveOK
<1>11. CASE UNCHANGED vars
  <2>1. UNCHANGED server /\ UNCHANGED <<wire, arrived, at, length, printed, split>>
    BY <1>11 DEF vars, server
  <2>2. TypeOK' /\ Sound' /\ Turns' /\ (Undisturbed' => Undisturbed)
    BY <2>1 DEF IInv, server, TypeOK, Sound, Turns, Undisturbed
  <2>3. InStep => InStep'
    BY <2>1 DEF InStep, server, Sent
  <2> QED BY <2>2, <2>3 DEF IInv
<1> QED BY <1>2, <1>3, <1>4, <1>5, <1>6, <1>7, <1>8, <1>9, <1>10, <1>11
        DEF Next, Begin, Read

\* While the handlers take turns and no receive is cut, the words under way are the
\* rest of the texts, and the client has printed the texts before them.
THEOREM Inductive == Spec => []IInv
<1> QED BY InitOK, NextOK, PTL DEF Spec

\* Every variable has its type, and no two handlers are in one text.
THEOREM TypeCorrect == Spec => []TypeOK
<1>1. IInv => TypeOK
  BY DEF IInv
<1> QED BY <1>1, Inductive, PTL

\* FromServer prints the texts whole and in the order in which their lengths were sent,
\* unless two handlers sent at once or a receive returned a part of a text.
THEOREM PrintedCorrect == Spec => []PrintedAsSent
<1>1. ASSUME IInv PROVE PrintedAsSent
  <2>1. ASSUME Undisturbed PROVE \E n \in 0..Len(texts) : InOrder(n)
    <3>1. ASSUME NEW n, Ordered(texts, printed, n) PROVE InOrder(n)
      BY <3>1 DEF Ordered, ToBePrinted, InOrder, Printable, ToPrint
    <3>2. InStep /\ at \in {"length", "text", "ended", "left"} /\ Len(texts) \in Nat
      BY <1>1, <2>1, LenProperties DEF IInv, TypeOK
    <3>3. \E n \in 0..Len(texts) : Ordered(texts, printed, n)
      <4>1. CASE at = "text"
        <5>1. PICK r \in 1..Len(texts) : Ordered(texts, printed, r - 1)
          BY <3>2, <4>1 DEF InStep
        <5>2. r - 1 \in 0..Len(texts)
          BY <3>2
        <5> QED BY <5>1, <5>2
      <4>2. CASE at # "text"
        BY <3>2, <4>2 DEF InStep
      <4> QED BY <4>1, <4>2
    <3> QED BY <3>1, <3>3
  <2> QED BY <2>1 DEF PrintedAsSent
<1> QED BY <1>1, Inductive, PTL

\* The receiving thread ends only in those two ways or after a text of no characters.
THEOREM EndsCorrect == Spec => []EndsOnlyOnEmpty
<1>1. IInv => EndsOnlyOnEmpty
  BY DEF IInv, InStep, EndsOnlyOnEmpty
<1> QED BY <1>1, Inductive, PTL
=============================================================================
