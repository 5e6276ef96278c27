--------------------------- MODULE HashTableProofs ---------------------------
(***************************************************************************)
(* What holds of the hash table for any number of nodes, buckets, keys and   *)
(* values.  The pointers are read as places: every node of the table is in a *)
(* bucket, at a position of its chain, and the pointers lead from position    *)
(* to position.  From this follow that the links are sound, that the counting *)
(* of the keys misses none, and that the table implements EntryTable.         *)
(***************************************************************************)
EXTENDS HashTable, FiniteSetTheorems, WellFoundedInduction, TLAPS

---------------------------------------------------------------------------
(* The inductive invariant.                                                 *)

\* Node m of the table comes right behind node n.
Follows(in, pos, n, m) == in[m] = in[n] /\ pos[m] = pos[n] + 1

\* elems, next and back lead to the nodes at the first, the next and the previous
\* position, and no position before a node's is empty.
Arranged(in, pos) ==
  /\ \A b \in Buckets :
       elems[b] # NULL => elems[b] \in live /\ in[elems[b]] = b /\ pos[elems[b]] = 0
  /\ \A n \in live : pos[n] = 0 => elems[in[n]] = n
  /\ \A n, m \in live : next[n] = m <=> Follows(in, pos, n, m)
  /\ \A n, m \in live : back[m] = n <=> Follows(in, pos, n, m)
  /\ \A n \in live : next[n] \in live \cup {NULL} /\ back[n] \in live \cup {NULL}
  /\ \A n \in live, i \in Nat : i < pos[n] => \E m \in live : in[m] = in[n] /\ pos[m] = i

\* A node is in the bucket of its key, unless its key was cut.
Hashed(in) == \A n \in live : key[n] # Truncated => in[n] = HtHash[key[n]]

\* A search is in the bucket of its key, and has not passed a node with this key.
Searched(in, pos) ==
  Searching =>
    /\ call.at # NULL => call.at \in live /\ in[call.at] = HtHash[call.key]
    /\ \A n \in live : in[n] = HtHash[call.key] /\ (call.at = NULL \/ pos[n] < pos[call.at])
                         => key[n] # call.key

\* HtClear leaves no node behind.
Cleared(in) == Clearing => call.bucket \in 0..HashSize /\ \A n \in live : call.bucket <= in[n]

Placed(in, pos) == Arranged(in, pos) /\ Hashed(in) /\ Searched(in, pos) /\ Cleared(in)

IInv == TypeOK /\ \E in \in [Nodes -> Buckets], pos \in [Nodes -> Nat] : Placed(in, pos)

---------------------------------------------------------------------------
(* Arrangements.                                                            *)

\* A set of naturals that is not empty has a least element.
LEMMA LeastNatural ==
  ASSUME NEW S, S \subseteq Nat, S # {}
  PROVE  \E m \in S : \A k \in S : m <= k
<1>1. IsWellFoundedOn(OpToRel(<, Nat), Nat)
  BY NatLessThanWellFounded
<1>2. PICK m \in S : \A k \in S : ~ (<<k, m>> \in OpToRel(<, Nat))
  BY <1>1, WFMin
<1>3. \A k \in S : ~ (k < m)
  BY <1>2 DEF OpToRel
<1> QED BY <1>3

\* No two nodes of the table are at one place.
LEMMA PlacesDiffer ==
  ASSUME NEW in \in [Nodes -> Buckets], NEW pos \in [Nodes -> Nat], live \subseteq Nodes,
         Arranged(in, pos), NEW n \in live, NEW m \in live, in[n] = in[m], pos[n] = pos[m]
  PROVE  n = m
<1>1. CASE pos[n] = 0
  BY <1>1 DEF Arranged
<1>2. CASE pos[n] # 0
  <2>1. pos[n] - 1 \in Nat /\ pos[n] - 1 < pos[n]
    BY <1>2
  <2>2. PICK p \in live : in[p] = in[n] /\ pos[p] = pos[n] - 1
    BY <2>1 DEF Arranged
  <2>3. Follows(in, pos, p, n) /\ Follows(in, pos, p, m)
    BY <2>2 DEF Follows
  <2> QED BY <2>3 DEF Arranged
<1> QED BY <1>1, <1>2

\* A bucket without a first node has none.
LEMMA NoFirstNoNode ==
  ASSUME NEW in \in [Nodes -> Buckets], NEW pos \in [Nodes -> Nat], live \subseteq Nodes,
         Arranged(in, pos), NEW b \in Buckets, elems[b] = NULL
  PROVE  \A n \in live : in[n] # b
<1> SUFFICES ASSUME NEW n \in live, in[n] = b PROVE FALSE
  OBVIOUS
<1>1. \E m \in live : in[m] = b /\ pos[m] = 0
  <2>1. CASE pos[n] = 0
    BY <2>1
  <2>2. CASE pos[n] # 0
    <3>1. 0 \in Nat /\ 0 < pos[n]
      BY <2>2
    <3> QED BY <3>1 DEF Arranged
  <2> QED BY <2>1, <2>2
<1> QED BY <1>1, HashTableAssumption DEF Arranged

\* A node has no predecessor exactly at the first position, and no successor
\* exactly at the last one.
LEMMA Ends ==
  ASSUME NEW in \in [Nodes -> Buckets], NEW pos \in [Nodes -> Nat], live \subseteq Nodes,
         Arranged(in, pos), NEW n \in live
  PROVE  /\ back[n] = NULL <=> pos[n] = 0
         /\ next[n] = NULL <=> \A m \in live : ~ Follows(in, pos, n, m)
<1>1. pos[n] = 0 => back[n] = NULL
  BY DEF Arranged, Follows
<1>2. ASSUME pos[n] # 0 PROVE back[n] # NULL
  <2>1. pos[n] - 1 \in Nat /\ pos[n] - 1 < pos[n]
    BY <1>2
  <2>2. PICK p \in live : in[p] = in[n] /\ pos[p] = pos[n] - 1
    BY <2>1 DEF Arranged
  <2>3. Follows(in, pos, p, n)
    BY <2>2 DEF Follows
  <2> QED BY <2>3, HashTableAssumption DEF Arranged
<1>3. next[n] = NULL <=> \A m \in live : ~ Follows(in, pos, n, m)
  BY HashTableAssumption DEF Arranged
<1> QED BY <1>1, <1>2, <1>3

---------------------------------------------------------------------------
(* A node is linked into a bucket, and unlinked.                            *)

\* Where the nodes of bucket b are once n is linked behind the first one.
PlacedBehind(pos, in, b, n) ==
  [m \in Nodes |-> IF m = n THEN IF elems[b] = NULL THEN 0 ELSE 1
                   ELSE IF in[m] = b /\ pos[m] > 0 THEN pos[m] + 1 ELSE pos[m]]

\* HtSetKeyValue keeps the arrangement.
LEMMA LinkArranges ==
  ASSUME TypeOK, NEW in \in [Nodes -> Buckets], NEW pos \in [Nodes -> Nat], Arranged(in, pos),
         NEW b \in Buckets, NEW n \in Nodes \ live,
         live' = live \cup {n},
         IF elems[b] = NULL
         THEN /\ elems' = [elems EXCEPT ![b] = n]
              /\ next' = [next EXCEPT ![n] = NULL]
              /\ back' = [back EXCEPT ![n] = NULL]
         ELSE UNCHANGED elems /\ LinkBehind(elems[b], n),
         NEW inn, inn = [in EXCEPT ![n] = b],
         NEW poss, poss = PlacedBehind(pos, in, b, n)
  PROVE  Arranged(inn, poss)'
<1>1. /\ inn[n] = b /\ \A m \in live : inn[m] = in[m]
      /\ inn \in [Nodes -> Buckets]
  BY DEF TypeOK
<1>2. /\ poss[n] = IF elems[b] = NULL THEN 0 ELSE 1
      /\ \A m \in live : poss[m] = IF in[m] = b /\ pos[m] > 0 THEN pos[m] + 1 ELSE pos[m]
      /\ poss \in [Nodes -> Nat]
  BY DEF TypeOK, PlacedBehind
<1>3. live \subseteq Nodes /\ n \in Nodes /\ n \notin live /\ n # NULL
  BY HashTableAssumption DEF TypeOK
<1>4. CASE elems[b] = NULL
  <2>1. /\ elems'[b] = n /\ \A c \in Buckets \ {b} : elems'[c] = elems[c]
        /\ next'[n] = NULL /\ \A m \in live : next'[m] = next[m]
        /\ back'[n] = NULL /\ \A m \in live : back'[m] = back[m]
    BY <1>3, <1>4 DEF TypeOK
  <2>2. \A m \in live : in[m] # b /\ inn[m] # b /\ poss[m] = pos[m]
    BY <1>1, <1>2, <1>3, <1>4, NoFirstNoNode
  <2>3. /\ \A c \in Buckets :
             elems'[c] # NULL => elems'[c] \in live' /\ inn[elems'[c]] = c /\ poss[elems'[c]] = 0
        /\ \A m \in live' : poss[m] = 0 => elems'[inn[m]] = m
    <3>1. ASSUME NEW c \in Buckets, elems'[c] # NULL
          PROVE  elems'[c] \in live' /\ inn[elems'[c]] = c /\ poss[elems'[c]] = 0
      BY <1>1, <1>2, <1>4, <2>1, <2>2, <3>1 DEF Arranged
    <3>2. ASSUME NEW m \in live', poss[m] = 0 PROVE elems'[inn[m]] = m
      BY <1>1, <1>3, <2>1, <2>2, <3>2 DEF Arranged
    <3> QED BY <3>1, <3>2
  <2>4. \A x, y \in live' : next'[x] = y <=> Follows(inn, poss, x, y)
    BY <1>1, <1>2, <1>3, <1>4, <2>1, <2>2, HashTableAssumption DEF Arranged, Follows
  <2>5. \A x, y \in live' : back'[y] = x <=> Follows(inn, poss, x, y)
    BY <1>1, <1>2, <1>3, <1>4, <2>1, <2>2, HashTableAssumption DEF Arranged, Follows
  <2>6. \A x \in live' : next'[x] \in live' \cup {NULL} /\ back'[x] \in live' \cup {NULL}
    BY <2>1 DEF Arranged
  <2>7. ASSUME NEW x \in live', NEW i \in Nat, i < poss[x]
        PROVE  \E m \in live' : inn[m] = inn[x] /\ poss[m] = i
    BY <1>1, <1>2, <1>4, <2>2, <2>7 DEF Arranged
  <2> QED BY <2>3, <2>4, <2>5, <2>6, <2>7 DEF Arranged
<1>5. CASE elems[b] # NULL
  <2> DEFINE f == elems[b]
  <2>1. f \in live /\ in[f] = b /\ pos[f] = 0
    BY <1>5 DEF TypeOK, Arranged
  <2>2. /\ elems' = elems
        /\ next'[n] = next[f] /\ next'[f] = n
        /\ \A m \in live \ {f} : next'[m] = next[m]
    BY <1>3, <1>5, <2>1 DEF TypeOK, LinkBehind
  <2>3. /\ back'[n] = f /\ \A m \in live : back'[m] = IF m = next[f] THEN n ELSE back[m]
    BY <1>3, <1>5, <2>1 DEF TypeOK, LinkBehind
  <2>4. \A m \in live : in[m] = b /\ pos[m] = 0 => m = f
    BY <1>3, <2>1, PlacesDiffer
  <2>5. poss[n] = 1 /\ poss[f] = 0 /\ inn[f] = b
    BY <1>1, <1>2, <1>5, <2>1
  <2>6. \A m \in live : m = next[f] <=> in[m] = b /\ pos[m] = 1
    BY <2>1 DEF Arranged, Follows
  <2> HIDE DEF f
  <2>7. /\ \A c \in Buckets :
             elems'[c] # NULL => elems'[c] \in live' /\ inn[elems'[c]] = c /\ poss[elems'[c]] = 0
        /\ \A m \in live' : poss[m] = 0 => elems'[inn[m]] = m
    <3>1. ASSUME NEW c \in Buckets, elems'[c] # NULL
          PROVE  elems'[c] \in live' /\ inn[elems'[c]] = c /\ poss[elems'[c]] = 0
      <4>1. elems[c] \in live /\ in[elems[c]] = c /\ pos[elems[c]] = 0
        BY <2>2, <3>1 DEF Arranged
      <4> QED BY <1>1, <1>2, <2>2, <4>1
    <3>2. ASSUME NEW m \in live', poss[m] = 0 PROVE elems'[inn[m]] = m
      <4>1. m \in live /\ pos[m] \in Nat
        BY <1>3, <2>5, <3>2
      <4>2. pos[m] = 0 /\ inn[m] = in[m]
        BY <1>1, <1>2, <3>2, <4>1
      <4> QED BY <2>2, <4>1, <4>2 DEF Arranged
    <3> QED BY <3>1, <3>2
  <2>8. ASSUME NEW x \in live', NEW y \in live'
        PROVE  Follows(inn, poss, x, y) <=>
                 \/ x = f /\ y = n
                 \/ x = n /\ y \in live /\ in[y] = b /\ pos[y] = 1
                 \/ x \in live \ {f} /\ y \in live /\ Follows(in, pos, x, y)
    <3>1. CASE x = n /\ y = n
      BY <1>3, <2>1, <2>5, <3>1 DEF Follows
    <3>2. CASE x = n /\ y \in live
      <4>1. poss[x] = 1 /\ inn[x] = b /\ inn[y] = in[y]
        BY <1>1, <2>5, <3>2
      <4>2. in[y] = b => (poss[y] = 2 <=> pos[y] = 1)
        BY <1>2, <1>3, <3>2
      <4> QED BY <1>3, <2>1, <3>2, <4>1, <4>2 DEF Follows
    <3>3. CASE x = f /\ y = n
      BY <1>1, <2>5, <3>3 DEF Follows
    <3>4. CASE x = f /\ y \in live
      <4>1. in[y] = b => poss[y] # 1
        BY <1>2, <1>3, <3>4
      <4> QED BY <1>1, <1>3, <2>1, <2>5, <3>4, <4>1 DEF Follows
    <3>5. CASE x \in live \ {f} /\ y = n
      <4>1. in[x] = b => poss[x] # 0
        BY <1>2, <1>3, <2>4, <3>5
      <4> QED BY <1>1, <1>2, <1>3, <2>5, <3>5, <4>1 DEF Follows
    <3>6. CASE x \in live \ {f} /\ y \in live
      <4>1. in[x] = b => pos[x] > 0
        BY <1>3, <2>4, <3>6
      <4>2. in[x] \in Buckets /\ in[y] \in Buckets /\ pos[x] \in Nat /\ pos[y] \in Nat
        BY <1>3, <3>6
      <4> QED BY <1>1, <1>2, <1>3, <3>6, <4>1, <4>2 DEF Follows
    <3> QED BY <3>1, <3>2, <3>3, <3>4, <3>5, <3>6
  <2>9. \A x, y \in live' : next'[x] = y <=> Follows(inn, poss, x, y)
    <3>1. ASSUME NEW x \in live', NEW y \in live'
          PROVE  next'[x] = y <=> Follows(inn, poss, x, y)
      <4>1. CASE x = n
        <5>1. next'[x] = next[f]
          BY <2>2, <4>1
        <5>2. next[f] # n
          BY <1>3, <2>1 DEF Arranged
        <5>3. Follows(inn, poss, x, y) <=> y \in live /\ in[y] = b /\ pos[y] = 1
          BY <1>3, <2>1, <2>8, <4>1
        <5>4. y \in live => (next[f] = y <=> in[y] = b /\ pos[y] = 1)
          BY <2>6
        <5> QED BY <5>1, <5>2, <5>3, <5>4
      <4>2. CASE x = f
        BY <1>3, <2>1, <2>2, <2>8, <4>2
      <4>3. CASE x \in live \ {f}
        <5>1. next'[x] = next[x] /\ next[x] # n
          BY <1>3, <2>2, <4>3 DEF Arranged
        <5>2. y \in live => (next[x] = y <=> Follows(in, pos, x, y))
          BY <4>3 DEF Arranged
        <5> QED BY <1>3, <2>8, <4>3, <5>1, <5>2
      <4> QED BY <4>1, <4>2, <4>3
    <3> QED BY <3>1
  <2>10. \A x, y \in live' : back'[y] = x <=> Follows(inn, poss, x, y)
    <3>1. ASSUME NEW x \in live', NEW y \in live'
          PROVE  back'[y] = x <=> Follows(inn, poss, x, y)
      <4>1. CASE y = n
        BY <1>3, <2>1, <2>3, <2>8, <4>1
      <4>2. CASE y \in live /\ y = next[f]
        <5>1. back'[y] = n /\ in[y] = b /\ pos[y] = 1
          BY <2>3, <2>6, <4>2
        <5>2. Follows(in, pos, x, y) /\ x \in live => x = f
          <6>1. SUFFICES ASSUME Follows(in, pos, x, y), x \in live PROVE x = f
            OBVIOUS
          <6>2. in[x] = b /\ pos[x] + 1 = 1 /\ pos[x] \in Nat
            BY <1>3, <5>1, <6>1 DEF Follows
          <6>3. pos[x] = 0
            BY <6>2
          <6> QED BY <2>4, <6>1, <6>2, <6>3
        <5> QED BY <1>3, <2>8, <4>2, <5>1, <5>2
      <4>3. CASE y \in live /\ y # next[f]
        <5>1. back'[y] = back[y] /\ back[y] # n
          BY <1>3, <2>3, <4>3 DEF Arranged
        <5>2. x \in live => (back[y] = x <=> Follows(in, pos, x, y))
          BY <4>3 DEF Arranged
        <5>3. ~ Follows(in, pos, f, y) /\ ~ (in[y] = b /\ pos[y] = 1)
          BY <2>1, <2>6, <4>3 DEF Follows
        <5> QED BY <1>3, <2>1, <2>8, <4>3, <5>1, <5>2, <5>3
      <4> QED BY <4>1, <4>2, <4>3
    <3> QED BY <3>1
  <2>11. \A x \in live' : next'[x] \in live' \cup {NULL} /\ back'[x] \in live' \cup {NULL}
    BY <2>1, <2>2, <2>3 DEF Arranged
  <2>12. ASSUME NEW x \in live', NEW i \in Nat, i < poss[x]
         PROVE  \E m \in live' : inn[m] = inn[x] /\ poss[m] = i
    <3>1. CASE inn[x] # b
      <4>1. x \in live /\ in[x] = inn[x] /\ poss[x] = pos[x]
        BY <1>1, <1>2, <3>1
      <4>2. PICK m \in live : in[m] = in[x] /\ pos[m] = i
        BY <2>12, <4>1 DEF Arranged
      <4>3. inn[m] = in[m] /\ poss[m] = pos[m]
        BY <1>1, <1>2, <3>1, <4>1, <4>2
      <4> QED BY <4>1, <4>2, <4>3
    <3>2. CASE inn[x] = b /\ i = 0
      BY <2>1, <2>5, <3>2
    <3>3. CASE inn[x] = b /\ i = 1
      BY <1>1, <2>5, <3>3
    <3>4. CASE inn[x] = b /\ i > 1
      <4>1. x \in live /\ in[x] = b /\ i - 1 < pos[x] /\ i - 1 \in Nat
        <5>1. x # n
          BY <2>5, <2>12, <3>4
        <5>2. x \in live /\ pos[x] \in Nat /\ in[x] = b
          BY <1>1, <1>3, <3>4, <5>1
        <5> QED BY <1>2, <2>12, <3>4, <5>2
      <4>2. PICK m \in live : in[m] = b /\ pos[m] = i - 1
        BY <4>1 DEF Arranged
      <4>3. poss[m] = i /\ inn[m] = b
        BY <1>1, <1>2, <3>4, <4>2
      <4> QED BY <3>4, <4>3
    <3> QED BY <3>1, <3>2, <3>3, <3>4
  <2> QED BY <2>7, <2>9, <2>10, <2>11, <2>12 DEF Arranged
<1> QED BY <1>4, <1>5

\* Where the nodes are once n is unlinked: those behind it move up.
PlacedWithout(pos, in, n) ==
  [m \in Nodes |-> IF in[m] = in[n] /\ pos[m] > pos[n] THEN pos[m] - 1 ELSE pos[m]]

\* HtRemoveKey keeps the arrangement.
LEMMA UnlinkArranges ==
  ASSUME TypeOK, NEW in \in [Nodes -> Buckets], NEW pos \in [Nodes -> Nat], Arranged(in, pos),
         NEW n \in live, Unlink(n, in[n]),
         NEW poss, poss = PlacedWithout(pos, in, n)
  PROVE  poss \in [Nodes -> Nat] /\ Arranged(in, poss)'
<1> DEFINE b == in[n]  p == pos[n]
<1>1. live \subseteq Nodes /\ n \in Nodes /\ n # NULL /\ b \in Buckets /\ p \in Nat
      /\ live' = live \ {n} /\ NULL \notin live
  BY HashTableAssumption DEF TypeOK, Unlink
<1>2. poss \in [Nodes -> Nat]
  BY <1>1 DEF PlacedWithout
<1>3. \A m \in live : poss[m] = IF in[m] = b /\ pos[m] > p THEN pos[m] - 1 ELSE pos[m]
  BY <1>1 DEF PlacedWithout
<1>4. \A m \in live : in[m] = b /\ pos[m] = p => m = n
  BY <1>1, PlacesDiffer
<1>5. /\ back[n] = NULL <=> p = 0
      /\ \A m \in live : back[n] = m <=> in[m] = b /\ p = pos[m] + 1
      /\ \A m \in live : next[n] = m <=> in[m] = b /\ pos[m] = p + 1
      /\ next[n] \in live \cup {NULL} /\ back[n] \in live \cup {NULL}
      /\ next[n] # n /\ back[n] # n
  <2>1. back[n] = NULL <=> p = 0
    BY <1>1, Ends
  <2>2. \A m \in live : back[n] = m <=> in[m] = b /\ p = pos[m] + 1
    BY DEF Arranged, Follows
  <2>3. \A m \in live : next[n] = m <=> in[m] = b /\ pos[m] = p + 1
    BY DEF Arranged, Follows
  <2>4. next[n] \in live \cup {NULL} /\ back[n] \in live \cup {NULL}
    BY DEF Arranged
  <2>5. next[n] # n /\ back[n] # n
    BY <1>1, <2>2, <2>3
  <2> QED BY <2>1, <2>2, <2>3, <2>4, <2>5
<1>6. /\ \A m \in live' : next'[m] = IF m = back[n] THEN next[n] ELSE next[m]
      /\ \A m \in live' : back'[m] = IF m = next[n] THEN back[n] ELSE back[m]
      /\ IF back[n] = NULL
         THEN elems'[b] = next[n] /\ \A c \in Buckets \ {b} : elems'[c] = elems[c]
         ELSE elems' = elems
  <2>1. \A m \in live' : back'[m] = IF m = next[n] THEN back[n] ELSE back[m]
    BY <1>1 DEF Unlink, Blank
  <2>2. CASE back[n] = NULL
    BY <1>1, <2>1, <2>2 DEF Unlink, Blank, TypeOK
  <2>3. CASE back[n] # NULL
    BY <1>1, <1>5, <2>1, <2>3 DEF Unlink, Blank, TypeOK
  <2> QED BY <2>2, <2>3
<1> HIDE DEF b, p
<1>7. \A c \in Buckets :
        elems'[c] # NULL => elems'[c] \in live' /\ in[elems'[c]] = c /\ poss[elems'[c]] = 0
  <2>1. ASSUME NEW c \in Buckets, elems'[c] # NULL
        PROVE  elems'[c] \in live' /\ in[elems'[c]] = c /\ poss[elems'[c]] = 0
    <3>1. CASE back[n] = NULL /\ c = b
      <4> DEFINE m == next[n]
      <4>1. elems'[c] = m /\ m \in live /\ m # n /\ in[m] = b /\ pos[m] = 1 /\ p = 0
        BY <1>5, <1>6, <2>1, <3>1
      <4> HIDE DEF m
      <4> QED BY <1>1, <1>3, <3>1, <4>1
    <3>2. CASE ~(back[n] = NULL /\ c = b)
      <4> DEFINE m == elems[c]
      <4>1. elems'[c] = m
        BY <1>6, <3>2
      <4>2. m \in live /\ in[m] = c /\ pos[m] = 0
        BY <2>1, <4>1 DEF Arranged
      <4>3. m # n
        BY <1>5, <3>2, <4>2 DEF b, p
      <4> HIDE DEF m
      <4> QED BY <1>1, <1>3, <4>1, <4>2, <4>3
    <3> QED BY <3>1, <3>2
  <2> QED BY <2>1
<1>8. ASSUME NEW m \in live', poss[m] = 0 PROVE elems'[in[m]] = m
  <2>1. m \in live /\ m # n /\ in[m] \in Buckets /\ pos[m] \in Nat
    BY <1>1
  <2>2. CASE in[m] = b /\ p = 0
    <3>1. pos[m] # 0
      BY <1>4, <2>1, <2>2
    <3>2. pos[m] = 1
      BY <1>3, <1>8, <2>1, <2>2, <3>1
    <3> QED BY <1>5, <1>6, <2>1, <2>2, <3>2
  <2>3. CASE in[m] # b \/ p # 0
    <3>1. pos[m] = 0
      BY <1>1, <1>3, <1>8, <2>1, <2>3
    <3>2. elems[in[m]] = m
      BY <2>1, <3>1 DEF Arranged
    <3> QED BY <1>5, <1>6, <2>1, <2>3, <3>2
  <2> QED BY <2>2, <2>3
\* Two nodes follow each other when they did, or were around n.
<1>9. ASSUME NEW x \in live', NEW y \in live'
      PROVE  Follows(in, poss, x, y) <=>
               \/ x = back[n] /\ y = next[n]
               \/ x # back[n] /\ Follows(in, pos, x, y)
  <2>1. /\ x \in live /\ x # n /\ y \in live /\ y # n
        /\ pos[x] \in Nat /\ pos[y] \in Nat
    BY <1>1
  <2>2. /\ poss[x] = IF in[x] = b /\ pos[x] > p THEN pos[x] - 1 ELSE pos[x]
        /\ poss[y] = IF in[y] = b /\ pos[y] > p THEN pos[y] - 1 ELSE pos[y]
    BY <1>3, <2>1
  <2>3. (in[x] = b => pos[x] # p) /\ (in[y] = b => pos[y] # p)
    BY <1>4, <2>1
  <2>4. (x = back[n] <=> in[x] = b /\ p = pos[x] + 1) /\ (y = next[n] <=> in[y] = b /\ pos[y] = p + 1)
    BY <1>5, <2>1
  <2>5. CASE in[x] # in[y]
    BY <2>4, <2>5 DEF Follows
  <2>6. CASE in[x] = in[y] /\ in[x] # b
    BY <2>2, <2>4, <2>6 DEF Follows
  <2>7. CASE in[x] = in[y] /\ in[x] = b
    BY <1>1, <2>1, <2>2, <2>3, <2>4, <2>7 DEF Follows
  <2> QED BY <2>5, <2>6, <2>7
<1>10. \A x, y \in live' : next'[x] = y <=> Follows(in, poss, x, y)
  <2>1. ASSUME NEW x \in live', NEW y \in live'
        PROVE  next'[x] = y <=> Follows(in, poss, x, y)
    <3>1. x \in live /\ y \in live /\ (next[x] = y <=> Follows(in, pos, x, y))
      BY <1>1 DEF Arranged
    <3> QED BY <1>6, <1>9, <3>1
  <2> QED BY <2>1
<1>11. \A x, y \in live' : back'[y] = x <=> Follows(in, poss, x, y)
  <2>1. ASSUME NEW x \in live', NEW y \in live'
        PROVE  back'[y] = x <=> Follows(in, poss, x, y)
    <3>1. x \in live /\ y \in live /\ x # n /\ y # n
          /\ (back[y] = x <=> Follows(in, pos, x, y))
      BY <1>1 DEF Arranged
    <3>2. CASE y = next[n]
      <4>1. pos[y] = p + 1 /\ in[y] = b
        BY <1>5, <3>1, <3>2
      <4>2. Follows(in, pos, x, y) => FALSE
        BY <1>1, <1>4, <3>1, <4>1 DEF Follows
      <4> QED BY <1>6, <1>9, <3>2, <4>2
    <3>3. CASE y # next[n]
      <4>1. Follows(in, pos, x, y) => x # back[n]
        <5>1. SUFFICES ASSUME Follows(in, pos, x, y), x = back[n] PROVE FALSE
          OBVIOUS
        <5>2. in[x] = b /\ p = pos[x] + 1
          BY <1>5, <3>1, <5>1
        <5>3. in[y] = b /\ pos[y] = p
          BY <5>1, <5>2 DEF Follows
        <5> QED BY <1>4, <3>1, <5>3
      <4> QED BY <1>6, <1>9, <3>1, <3>3, <4>1
    <3> QED BY <3>2, <3>3
  <2> QED BY <2>1
<1>12. ASSUME NEW x \in live' PROVE next'[x] \in live' \cup {NULL} /\ back'[x] \in live' \cup {NULL}
  <2>1. x \in live /\ x # n /\ next[x] \in live \cup {NULL} /\ back[x] \in live \cup {NULL}
    BY <1>1 DEF Arranged
  <2>2. (next[x] = n => x = back[n]) /\ (back[x] = n => x = next[n])
    BY <2>1 DEF Arranged
  <2> QED BY <1>1, <1>5, <1>6, <2>1, <2>2
<1>13. ASSUME NEW x \in live', NEW i \in Nat, i < poss[x]
       PROVE  \E m \in live' : in[m] = in[x] /\ poss[m] = i
  <2>1. x \in live /\ x # n /\ pos[x] \in Nat
    BY <1>1
  <2>2. CASE in[x] # b
    <3>1. PICK m \in live : in[m] = in[x] /\ pos[m] = i
      BY <1>3, <1>13, <2>1, <2>2 DEF Arranged
    <3>2. m # n /\ poss[m] = i
      BY <1>3, <2>2, <3>1 DEF b
    <3> QED BY <1>1, <3>1, <3>2
  <2>3. CASE in[x] = b /\ i < p
    <3>1. i < pos[x]
      BY <1>1, <1>3, <1>13, <2>1, <2>3
    <3>2. PICK m \in live : in[m] = in[x] /\ pos[m] = i
      BY <2>1, <3>1 DEF Arranged
    <3>3. m # n /\ poss[m] = i
      BY <1>1, <1>3, <2>3, <3>2 DEF p
    <3> QED BY <1>1, <3>2, <3>3
  <2>4. CASE in[x] = b /\ ~(i < p)
    <3>1. i + 1 \in Nat /\ i + 1 < pos[x]
      BY <1>1, <1>3, <1>13, <2>1, <2>4
    <3>2. PICK m \in live : in[m] = in[x] /\ pos[m] = i + 1
      BY <2>1, <3>1 DEF Arranged
    <3>3. m # n /\ poss[m] = i
      BY <1>1, <1>3, <2>4, <3>2 DEF p
    <3> QED BY <1>1, <3>2, <3>3
  <2> QED BY <2>2, <2>3, <2>4
<1> QED BY <1>2, <1>7, <1>8, <1>10, <1>11, <1>12, <1>13 DEF Arranged

---------------------------------------------------------------------------
(* The invariant is inductive.                                              *)

\* A call is one of its kinds, and these differ.
LEMMA CallKinds ==
  /\ NoCall \notin Searches /\ NoCall.op # "clear"
  /\ \A c \in Searches : c.op # "clear" /\ c # NoCall
  /\ \A c \in Clears : c \notin Searches /\ c.op = "clear" /\ c.bucket \in Nat
BY DEF NoCall, Searches, Clears

\* Where only the call changes, the nodes stay in their places.
LEMMA CallInvariant ==
  ASSUME TypeOK, NEW in \in [Nodes -> Buckets], NEW pos \in [Nodes -> Nat], Placed(in, pos),
         UNCHANGED <<elems, next, back, key, value, live, size>>,
         call' \in {NoCall} \cup Searches \cup Clears,
         Searched(in, pos)', Cleared(in)'
  PROVE  IInv'
<1>1. TypeOK'
  BY DEF TypeOK
<1>2. Arranged(in, pos)' /\ Hashed(in)'
  BY DEF Placed, Arranged, Hashed
<1> QED BY <1>1, <1>2 DEF IInv, Placed

\* A call that returns, or has not begun, is no search and no clearing.
LEMMA ReturnInvariant ==
  ASSUME IInv, UNCHANGED <<elems, next, back, key, value, live, size>>, call' = NoCall
  PROVE  IInv'
<1>1. PICK in \in [Nodes -> Buckets], pos \in [Nodes -> Nat] : Placed(in, pos)
  BY DEF IInv
<1>2. Searched(in, pos)' /\ Cleared(in)'
  BY CallKinds DEF Searched, Cleared, Searching, Clearing
<1> QED BY <1>1, <1>2, CallInvariant DEF IInv

\* The empty table.
LEMMA InitInvariant == Init => IInv
<1> SUFFICES ASSUME Init PROVE IInv
  OBVIOUS
<1> DEFINE in == [n \in Nodes |-> 0]  pos == [n \in Nodes |-> 0]
<1>1. in \in [Nodes -> Buckets] /\ pos \in [Nodes -> Nat]
  BY HashTableAssumption DEF Buckets
<1>2. AnyValue \in Values
  BY HashTableAssumption DEF AnyValue
<1>3. TypeOK
  BY <1>2, FS_EmptySet DEF Init, TypeOK, Pointers, StoredKeys
<1>4. Arranged(in, pos) /\ Hashed(in)
  BY DEF Init, Arranged, Hashed
<1>5. Searched(in, pos) /\ Cleared(in)
  BY CallKinds DEF Init, Searched, Cleared, Searching, Clearing
<1> QED BY <1>1, <1>3, <1>4, <1>5 DEF IInv, Placed

\* A new node, behind the first of the bucket of its key.
LEMMA SetInvariant ==
  ASSUME IInv, NEW k \in Keys, NEW v \in Values, HtSetKeyValue(k, v)
  PROVE  IInv'
<1> DEFINE b == HtHash[k]
<1>1. PICK in \in [Nodes -> Buckets], pos \in [Nodes -> Nat] : Placed(in, pos)
  BY DEF IInv
<1>2. PICK n \in Nodes \ live :
        /\ key' = [key EXCEPT ![n] = StoredKey(k)]
        /\ value' = [value EXCEPT ![n] = v]
        /\ live' = live \cup {n}
        /\ IF elems[b] = NULL
           THEN /\ elems' = [elems EXCEPT ![b] = n]
                /\ next' = [next EXCEPT ![n] = NULL]
                /\ back' = [back EXCEPT ![n] = NULL]
           ELSE UNCHANGED elems /\ LinkBehind(elems[b], n)
  BY DEF HtSetKeyValue
<1>3. call = NoCall /\ call' = NoCall /\ size' = size + 1
  BY DEF HtSetKeyValue
<1>4. b \in Buckets /\ live \subseteq Nodes
  BY HashTableAssumption DEF IInv, TypeOK
<1>5. StoredKey(k) \in StoredKeys /\ (StoredKey(k) # Truncated => StoredKey(k) = k)
  BY DEF StoredKey, StoredKeys
<1> HIDE DEF b
<1>6. PICK inn \in [Nodes -> Buckets], poss \in [Nodes -> Nat] :
        inn = [in EXCEPT ![n] = b] /\ poss = PlacedBehind(pos, in, b, n)
  <2>1. [in EXCEPT ![n] = b] \in [Nodes -> Buckets]
    BY <1>4
  <2>2. PlacedBehind(pos, in, b, n) \in [Nodes -> Nat]
    BY DEF PlacedBehind
  <2> QED BY <2>1, <2>2
<1>7. Arranged(inn, poss)'
  <2>1. TypeOK /\ Arranged(in, pos)
    BY <1>1 DEF IInv, Placed
  <2> QED BY <1>2, <1>4, <1>6, <2>1, LinkArranges
<1>8. Hashed(inn)'
  <2>1. ASSUME NEW m \in live', key'[m] # Truncated PROVE inn[m] = HtHash[key'[m]]
    <3>1. CASE m = n
      BY <1>2, <1>5, <1>6, <2>1, <3>1 DEF IInv, TypeOK, b
    <3>2. CASE m # n
      <4>1. m \in live /\ key'[m] = key[m] /\ inn[m] = in[m]
        BY <1>2, <1>4, <1>6, <2>1, <3>2 DEF IInv, TypeOK
      <4> QED BY <1>1, <2>1, <4>1 DEF Placed, Hashed
    <3> QED BY <3>1, <3>2
  <2> QED BY <2>1 DEF Hashed
<1>9. Searched(inn, poss)' /\ Cleared(inn)'
  BY <1>3, CallKinds DEF Searched, Cleared, Searching, Clearing
<1>10. TypeOK'
  <2>1. size' = Cardinality(live')
    <3>1. IsFiniteSet(live)
      BY <1>4, HashTableAssumption, FS_Subset
    <3> QED BY <1>2, <1>3, <3>1, FS_AddElement DEF IInv, TypeOK
  <2>2. elems' \in [Buckets -> Pointers]
    BY <1>2 DEF IInv, TypeOK, Pointers
  <2>3. next' \in [Nodes -> Pointers] /\ back' \in [Nodes -> Pointers]
    <3>1. CASE elems[b] = NULL
      BY <1>2, <3>1 DEF IInv, TypeOK, Pointers
    <3>2. CASE elems[b] # NULL
      <4>1. elems[b] \in Nodes
        BY <1>4, <3>2 DEF IInv, TypeOK, Pointers
      <4> QED BY <1>2, <3>2, <4>1 DEF LinkBehind, IInv, TypeOK, Pointers
    <3> QED BY <3>1, <3>2
  <2>4. key' \in [Nodes -> StoredKeys] /\ value' \in [Nodes -> Values] /\ live' \subseteq Nodes
    BY <1>2, <1>5 DEF IInv, TypeOK
  <2> QED BY <1>3, <2>1, <2>2, <2>3, <2>4 DEF TypeOK
<1>11. Placed(inn, poss)'
  BY <1>7, <1>8, <1>9 DEF Placed
<1> QED BY <1>6, <1>10, <1>11 DEF IInv

\* A search begins at the first node of the bucket.
LEMMA SearchInvariant ==
  ASSUME IInv, NEW op \in {"has", "get", "remove"}, NEW k \in Keys, Search(op, k)
  PROVE  IInv'
<1>1. PICK in \in [Nodes -> Buckets], pos \in [Nodes -> Nat] : Placed(in, pos)
  BY DEF IInv
<1>2. /\ call' = [op |-> op, key |-> k, at |-> elems[HtHash[k]]]
      /\ UNCHANGED <<elems, next, back, key, value, live, size>>
  BY DEF Search
<1>3. HtHash[k] \in Buckets /\ live \subseteq Nodes
  BY HashTableAssumption DEF IInv, TypeOK
<1>4. call' \in Searches
  BY <1>2, <1>3 DEF IInv, TypeOK, Searches
<1>5. call'.at = elems[HtHash[k]] /\ call'.key = k
  BY <1>2
<1>6. elems[HtHash[k]] # NULL =>
        /\ elems[HtHash[k]] \in live /\ in[elems[HtHash[k]]] = HtHash[k]
        /\ pos[elems[HtHash[k]]] = 0
  BY <1>1, <1>3 DEF Placed, Arranged
<1>7. elems[HtHash[k]] = NULL => \A n \in live : in[n] # HtHash[k]
  BY <1>1, <1>3, NoFirstNoNode DEF Placed
<1>8. \A n \in live : pos[n] \in Nat /\ ~(pos[n] < 0)
  BY <1>3
<1>9. Searched(in, pos)'
  BY <1>2, <1>5, <1>6, <1>7, <1>8 DEF Searched
<1>10. Cleared(in)'
  BY <1>4, CallKinds DEF Cleared, Clearing
<1> QED BY <1>1, <1>2, <1>4, <1>9, <1>10, CallInvariant DEF IInv

\* It goes on to the next one: only the node it leaves is new among the passed.
LEMMA WalkInvariant ==
  ASSUME IInv, Walk
  PROVE  IInv'
<1>1. PICK in \in [Nodes -> Buckets], pos \in [Nodes -> Nat] : Placed(in, pos)
  BY DEF IInv
<1> DEFINE at == call.at  b == HtHash[call.key]
<1>2. /\ call \in Searches /\ at # NULL /\ key[at] # call.key
      /\ call' = [call EXCEPT !.at = next[at]]
      /\ UNCHANGED <<elems, next, back, key, value, live, size>>
  BY DEF Walk, Searching
<1>3. at \in live /\ in[at] = b /\ live \subseteq Nodes /\ b \in Buckets
  BY <1>1, <1>2, HashTableAssumption DEF Placed, Searched, Searching, Searches, IInv, TypeOK
<1>4. call'.key = call.key /\ call'.at = next[at] /\ call'.op = call.op
  BY <1>2 DEF Searches
<1>5. call' \in Searches
  <2>1. next[at] \in Pointers
    BY <1>3 DEF IInv, TypeOK
  <2> QED BY <1>2, <2>1 DEF Searches
<1>6. next[at] # NULL => next[at] \in live /\ in[next[at]] = b /\ pos[next[at]] = pos[at] + 1
  BY <1>1, <1>3 DEF Placed, Arranged, Follows
<1>7. ASSUME NEW n \in live, in[n] = b, next[at] = NULL \/ pos[n] < pos[next[at]]
      PROVE  key[n] # call.key
  <2>1. pos[n] \in Nat /\ pos[at] \in Nat
    BY <1>3
  <2>2. pos[n] <= pos[at]
    <3>1. CASE next[at] # NULL
      BY <1>6, <1>7, <2>1, <3>1
    <3>2. CASE next[at] = NULL
      <4>1. \A m \in live : ~ Follows(in, pos, at, m)
        BY <1>1, <1>3, <3>2, Ends DEF Placed
      <4>2. SUFFICES ASSUME pos[n] > pos[at] PROVE FALSE
        BY <2>1
      <4>3. pos[at] + 1 \in Nat /\ (pos[at] + 1 < pos[n] \/ pos[at] + 1 = pos[n])
        BY <2>1, <4>2
      <4>4. \E m \in live : in[m] = in[n] /\ pos[m] = pos[at] + 1
        BY <1>1, <4>3 DEF Placed, Arranged
      <4> QED BY <1>3, <1>7, <4>1, <4>4 DEF Follows
    <3> QED BY <3>1, <3>2
  <2>3. CASE pos[n] < pos[at]
    BY <1>1, <1>2, <1>7, <2>3 DEF Placed, Searched, Searching
  <2>4. CASE pos[n] = pos[at]
    <3>1. n = at
      BY <1>1, <1>3, <1>7, <2>4, PlacesDiffer DEF Placed
    <3> QED BY <1>2, <3>1
  <2> QED BY <2>1, <2>2, <2>3, <2>4
<1>8. Searched(in, pos)'
  BY <1>2, <1>4, <1>6, <1>7 DEF Searched
<1>9. Cleared(in)'
  BY <1>5, CallKinds DEF Cleared, Clearing
<1> QED BY <1>1, <1>2, <1>5, <1>8, <1>9, CallInvariant DEF IInv

\* What a removed node takes with it.
LEMMA UnlinkInvariant ==
  ASSUME TypeOK, NEW in \in [Nodes -> Buckets], NEW pos \in [Nodes -> Nat],
         Arranged(in, pos), Hashed(in),
         NEW n \in live, Unlink(n, in[n]), size' = size - 1,
         call' \in {NoCall} \cup Clears, Cleared(in)'
  PROVE  IInv'
<1> DEFINE poss == PlacedWithout(pos, in, n)
<1>1. poss \in [Nodes -> Nat] /\ Arranged(in, poss)'
  <2> HIDE DEF poss
  <2> QED BY UnlinkArranges DEF poss
<1>2. /\ live \subseteq Nodes /\ n \in Nodes /\ live' = live \ {n}
      /\ key' = [key EXCEPT ![n] = Truncated] /\ value' = [value EXCEPT ![n] = AnyValue]
  BY DEF TypeOK, Unlink
<1>3. Hashed(in)'
  <2>1. \A m \in live' : m \in live /\ key'[m] = key[m]
    BY <1>2 DEF TypeOK
  <2> QED BY <2>1 DEF Hashed
<1>4. Searched(in, poss)'
  BY CallKinds DEF Searched, Searching
<1>5. TypeOK'
  <2>1. size' = Cardinality(live')
    <3>1. IsFiniteSet(live)
      BY <1>2, HashTableAssumption, FS_Subset
    <3> QED BY <1>2, <3>1, FS_RemoveElement DEF TypeOK
  <2>2. key' \in [Nodes -> StoredKeys] /\ value' \in [Nodes -> Values] /\ live' \subseteq Nodes
    BY <1>2, HashTableAssumption DEF TypeOK, StoredKeys, AnyValue
  <2>3. next[n] \in Pointers /\ back[n] \in Pointers
    BY <1>2 DEF TypeOK
  <2>4. elems' \in [Buckets -> Pointers]
    BY <1>2, <2>3 DEF TypeOK, Unlink
  <2>5. back' \in [Nodes -> Pointers]
    <3> DEFINE g == [m \in Nodes |-> IF m = next[n] THEN back[n] ELSE back[m]]
    <3>1. g \in [Nodes -> Pointers] /\ back' = [g EXCEPT ![n] = NULL]
      BY <2>3 DEF TypeOK, Unlink, Blank
    <3> HIDE DEF g
    <3> QED BY <3>1 DEF Pointers
  <2>6. next' \in [Nodes -> Pointers]
    <3>1. CASE back[n] = NULL
      BY <3>1 DEF TypeOK, Unlink, Blank, Pointers
    <3>2. CASE back[n] # NULL
      <4> DEFINE g == [next EXCEPT ![back[n]] = next[n]]
      <4>1. g \in [Nodes -> Pointers] /\ next' = [g EXCEPT ![n] = NULL]
        BY <2>3, <3>2 DEF TypeOK, Unlink, Blank
      <4> HIDE DEF g
      <4> QED BY <4>1 DEF Pointers
    <3> QED BY <3>1, <3>2
  <2> QED BY <2>1, <2>2, <2>4, <2>5, <2>6 DEF TypeOK
<1> HIDE DEF poss
<1> QED BY <1>1, <1>3, <1>4, <1>5 DEF IInv, Placed

\* HtRemoveKey takes away the node it found.
LEMMA FoundRemoveInvariant ==
  ASSUME IInv, FoundRemove
  PROVE  IInv'
<1>1. PICK in \in [Nodes -> Buckets], pos \in [Nodes -> Nat] : Placed(in, pos)
  BY DEF IInv
<1>2. /\ Searching /\ call.at # NULL /\ Unlink(call.at, HtHash[call.key])
      /\ size' = size - 1 /\ call' = NoCall
  BY DEF FoundRemove, Hit
<1>3. call.at \in live /\ in[call.at] = HtHash[call.key]
  BY <1>1, <1>2 DEF Placed, Searched
<1>4. Cleared(in)'
  BY <1>2, CallKinds DEF Cleared, Clearing
<1> QED BY <1>1, <1>2, <1>3, <1>4, UnlinkInvariant DEF IInv, Placed

\* A clearing call is of its type.
LEMMA ClearType ==
  ASSUME IInv, Clearing
  PROVE  call \in Clears
BY CallKinds DEF IInv, TypeOK, Clearing

\* HtClear takes away the first node of the bucket it is at.
LEMMA ClearNodeInvariant ==
  ASSUME IInv, ClearNode
  PROVE  IInv'
<1>1. PICK in \in [Nodes -> Buckets], pos \in [Nodes -> Nat] : Placed(in, pos)
  BY DEF IInv
<1>2. /\ Clearing /\ call.bucket \in Buckets /\ elems[call.bucket] # NULL
      /\ Unlink(elems[call.bucket], call.bucket) /\ size' = size - 1 /\ call' = call
  BY DEF ClearNode
<1>3. elems[call.bucket] \in live /\ in[elems[call.bucket]] = call.bucket
  BY <1>1, <1>2 DEF Placed, Arranged
<1>4. call' \in Clears
  BY <1>2, ClearType
<1>5. live' \subseteq live
  BY <1>2 DEF Unlink
<1>6. Cleared(in)'
  BY <1>1, <1>2, <1>5 DEF Placed, Cleared, Clearing
<1> QED BY <1>1, <1>2, <1>3, <1>4, <1>6, UnlinkInvariant DEF IInv, Placed

\* It leaves a bucket only when no node is left there.
LEMMA ClearNextBucketInvariant ==
  ASSUME IInv, ClearNextBucket
  PROVE  IInv'
<1>1. PICK in \in [Nodes -> Buckets], pos \in [Nodes -> Nat] : Placed(in, pos)
  BY DEF IInv
<1>2. /\ Clearing /\ call.bucket \in Buckets /\ elems[call.bucket] = NULL
      /\ call' = [call EXCEPT !.bucket = @ + 1]
      /\ UNCHANGED <<elems, next, back, key, value, live, size>>
  BY DEF ClearNextBucket
<1>3. call \in Clears /\ HashSize \in Nat
  BY <1>2, ClearType, HashTableAssumption
<1>4. call' \in Clears /\ call'.bucket = call.bucket + 1 /\ call'.op = "clear"
  BY <1>2, <1>3 DEF Clears
<1>5. \A n \in live : in[n] # call.bucket /\ call.bucket <= in[n]
  <2>1. \A n \in live : in[n] # call.bucket
    BY <1>1, <1>2, NoFirstNoNode DEF Placed, IInv, TypeOK
  <2> QED BY <1>1, <1>2, <2>1 DEF Placed, Cleared
<1>6. Cleared(in)'
  <2>1. \A n \in live : in[n] \in Nat
    BY HashTableAssumption DEF IInv, TypeOK, Buckets
  <2>2. call.bucket + 1 \in 0..HashSize
    BY <1>2, <1>3 DEF Buckets
  <2>3. \A n \in live : call.bucket + 1 <= in[n]
    BY <1>2, <1>3, <1>5, <2>1 DEF Buckets
  <2> QED BY <1>2, <1>4, <2>2, <2>3 DEF Cleared
<1>7. Searched(in, pos)'
  BY <1>4, CallKinds DEF Searched, Searching
<1> QED BY <1>1, <1>2, <1>4, <1>6, <1>7, CallInvariant DEF IInv

\* It begins at the first bucket.
LEMMA HtClearInvariant ==
  ASSUME IInv, HtClear
  PROVE  IInv'
<1>1. PICK in \in [Nodes -> Buckets], pos \in [Nodes -> Nat] : Placed(in, pos)
  BY DEF IInv
<1>2. /\ call' = [op |-> "clear", bucket |-> 0]
      /\ UNCHANGED <<elems, next, back, key, value, live, size>>
  BY DEF HtClear
<1>3. call' \in Clears /\ call'.bucket = 0
  BY <1>2 DEF Clears
<1>4. Cleared(in)'
  <2>1. \A n \in live : 0 <= in[n]
    BY HashTableAssumption DEF IInv, TypeOK, Buckets
  <2> QED BY <1>2, <1>3, <2>1, HashTableAssumption DEF Cleared
<1>5. Searched(in, pos)'
  BY <1>3, CallKinds DEF Searched, Searching
<1> QED BY <1>1, <1>2, <1>3, <1>4, <1>5, CallInvariant DEF IInv

\* Every step keeps the invariant.
LEMMA NextInvariant == IInv /\ [Next]_vars => IInv'
<1> SUFFICES ASSUME IInv, [Next]_vars PROVE IInv'
  OBVIOUS
<1>1. CASE UNCHANGED vars
  <2>1. PICK in \in [Nodes -> Buckets], pos \in [Nodes -> Nat] : Placed(in, pos)
    BY DEF IInv
  <2>2. Searched(in, pos)' /\ Cleared(in)'
    BY <1>1, <2>1 DEF vars, Placed, Searched, Searching, Cleared, Clearing
  <2>3. call' \in {NoCall} \cup Searches \cup Clears
    BY <1>1 DEF vars, IInv, TypeOK
  <2> QED BY <1>1, <2>1, <2>2, <2>3, CallInvariant DEF vars, IInv
<1>2. ASSUME NEW k \in Keys, NEW v \in Values, HtSetKeyValue(k, v) PROVE IInv'
  BY <1>2, SetInvariant
<1>3. ASSUME NEW k \in Keys, HtSetKeyValueFails(k) PROVE IInv'
  BY <1>3, ReturnInvariant DEF HtSetKeyValueFails
<1>4. ASSUME NEW k \in Keys, NEW op \in {"has", "get", "remove"}, Search(op, k) PROVE IInv'
  BY <1>4, SearchInvariant
<1>5. CASE Walk
  BY <1>5, WalkInvariant
<1>6. CASE NotFound \/ FoundHas \/ FoundGet
  BY <1>6, ReturnInvariant DEF NotFound, FoundHas, FoundGet
<1>7. CASE FoundRemove
  BY <1>7, FoundRemoveInvariant
<1>8. CASE HtClear
  BY <1>8, HtClearInvariant
<1>9. CASE ClearNode
  BY <1>9, ClearNodeInvariant
<1>10. CASE ClearNextBucket
  BY <1>10, ClearNextBucketInvariant
<1>11. CASE ClearEnds
  BY <1>11, ReturnInvariant DEF ClearEnds
<1>12. CASE ClearInVain
  BY <1>1, <1>12 DEF ClearInVain
<1> QED BY <1>1, <1>2, <1>3, <1>4, <1>5, <1>6, <1>7, <1>8, <1>9, <1>10, <1>11, <1>12 DEF Next

\* In every state the nodes are in places, with the pointers and the call under way
\* as these say.
THEOREM Inductive == Spec => []IInv
BY InitInvariant, NextInvariant, PTL DEF Spec

---------------------------------------------------------------------------
(* The invariants of the runs.                                              *)

\* Every reachable state of the table is well typed, and Size is the number of
\* its nodes.
THEOREM TypeCorrect == Spec => []TypeOK
<1>1. IInv => TypeOK
  BY DEF IInv
<1> QED BY <1>1, Inductive, PTL

\* HtClear stays in the table while there is a node left.
THEOREM ClearCorrect == Spec => []ClearStaysInTable
<1>1. ASSUME IInv PROVE ClearStaysInTable
  <2>1. PICK in \in [Nodes -> Buckets], pos \in [Nodes -> Nat] : Placed(in, pos)
    BY <1>1 DEF IInv
  <2>2. SUFFICES ASSUME Clearing, size > 0 PROVE call.bucket \in Buckets
    BY DEF ClearStaysInTable
  <2>3. PICK n : n \in live
    <3>1. size = Cardinality(live)
      BY <1>1 DEF IInv, TypeOK
    <3>2. live # {}
      BY <2>2, <3>1, FS_EmptySet
    <3> QED BY <3>2
  <2>4. call.bucket \in 0..HashSize /\ call.bucket <= in[n]
    BY <2>1, <2>2, <2>3 DEF Placed, Cleared
  <2>5. in[n] \in Buckets
    BY <1>1, <2>3 DEF IInv, TypeOK
  <2> QED BY <2>4, <2>5, HashTableAssumption DEF Buckets
<1> QED BY <1>1, Inductive, PTL

\* The chains are sound: PNext and PBack are inverse, and neither they nor the
\* node a search is at lead to a freed node, and HtClear stays in the table.
THEOREM LinksCorrect == Spec => []Linked
<1>1. ASSUME IInv, ClearStaysInTable PROVE Linked
  <2>1. PICK in \in [Nodes -> Buckets], pos \in [Nodes -> Nat] : Placed(in, pos)
    BY <1>1 DEF IInv
  <2>2. live \subseteq Nodes /\ Arranged(in, pos) /\ NULL \notin live
    BY <1>1, <2>1, HashTableAssumption DEF IInv, TypeOK, Placed
  <2>3. ASSUME NEW b \in Buckets, elems[b] # NULL
        PROVE  elems[b] \in live /\ back[elems[b]] = NULL
    BY <2>2, <2>3, Ends DEF Arranged
  <2>4. ASSUME NEW n \in live, next[n] # NULL
        PROVE  next[n] \in live /\ back[next[n]] = n
    <3>1. next[n] \in live
      BY <2>2, <2>4 DEF Arranged
    <3> QED BY <2>2, <3>1 DEF Arranged
  <2>5. ASSUME NEW n \in live, back[n] = NULL
        PROVE  \E b \in Buckets : elems[b] = n
    <3>1. pos[n] = 0
      BY <2>2, <2>5, Ends
    <3>2. elems[in[n]] = n /\ in[n] \in Buckets
      BY <2>2, <3>1 DEF Arranged
    <3> QED BY <3>2
  <2>6. ASSUME NEW n \in live, back[n] # NULL
        PROVE  back[n] \in live /\ next[back[n]] = n
    <3>1. back[n] \in live
      BY <2>2, <2>6 DEF Arranged
    <3> QED BY <2>2, <3>1 DEF Arranged
  <2>7. Searching => call.at \in live \cup {NULL}
    BY <2>1 DEF Placed, Searched
  <2>8. \A n \in live : next[n] # NULL => next[n] \in live /\ back[next[n]] = n
    BY <2>4
  <2>9. \A n \in live : IF back[n] = NULL THEN \E b \in Buckets : elems[b] = n
                         ELSE back[n] \in live /\ next[back[n]] = n
    BY <2>5, <2>6
  <2> QED BY <1>1, <2>3, <2>7, <2>8, <2>9 DEF Linked
<1> QED BY <1>1, Inductive, ClearCorrect, PTL

---------------------------------------------------------------------------
(* The chain of a bucket, and the places of the nodes.                      *)

\* The node at position k of bucket b, or NULL.
NodeAt(in, pos, b, k) ==
  IF \E n \in live : in[n] = b /\ pos[n] = k
  THEN CHOOSE n \in live : in[n] = b /\ pos[n] = k ELSE NULL

\* What NodeAt names is the node of the table there, if there is one.
LEMMA NodeAtIs ==
  ASSUME NEW in \in [Nodes -> Buckets], NEW pos \in [Nodes -> Nat], live \subseteq Nodes,
         Arranged(in, pos), NEW b, NEW k
  PROVE  /\ \A n \in live : in[n] = b /\ pos[n] = k => NodeAt(in, pos, b, k) = n
         /\ NodeAt(in, pos, b, k) # NULL =>
              /\ NodeAt(in, pos, b, k) \in live
              /\ in[NodeAt(in, pos, b, k)] = b /\ pos[NodeAt(in, pos, b, k)] = k
         /\ NodeAt(in, pos, b, k) = NULL => \A n \in live : ~ (in[n] = b /\ pos[n] = k)
<1>1. CASE \E n \in live : in[n] = b /\ pos[n] = k
  <2>1. PICK m : m = NodeAt(in, pos, b, k)
    OBVIOUS
  <2>2. m \in live /\ in[m] = b /\ pos[m] = k
    BY <1>1, <2>1 DEF NodeAt
  <2>3. \A n \in live : in[n] = b /\ pos[n] = k => n = m
    BY <2>2, PlacesDiffer
  <2>4. m # NULL
    BY <2>2, HashTableAssumption
  <2> QED BY <2>1, <2>2, <2>3, <2>4
<1>2. CASE ~ \E n \in live : in[n] = b /\ pos[n] = k
  BY <1>2 DEF NodeAt
<1> QED BY <1>1, <1>2

\* From a place of bucket b, PNext leads to the next place of it.
LEMMA NodeAtNext ==
  ASSUME NEW in \in [Nodes -> Buckets], NEW pos \in [Nodes -> Nat], live \subseteq Nodes,
         Arranged(in, pos), NEW b \in Buckets, NEW k \in Nat
  PROVE  /\ NodeAt(in, pos, b, 0) = elems[b]
         /\ NodeAt(in, pos, b, k + 1) =
              IF NodeAt(in, pos, b, k) = NULL THEN NULL ELSE next[NodeAt(in, pos, b, k)]
<1>1. NodeAt(in, pos, b, 0) = elems[b]
  <2>1. CASE elems[b] = NULL
    <3>1. \A n \in live : in[n] # b
      BY <2>1, NoFirstNoNode
    <3> QED BY <2>1, <3>1, NodeAtIs
  <2>2. CASE elems[b] # NULL
    BY <2>2, NodeAtIs DEF Arranged
  <2> QED BY <2>1, <2>2
<1>2. PICK n : n = NodeAt(in, pos, b, k)
  OBVIOUS
<1>3. PICK m : m = NodeAt(in, pos, b, k + 1)
  OBVIOUS
<1>4. CASE n = NULL
  <2>1. SUFFICES ASSUME m # NULL PROVE FALSE
    BY <1>1, <1>2, <1>3, <1>4
  <2>2. m \in live /\ in[m] = b /\ pos[m] = k + 1
    BY <1>3, <2>1, NodeAtIs
  <2>3. \E p \in live : in[p] = in[m] /\ pos[p] = k
    BY <2>2 DEF Arranged
  <2>4. \A p \in live : ~ (in[p] = b /\ pos[p] = k)
    <3>1. NodeAt(in, pos, b, k) = NULL
      BY <1>2, <1>4
    <3> QED BY <3>1, NodeAtIs
  <2> QED BY <2>2, <2>3, <2>4
<1>5. CASE n # NULL
  <2>1. n \in live /\ in[n] = b /\ pos[n] = k
    BY <1>2, <1>5, NodeAtIs
  <2>2. CASE next[n] = NULL
    <3>1. \A x \in live : ~ (in[x] = b /\ pos[x] = k + 1)
      BY <2>1, <2>2, Ends DEF Follows
    <3>2. m = NULL
      BY <1>3, <3>1, NodeAtIs
    <3> QED BY <1>1, <1>2, <1>3, <1>5, <2>2, <3>2
  <2>3. CASE next[n] # NULL
    <3>1. next[n] \in live
      BY <2>1, <2>3 DEF Arranged
    <3>2. in[next[n]] = b /\ pos[next[n]] = k + 1
      BY <2>1, <3>1 DEF Arranged, Follows
    <3>3. m = next[n]
      BY <1>3, <3>1, <3>2, NodeAtIs
    <3> QED BY <1>1, <1>2, <1>3, <1>5, <3>3
  <2> QED BY <2>2, <2>3
<1> QED BY <1>1, <1>2, <1>3, <1>4, <1>5

\* Following PNext from the first node of the bucket visits its places in turn.
LEMMA ChainIs ==
  ASSUME NEW in \in [Nodes -> Buckets], NEW pos \in [Nodes -> Nat], live \subseteq Nodes,
         Arranged(in, pos), NEW b \in Buckets
  PROVE  \A k \in 0..Cardinality(Nodes) : Chain(b)[k] = NodeAt(in, pos, b, k)
<1> DEFINE N == Cardinality(Nodes)
<1>1. N \in Nat
  BY HashTableAssumption, FS_CardinalityType
<1> HIDE DEF N
<1>2. PICK f : f = [k \in 0..N |-> NodeAt(in, pos, b, k)]
  OBVIOUS
<1>3. ASSUME NEW k \in 0..N
      PROVE  f[k] = IF k = 0 THEN elems[b]
                    ELSE IF f[k - 1] = NULL THEN NULL ELSE next[f[k - 1]]
  <2>1. CASE k = 0
    BY <1>1, <1>2, <2>1, NodeAtNext
  <2>2. CASE k # 0
    <3>1. PICK j \in Nat : k = j + 1 /\ j \in 0..N
      <4>1. k - 1 \in Nat /\ k = (k - 1) + 1 /\ k - 1 \in 0..N
        BY <1>1, <2>2
      <4> QED BY <4>1
    <3>2. f[k] = NodeAt(in, pos, b, j + 1) /\ f[j] = NodeAt(in, pos, b, j) /\ k - 1 = j
      BY <1>2, <3>1
    <3>3. f[k] = IF f[j] = NULL THEN NULL ELSE next[f[j]]
      BY <3>2, NodeAtNext
    <3> QED BY <2>2, <3>2, <3>3
  <2> QED BY <2>1, <2>2
<1>4. f = [k \in 0..N |-> IF k = 0 THEN elems[b]
                          ELSE IF f[k - 1] = NULL THEN NULL ELSE next[f[k - 1]]]
  <2>1. f = [k \in 0..N |-> f[k]]
    BY <1>2
  <2> QED BY <1>3, <2>1
<1> DEFINE c == Chain(b)
<1> HIDE DEF c
<1>6. c = [k \in 0..N |-> IF k = 0 THEN elems[b]
                          ELSE IF c[k - 1] = NULL THEN NULL ELSE next[c[k - 1]]]
  <2>1. f = [k \in 0..Cardinality(Nodes) |->
               IF k = 0 THEN elems[b]
               ELSE IF f[k - 1] = NULL THEN NULL ELSE next[f[k - 1]]]
    BY <1>4 DEF N
  <2>2. Chain(b) = [k \in 0..Cardinality(Nodes) |->
                      IF k = 0 THEN elems[b]
                      ELSE IF Chain(b)[k - 1] = NULL THEN NULL ELSE next[Chain(b)[k - 1]]]
    BY <2>1, Zenon DEF Chain
  <2> QED BY <2>2 DEF N, c
<1>7. ASSUME NEW k \in 0..N
      PROVE  c[k] = IF k = 0 THEN elems[b]
                    ELSE IF c[k - 1] = NULL THEN NULL ELSE next[c[k - 1]]
  BY <1>6
<1>8. \A k \in 0..N : c[k] = f[k]
  <2> DEFINE S == {k \in 0..N : c[k] # f[k]}
  <2>1. SUFFICES ASSUME S # {} PROVE FALSE
    OBVIOUS
  <2>2. S \subseteq Nat
    BY <1>1
  <2>3. PICK m \in S : \A k \in S : m <= k
    BY <2>1, <2>2, LeastNatural
  <2>4. m \in 0..N /\ c[m] # f[m]
    OBVIOUS
  <2>5. CASE m = 0
    BY <1>3, <1>7, <2>4, <2>5
  <2>6. CASE m # 0
    <3>1. m - 1 \in 0..N /\ ~ (m <= m - 1)
      BY <1>1, <2>4, <2>6
    <3>2. c[m - 1] = f[m - 1]
      BY <2>3, <3>1
    <3> QED BY <1>3, <1>7, <2>4, <2>6, <3>2
  <2> QED BY <2>5, <2>6
<1> QED BY <1>2, <1>8 DEF N, c

\* A node's position is below the number of nodes in the table.
LEMMA PositionBound ==
  ASSUME NEW in \in [Nodes -> Buckets], NEW pos \in [Nodes -> Nat], live \subseteq Nodes,
         Arranged(in, pos), NEW n \in live
  PROVE  pos[n] < Cardinality(live) /\ pos[n] \in 0..Cardinality(Nodes)
<1>1. /\ IsFiniteSet(live) /\ Cardinality(live) \in Nat /\ Cardinality(Nodes) \in Nat
      /\ Cardinality(live) <= Cardinality(Nodes)
  BY HashTableAssumption, FS_Subset, FS_CardinalityType
<1>2. pos[n] \in Nat
  OBVIOUS
<1>3. IsFiniteSet(0..pos[n]) /\ Cardinality(0..pos[n]) = pos[n] + 1
  BY <1>2, FS_Interval
<1>4. pos[n] < Cardinality(live)
  <2>1. SUFFICES ASSUME Cardinality(live) < Cardinality(0..pos[n]) PROVE FALSE
    BY <1>1, <1>2, <1>3
  <2> DEFINE f == [i \in 0..pos[n] |-> NodeAt(in, pos, in[n], i)]
  <2>2. ASSUME NEW i \in 0..pos[n]
        PROVE  f[i] \in live /\ pos[f[i]] = i
    <3>1. \E m \in live : in[m] = in[n] /\ pos[m] = i
      <4>1. CASE i = pos[n]
        BY <4>1
      <4>2. CASE i # pos[n]
        BY <1>2, <4>2 DEF Arranged
      <4> QED BY <4>1, <4>2
    <3> QED BY <3>1, NodeAtIs
  <2>3. f \in [0..pos[n] -> live]
    BY <2>2
  <2> HIDE DEF f
  <2>4. \E x, y \in 0..pos[n] : x # y /\ f[x] = f[y]
    BY <1>1, <1>3, <2>1, <2>3, FS_PigeonHole
  <2> QED BY <2>2, <2>4
<1> QED BY <1>1, <1>2, <1>4

\* The places of the counting are those of the nodes.
LEMMA PlacesAre ==
  ASSUME TypeOK, NEW in \in [Nodes -> Buckets], NEW pos \in [Nodes -> Nat], Arranged(in, pos)
  PROVE  /\ \A n \in live : <<in[n], pos[n]>> \in Places /\ Chain(in[n])[pos[n]] = n
         /\ \A p \in Places :
              /\ Chain(p[1])[p[2]] \in live
              /\ p = <<in[Chain(p[1])[p[2]]], pos[Chain(p[1])[p[2]]]>>
<1>1. live \subseteq Nodes /\ NULL \notin live
  BY HashTableAssumption DEF TypeOK
<1>2. ASSUME NEW n \in live
      PROVE  <<in[n], pos[n]>> \in Places /\ Chain(in[n])[pos[n]] = n
  <2>1. in[n] \in Buckets /\ pos[n] \in 0..Cardinality(Nodes)
    BY <1>1, PositionBound
  <2>2. Chain(in[n])[pos[n]] = n
    BY <1>1, <2>1, ChainIs, NodeAtIs
  <2> QED BY <1>1, <2>1, <2>2 DEF Places
<1>3. ASSUME NEW p \in Places
      PROVE  /\ Chain(p[1])[p[2]] \in live
             /\ p = <<in[Chain(p[1])[p[2]]], pos[Chain(p[1])[p[2]]]>>
  <2>1. PICK b \in Buckets, k \in 0..Cardinality(Nodes) : p = <<b, k>> /\ Chain(b)[k] # NULL
    BY DEF Places
  <2>2. Chain(b)[k] = NodeAt(in, pos, b, k)
    BY <1>1, ChainIs
  <2>3. Chain(b)[k] \in live /\ in[Chain(b)[k]] = b /\ pos[Chain(b)[k]] = k
    BY <1>1, <2>1, <2>2, NodeAtIs
  <2> QED BY <2>1, <2>3
<1> QED BY <1>2, <1>3

\* The places of the table are ordered.
LEMMA EarlierIsTotal ==
  ASSUME NEW p \in Places, NEW q \in Places, p # q
  PROVE  Earlier(p, q) \/ Earlier(q, p)
<1>1. Cardinality(Nodes) \in Nat
  BY HashTableAssumption, FS_CardinalityType
<1>2. PICK a \in Buckets, i \in 0..Cardinality(Nodes) : p = <<a, i>>
  BY DEF Places
<1>3. PICK b \in Buckets, j \in 0..Cardinality(Nodes) : q = <<b, j>>
  BY DEF Places
<1>4. a \in Int /\ b \in Int /\ i \in Int /\ j \in Int
  BY <1>1, HashTableAssumption DEF Buckets
<1>5. a # b \/ i # j
  BY <1>2, <1>3
<1>6. p[1] = a /\ p[2] = i /\ q[1] = b /\ q[2] = j
  BY <1>2, <1>3
<1> QED BY <1>4, <1>5, <1>6 DEF Earlier

\* What is before a place is before every later one, and no place is before itself.
LEMMA EarlierIsOrder ==
  ASSUME NEW p \in Places, NEW q \in Places, NEW r \in Places
  PROVE  /\ ~ Earlier(p, p)
         /\ Earlier(p, q) /\ Earlier(q, r) => Earlier(p, r)
<1>1. Cardinality(Nodes) \in Nat
  BY HashTableAssumption, FS_CardinalityType
<1>2. \A x \in Places : x[1] \in Int /\ x[2] \in Int
  <2>1. ASSUME NEW x \in Places PROVE x[1] \in Int /\ x[2] \in Int
    <3>1. PICK a \in Buckets, i \in 0..Cardinality(Nodes) : x = <<a, i>>
      BY DEF Places
    <3> QED BY <1>1, <3>1, HashTableAssumption DEF Buckets
  <2> QED BY <2>1
<1> QED BY <1>2 DEF Earlier

\* The keys asked for by number are those of all entries, each by one number: callers
\* that run over 0 .. HtGetKeyCount - 1 meet every entry once.
THEOREM ListingCorrect == Spec => []EveryEntryListed
<1>1. ASSUME IInv PROVE EveryEntryListed
  <2>1. PICK in \in [Nodes -> Buckets], pos \in [Nodes -> Nat] : Placed(in, pos)
    BY <1>1 DEF IInv
  <2>2. /\ \A n \in live : <<in[n], pos[n]>> \in Places /\ Chain(in[n])[pos[n]] = n
        /\ \A p \in Places :
              /\ Chain(p[1])[p[2]] \in live
              /\ p = <<in[Chain(p[1])[p[2]]], pos[Chain(p[1])[p[2]]]>>
    BY <1>1, <2>1, PlacesAre DEF IInv, Placed
  <2>3. IsFiniteSet(live) /\ size = Cardinality(live) /\ size \in Nat
    BY <1>1, HashTableAssumption, FS_Subset, FS_CardinalityType DEF IInv, TypeOK
  <2>4. IsFiniteSet(Places)
    <3>1. Cardinality(Nodes) \in Nat
      BY HashTableAssumption, FS_CardinalityType
    <3>2. IsFiniteSet(Buckets) /\ IsFiniteSet(0..Cardinality(Nodes))
      BY <3>1, HashTableAssumption, FS_Interval DEF Buckets
    <3>3. IsFiniteSet(Buckets \X (0..Cardinality(Nodes)))
      BY <3>2, FS_Product
    <3>4. Places \in SUBSET (Buckets \X (0..Cardinality(Nodes)))
      BY DEF Places
    <3> QED BY <3>3, <3>4, FS_Subset
  <2> DEFINE Before(p) == {q \in Places : Earlier(q, p)}
  <2>5. \A p : IsFiniteSet(Before(p)) /\ Cardinality(Before(p)) \in Nat
    <3>1. ASSUME NEW p PROVE IsFiniteSet(Before(p)) /\ Cardinality(Before(p)) \in Nat
      <4>1. Before(p) \in SUBSET Places
        OBVIOUS
      <4>2. IsFiniteSet(Before(p))
        BY <2>4, <4>1, FS_Subset
      <4> QED BY <4>2, FS_CardinalityType
    <3> QED BY <3>1
  <2>6. ASSUME NEW p \in Places PROVE Cardinality(Before(p)) < size
    <3> DEFINE T == Before(p) \cup {p}  f == [q \in T |-> Chain(q[1])[q[2]]]
    <3>1. p \notin Before(p)
      BY EarlierIsOrder
    <3>2. IsFiniteSet(T) /\ Cardinality(T) = Cardinality(Before(p)) + 1
      BY <2>5, <3>1, FS_AddElement
    <3>3. T \subseteq Places
      OBVIOUS
    <3>4. f \in [T -> live]
      BY <2>2, <3>3
    <3>5. \A q \in T : q = <<in[f[q]], pos[f[q]]>>
      <4>1. ASSUME NEW q \in T PROVE q = <<in[f[q]], pos[f[q]]>>
        <5>1. f[q] = Chain(q[1])[q[2]] /\ q \in Places
          BY <3>3
        <5> QED BY <2>2, <5>1
      <4> QED BY <4>1
    <3> HIDE DEF T, f
    <3>6. SUFFICES ASSUME Cardinality(live) < Cardinality(T) PROVE FALSE
      BY <2>3, <2>5, <3>2
    <3>7. \E x, y \in T : x # y /\ f[x] = f[y]
      BY <2>3, <3>2, <3>4, <3>6, FS_PigeonHole
    <3> QED BY <3>5, <3>7
  <2>7. ASSUME NEW p \in Places, NEW q \in Places, Earlier(p, q)
        PROVE  Cardinality(Before(p)) < Cardinality(Before(q))
    <3>1. Before(p) \in SUBSET Before(q)
      BY <2>7, EarlierIsOrder
    <3>2. p \in Before(q) /\ p \notin Before(p)
      BY <2>7, EarlierIsOrder
    <3> HIDE DEF Before
    <3>3. Cardinality(Before(p)) <= Cardinality(Before(q)) /\
          (Cardinality(Before(q)) = Cardinality(Before(p)) => Before(q) = Before(p))
      BY <2>5, <3>1, FS_Subset
    <3> QED BY <2>5, <3>2, <3>3
  <2>8. ASSUME NEW n \in live
        PROVE  \E i \in 0..(HtGetKeyCount - 1) :
                 \E p \in NthPlaces(i) : NthPlaces(i) = {p} /\ Chain(p[1])[p[2]] = n
    <3> DEFINE p == <<in[n], pos[n]>>  i == Cardinality(Before(p))
    <3>1. p \in Places /\ Chain(p[1])[p[2]] = n
      BY <2>2
    <3>2. i \in 0..(HtGetKeyCount - 1)
      <4>1. i \in Nat /\ i < size
        BY <2>5, <2>6, <3>1
      <4> QED BY <2>3, <4>1 DEF HtGetKeyCount
    <3>3. \A q \in Places : q # p => Cardinality(Before(q)) # i
      <4>1. ASSUME NEW q \in Places, q # p PROVE Cardinality(Before(q)) # i
        <5>1. Earlier(p, q) \/ Earlier(q, p)
          BY <3>1, <4>1, EarlierIsTotal
        <5>2. Cardinality(Before(q)) \in Nat /\ i \in Nat
          BY <2>5
        <5>3. i < Cardinality(Before(q)) \/ Cardinality(Before(q)) < i
          BY <2>7, <3>1, <5>1
        <5> QED BY <5>2, <5>3
      <4> QED BY <4>1
    <3>4. NthPlaces(i) = {p}
      BY <3>1, <3>3 DEF NthPlaces
    <3> HIDE DEF p, i
    <3> QED BY <3>1, <3>2, <3>4
  <2> QED BY <2>8 DEF EveryEntryListed
<1> QED BY <1>1, Inductive, PTL

---------------------------------------------------------------------------
(* The table implements EntryTable.                                         *)

\* The entry a node stands for.
Row(n) == [id |-> n, key |-> key[n], value |-> value[n]]

Rows == IF Clearing THEN {} ELSE {Row(n) : n \in live}

\* The chains hold the nodes of the table, each one as an entry.
LEMMA EntriesAre == IInv => TableEntries = Rows
<1> SUFFICES ASSUME IInv PROVE TableEntries = Rows
  OBVIOUS
<1>1. PICK in \in [Nodes -> Buckets], pos \in [Nodes -> Nat] : Placed(in, pos)
  BY DEF IInv
<1>2. /\ \A n \in live : <<in[n], pos[n]>> \in Places /\ Chain(in[n])[pos[n]] = n
      /\ \A p \in Places : Chain(p[1])[p[2]] \in live
  BY <1>1, PlacesAre DEF IInv, Placed
<1>3. {Chain(p[1])[p[2]] : p \in Places} = live
  <2>1. ASSUME NEW n \in live PROVE \E p \in Places : n = Chain(p[1])[p[2]]
    <3> DEFINE p == <<in[n], pos[n]>>
    <3>1. p \in Places /\ n = Chain(p[1])[p[2]]
      BY <1>2
    <3> HIDE DEF p
    <3> QED BY <3>1
  <2> QED BY <1>2, <2>1
<1> QED BY <1>3 DEF TableEntries, Rows, Row

\* The same after a step.
LEMMA EntriesAreNext == IInv' => TableEntries' = Rows'
<1>1. (IInv => TableEntries = Rows)'
  BY EntriesAre, PTL
<1> QED BY <1>1

\* A search that ends without a node has no entry of its key.
LEMMA NotFoundIsRight ==
  ASSUME IInv, NotFound
  PROVE  /\ call.op \in {"has", "get", "remove"} /\ call.key \in Keys
         /\ Abstract!OfKey(call.key) = {}
<1>1. PICK in \in [Nodes -> Buckets], pos \in [Nodes -> Nat] : Placed(in, pos)
  BY DEF IInv
<1>2. Searching /\ call.at = NULL /\ ~ Clearing
  BY CallKinds DEF NotFound, Searching, Clearing
<1>3. call.op \in {"has", "get", "remove"} /\ call.key \in Keys
  BY <1>2 DEF Searching, Searches
<1>4. ASSUME NEW n \in live PROVE key[n] # call.key
  <2>1. SUFFICES ASSUME key[n] = call.key PROVE FALSE
    OBVIOUS
  <2>2. key[n] # Truncated
    BY <1>3, <2>1, HashTableAssumption
  <2>3. in[n] = HtHash[call.key]
    BY <1>1, <2>1, <2>2 DEF Placed, Hashed
  <2> QED BY <1>1, <1>2, <2>1, <2>3 DEF Placed, Searched
<1>5. \A e \in TableEntries : e.key # call.key
  BY <1>2, <1>4, EntriesAre DEF Rows, Row
<1> QED BY <1>3, <1>5 DEF Abstract!OfKey

\* A search that ends at a node is at an entry of its key.
LEMMA FoundIsRight ==
  ASSUME IInv, NEW op \in {"has", "get", "remove"}, Hit(op)
  PROVE  /\ call.key \in Keys /\ call.at \in live /\ call.op = op /\ ~ Clearing
         /\ Row(call.at) \in Abstract!OfKey(call.key)
<1>1. PICK in \in [Nodes -> Buckets], pos \in [Nodes -> Nat] : Placed(in, pos)
  BY DEF IInv
<1>2. Searching /\ call.at # NULL /\ ~ Clearing /\ call.op = op /\ key[call.at] = call.key
  BY CallKinds DEF Hit, Searching, Clearing
<1>3. call.key \in Keys /\ call.at \in live
  BY <1>1, <1>2 DEF Searching, Searches, Placed, Searched
<1>4. Row(call.at) \in TableEntries /\ Row(call.at).key = call.key
  BY <1>2, <1>3, EntriesAre DEF Rows, Row
<1> QED BY <1>2, <1>3, <1>4 DEF Abstract!OfKey

\* A step that leaves the nodes and their contents leaves the entries.
LEMMA SameEntries ==
  ASSUME IInv, IInv', UNCHANGED <<key, value, live>>, Clearing' <=> Clearing
  PROVE  TableEntries' = TableEntries
BY EntriesAre, EntriesAreNext DEF Rows, Row

\* A new node is a new entry.
LEMMA SetImplements ==
  ASSUME IInv, IInv', NEW k \in Keys, NEW v \in Values, HtSetKeyValue(k, v)
  PROVE  Abstract!Next
<1>1. PICK n \in Nodes \ live :
        /\ key' = [key EXCEPT ![n] = StoredKey(k)]
        /\ value' = [value EXCEPT ![n] = v]
        /\ live' = live \cup {n}
  BY DEF HtSetKeyValue
<1>2. /\ answer' = NoAnswer /\ ~ Clearing /\ ~ Clearing'
  BY DEF HtSetKeyValue, Clearing, NoCall
<1>3. TableEntries = {Row(m) : m \in live}
  BY <1>2, EntriesAre DEF Rows
<1>4. TableEntries' = {[id |-> m, key |-> key'[m], value |-> value'[m]] : m \in live'}
  BY <1>2, EntriesAreNext DEF Rows, Row
<1> DEFINE new == [id |-> n, key |-> StoredKey(k), value |-> v]
<1>5. TableEntries' = TableEntries \cup {new}
  <2>1. /\ key'[n] = StoredKey(k) /\ value'[n] = v
        /\ \A m \in live : key'[m] = key[m] /\ value'[m] = value[m]
    BY <1>1 DEF IInv, TypeOK
  <2> QED BY <1>1, <1>3, <1>4, <2>1 DEF Row
<1>6. n \in Nodes \ {e.id : e \in TableEntries}
  BY <1>1, <1>3 DEF Row
<1>7. [x \in Keys |-> StoredKey(x)][k] = StoredKey(k)
  OBVIOUS
<1>8. Abstract!Set(k, v)
  BY <1>2, <1>5, <1>6, <1>7 DEF Abstract!Set, Abstract!NoAnswer, NoAnswer
<1> QED BY <1>8 DEF Abstract!Next

\* The removal of a node is that of one entry of its key.
LEMMA FoundRemoveImplements ==
  ASSUME IInv, IInv', FoundRemove
  PROVE  Abstract!Next
<1> DEFINE n == call.at
<1>1. /\ call.key \in Keys /\ n \in live /\ call.op = "remove" /\ ~ Clearing
      /\ Row(n) \in Abstract!OfKey(call.key)
  BY FoundIsRight DEF FoundRemove
<1>2. /\ Unlink(n, HtHash[call.key])
      /\ answer' = Answer("remove", call.key, 0) /\ call' = NoCall
  BY DEF FoundRemove
<1>3. /\ live' = live \ {n}
      /\ key' = [key EXCEPT ![n] = Truncated] /\ value' = [value EXCEPT ![n] = AnyValue]
  BY <1>2 DEF Unlink
<1>4. ~ Clearing'
  BY <1>2 DEF Clearing, NoCall
<1>5. TableEntries = {Row(m) : m \in live}
  BY <1>1, EntriesAre DEF Rows
<1>6. TableEntries' = {[id |-> m, key |-> key'[m], value |-> value'[m]] : m \in live'}
  BY <1>4, EntriesAreNext DEF Rows, Row
<1>7. TableEntries' = TableEntries \ {Row(n)}
  <2>1. \A m \in live' : key'[m] = key[m] /\ value'[m] = value[m]
    BY <1>3 DEF IInv, TypeOK
  <2>2. \A m \in live : Row(m) = Row(n) => m = n
    BY DEF Row
  <2>3. TableEntries' = {Row(m) : m \in live'}
    BY <1>6, <2>1 DEF Row
  <2> QED BY <1>3, <1>5, <2>2, <2>3
<1>8. Abstract!Remove(call.key)
  BY <1>1, <1>2, <1>7 DEF Abstract!Remove, Abstract!Answer, Answer
<1> QED BY <1>1, <1>8 DEF Abstract!Next

\* The answers of the lookups.
LEMMA LookupImplements ==
  ASSUME IInv, IInv', NotFound \/ FoundHas \/ FoundGet
  PROVE  Abstract!Next
<1>1. ASSUME NotFound PROVE Abstract!Next
  <2>1. /\ call.op \in {"has", "get", "remove"} /\ call.key \in Keys
        /\ Abstract!OfKey(call.key) = {}
    BY <1>1, NotFoundIsRight
  <2>2. ~ Clearing /\ ~ Clearing'
    BY <1>1, CallKinds DEF NotFound, Searching, Clearing
  <2>3. TableEntries' = TableEntries
    BY <1>1, <2>2, SameEntries DEF NotFound
  <2>4. answer' = Answer(call.op, call.key, IF call.op = "has" THEN 0 ELSE -1)
    BY <1>1 DEF NotFound
  <2>5. CASE call.op = "has"
    BY <2>1, <2>3, <2>4, <2>5 DEF Abstract!Next, Abstract!Has, Abstract!Answer, Answer
  <2>6. CASE call.op = "get"
    BY <2>1, <2>3, <2>4, <2>6 DEF Abstract!Next, Abstract!Get, Abstract!Answer, Answer
  <2>7. CASE call.op = "remove"
    BY <2>1, <2>3, <2>4, <2>7 DEF Abstract!Next, Abstract!Remove, Abstract!Answer, Answer
  <2> QED BY <2>1, <2>5, <2>6, <2>7
<1>2. ASSUME FoundHas PROVE Abstract!Next
  <2>1. /\ call.key \in Keys /\ ~ Clearing
        /\ Row(call.at) \in Abstract!OfKey(call.key)
    BY <1>2, FoundIsRight DEF FoundHas
  <2>2. ~ Clearing'
    BY <1>2 DEF FoundHas, Clearing, NoCall
  <2>3. TableEntries' = TableEntries
    BY <1>2, <2>1, <2>2, SameEntries DEF FoundHas
  <2>4. answer' = Answer("has", call.key, 1)
    BY <1>2 DEF FoundHas
  <2> QED BY <2>1, <2>3, <2>4 DEF Abstract!Next, Abstract!Has, Abstract!Answer, Answer
<1>3. ASSUME FoundGet PROVE Abstract!Next
  <2>1. /\ call.key \in Keys /\ ~ Clearing
        /\ Row(call.at) \in Abstract!OfKey(call.key)
    BY <1>3, FoundIsRight DEF FoundGet
  <2>2. ~ Clearing'
    BY <1>3 DEF FoundGet, Clearing, NoCall
  <2>3. TableEntries' = TableEntries
    BY <1>3, <2>1, <2>2, SameEntries DEF FoundGet
  <2>4. answer' = [op |-> "get", key |-> call.key, value |-> Row(call.at).value]
    BY <1>3 DEF FoundGet, Row
  <2>5. Abstract!Get(call.key)
    BY <2>1, <2>3, <2>4 DEF Abstract!Get
  <2> QED BY <2>1, <2>5 DEF Abstract!Next
<1> QED BY <1>1, <1>2, <1>3

\* Every step of the table is one of EntryTable, or changes nothing there.
LEMMA StepImplements ==
  ASSUME IInv, IInv', [Next]_vars
  PROVE  Abstract!Next \/ UNCHANGED <<TableEntries, answer>>
<1>1. CASE UNCHANGED vars
  <2>1. Clearing' <=> Clearing
    BY <1>1 DEF vars, Clearing
  <2> QED BY <1>1, <2>1, SameEntries DEF vars
<1>2. ASSUME NEW k \in Keys, NEW v \in Values, HtSetKeyValue(k, v) PROVE Abstract!Next
  BY <1>2, SetImplements
<1>3. ASSUME NEW k \in Keys, HtSetKeyValueFails(k) PROVE Abstract!Next
  <2>1. Clearing' <=> Clearing
    BY <1>3 DEF HtSetKeyValueFails, Clearing
  <2>2. TableEntries' = TableEntries
    BY <1>3, <2>1, SameEntries DEF HtSetKeyValueFails
  <2>3. answer' = Answer("set", k, -1)
    BY <1>3 DEF HtSetKeyValueFails
  <2>4. \A v \in Values : Abstract!Set(k, v)
    BY <2>2, <2>3 DEF Abstract!Set, Abstract!Answer, Answer
  <2> QED BY <2>4, HashTableAssumption DEF Abstract!Next
<1>4. ASSUME NEW k \in Keys, NEW op \in {"has", "get", "remove"}, Search(op, k)
      PROVE  Abstract!Next
  <2>1. Clearing' <=> Clearing
    BY <1>4 DEF Search, Clearing, NoCall
  <2>2. TableEntries' = TableEntries
    BY <1>4, <2>1, SameEntries DEF Search
  <2>3. answer' = NoAnswer
    BY <1>4 DEF Search
  <2> QED BY <2>2, <2>3 DEF Abstract!Next, Abstract!Call, Abstract!NoAnswer, NoAnswer
<1>5. ASSUME Walk PROVE UNCHANGED <<TableEntries, answer>>
  <2>1. Clearing' <=> Clearing
    BY <1>5 DEF Walk, Searching, Searches, Clearing
  <2> QED BY <1>5, <2>1, SameEntries DEF Walk
<1>6. ASSUME HtClear PROVE Abstract!Next
  <2>1. Clearing'
    BY <1>6 DEF HtClear, Clearing
  <2>2. TableEntries' = {}
    BY <2>1, EntriesAreNext DEF Rows
  <2>3. answer' = NoAnswer
    BY <1>6 DEF HtClear
  <2> QED BY <2>2, <2>3 DEF Abstract!Next, Abstract!Clear, Abstract!NoAnswer, NoAnswer
<1>7. ASSUME ClearNode \/ ClearNextBucket PROVE UNCHANGED <<TableEntries, answer>>
  <2>1. Clearing
    BY <1>7 DEF ClearNode, ClearNextBucket
  <2>2. Clearing'
    <3>1. CASE ClearNode
      BY <2>1, <3>1 DEF ClearNode, Clearing
    <3>2. CASE ClearNextBucket
      <4>1. call \in Clears
        BY <2>1, CallKinds DEF IInv, TypeOK, Clearing
      <4> QED BY <2>1, <3>2, <4>1 DEF ClearNextBucket, Clearing, Clears
    <3> QED BY <1>7, <3>1, <3>2
  <2>3. TableEntries' = TableEntries
    BY <2>1, <2>2, EntriesAre, EntriesAreNext DEF Rows
  <2> QED BY <1>7, <2>3 DEF ClearNode, ClearNextBucket
<1>8. ASSUME ClearEnds PROVE Abstract!Next
  <2>1. Clearing /\ ~ Clearing' /\ answer' = NoAnswer /\ live' = live /\ size = 0
    BY <1>8 DEF ClearEnds, Clearing, NoCall
  <2>2. live = {}
    <3>1. IsFiniteSet(live) /\ size = Cardinality(live)
      BY HashTableAssumption, FS_Subset DEF IInv, TypeOK
    <3> QED BY <2>1, <3>1, FS_EmptySet
  <2>3. TableEntries' = {} /\ TableEntries = {}
    BY <2>1, <2>2, EntriesAre, EntriesAreNext DEF Rows
  <2> QED BY <2>1, <2>3 DEF Abstract!Next, Abstract!Call, Abstract!NoAnswer, NoAnswer
<1>9. ASSUME ClearInVain PROVE Abstract!Next \/ UNCHANGED <<TableEntries, answer>>
  BY <1>1, <1>9 DEF ClearInVain
<1> QED BY <1>1, <1>2, <1>3, <1>4, <1>5, <1>6, <1>7, <1>8, <1>9,
           LookupImplements, FoundRemoveImplements DEF Next

\* The linked table does what EntryTable promises: its operations take effect at once
\* on a collection of entries, and its searches answer what is in there.
THEOREM TableImplementsEntries == Spec => ImplementsEntryTable
<1>1. Init => Abstract!Init
  <2>1. SUFFICES ASSUME Init PROVE Abstract!Init
    OBVIOUS
  <2>2. TableEntries = {}
    <3>1. IInv /\ live = {}
      BY <2>1, InitInvariant DEF Init
    <3> QED BY <3>1, EntriesAre DEF Rows
  <2>3. answer = NoAnswer
    BY <2>1 DEF Init
  <2> QED BY <2>2, <2>3 DEF Abstract!Init, Abstract!NoAnswer, NoAnswer
<1>2. IInv /\ IInv' /\ [Next]_vars => [Abstract!Next]_<<TableEntries, answer>>
  BY StepImplements
<1> QED BY <1>1, <1>2, Inductive, PTL DEF Spec, Abstract!Spec, ImplementsEntryTable
=============================================================================
