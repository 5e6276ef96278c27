------------------------------ MODULE HashTable ------------------------------
(***************************************************************************)
(* CC_HASH_TABLE (CCHashTable.c), the table behind gUsersMapping and         *)
(* gUsersFiles: buckets of doubly linked nodes.  HtSetKeyValue does not look *)
(* for the key, so a key may have several nodes; it links the new node       *)
(* behind the first one of its bucket.  Callers hold a lock around every     *)
(* call, so one call runs at a time; the searches are modelled node by node. *)
(***************************************************************************)
EXTENDS Integers, FiniteSets

CONSTANTS
  Nodes,      \* HTNODE addresses
  NULL,
  Keys, Values,
  LongKeys,   \* the keys of 150 characters and more
  HashSize,   \* HASHSIZE
  HtHash      \* the bucket of each key

Buckets == 0..(HashSize - 1)

\* StringCbLength(Key, 300) fails on 150 characters or more and leaves a length
\* of 0: the node of such a key stores the empty string.
Truncated == "the empty string"

\* No caller passes the empty string: its keys are the names of users.
ASSUME HashTableAssumption ==
  /\ IsFiniteSet(Nodes) /\ NULL \notin Nodes
  /\ Truncated \notin Keys /\ LongKeys \subseteq Keys
  /\ Values # {}
  /\ HashSize \in Nat \ {0}
  /\ HtHash \in [Keys -> Buckets]

VARIABLES
  elems,    \* Elems: the first node of each bucket
  next,     \* PNext of each node
  back,     \* PBack of each node
  key,      \* Key of each node, as stored
  value,    \* Value of each node
  live,     \* the nodes in the table
  size,     \* Size
  call,     \* the call under way: operation, key, node or bucket looked at
  answer    \* the last call to return, and what it returned

vars == <<elems, next, back, key, value, live, size, call, answer>>

NoAnswer == [op |-> "none"]
Answer(op, k, code) == [op |-> op, key |-> k, code |-> code]

StoredKey(k) == IF k \in LongKeys THEN Truncated ELSE k

StoredKeys == Keys \cup {Truncated}
Pointers   == Nodes \cup {NULL}

NoCall  == [op |-> "none"]
Searches == [op : {"has", "get", "remove"}, key : Keys, at : Pointers]
Clears   == [op : {"clear"}, bucket : Nat]

AnyValue == CHOOSE v \in Values : TRUE

\* HtCreate.
Init ==
  /\ elems = [b \in Buckets |-> NULL]
  /\ next = [n \in Nodes |-> NULL]
  /\ back = [n \in Nodes |-> NULL]
  /\ key = [n \in Nodes |-> Truncated]
  /\ value = [n \in Nodes |-> AnyValue]
  /\ live = {}
  /\ size = 0
  /\ call = NoCall
  /\ answer = NoAnswer

\* Mutant: the node that was second keeps its old PBack.
LinkForwardOnly(first, n) ==
  /\ next' = [next EXCEPT ![n] = next[first], ![first] = n]
  /\ back' = [back EXCEPT ![n] = first]

\* Mutant: the rest of the chain is not carried over.
LinkLast(first, n) ==
  /\ next' = [next EXCEPT ![n] = NULL, ![first] = n]
  /\ back' = [m \in Nodes |-> IF m = n THEN first
                              ELSE IF m = next[first] THEN NULL ELSE back[m]]

\* The new node goes behind the first one of the bucket.
LinkBehind(first, n) ==
  /\ next' = [next EXCEPT ![n] = next[first], ![first] = n]
  /\ back' = [m \in Nodes |-> IF m = n THEN first
                              ELSE IF m = next[first] THEN n ELSE back[m]]

HtSetKeyValue(k, v) ==
  /\ call = NoCall
  /\ \E n \in Nodes \ live :
       LET b == HtHash[k] IN
       /\ key' = [key EXCEPT ![n] = StoredKey(k)]
       /\ value' = [value EXCEPT ![n] = v]
       /\ live' = live \cup {n}
       /\ IF elems[b] = NULL
          THEN /\ elems' = [elems EXCEPT ![b] = n]
               /\ next' = [next EXCEPT ![n] = NULL]
               /\ back' = [back EXCEPT ![n] = NULL]
          ELSE UNCHANGED elems /\ LinkBehind(elems[b], n)
  /\ size' = size + 1
  /\ answer' = NoAnswer
  /\ UNCHANGED call

\* malloc of the node or of its key fails.  In the second case the node is
\* lost; the table is the same.
HtSetKeyValueFails(k) ==
  /\ call = NoCall
  /\ answer' = Answer("set", k, -1)
  /\ UNCHANGED <<elems, next, back, key, value, live, size, call>>

\* HtHasKey, HtGetKeyValue and HtRemoveKey walk the bucket of the key.
Search(op, k) ==
  /\ call = NoCall
  /\ call' = [op |-> op, key |-> k, at |-> elems[HtHash[k]]]
  /\ answer' = NoAnswer
  /\ UNCHANGED <<elems, next, back, key, value, live, size>>

Searching == call \in Searches

\* Mutant: the node pointer is not advanced.
WalkInPlace ==
  /\ Searching
  /\ call.at # NULL /\ key[call.at] # call.key
  /\ UNCHANGED vars

Walk ==
  /\ Searching
  /\ call.at # NULL /\ key[call.at] # call.key
  /\ call' = [call EXCEPT !.at = next[call.at]]
  /\ UNCHANGED <<elems, next, back, key, value, live, size, answer>>

NotFound ==
  /\ Searching
  /\ call.at = NULL
  /\ answer' = Answer(call.op, call.key, IF call.op = "has" THEN 0 ELSE -1)
  /\ call' = NoCall
  /\ UNCHANGED <<elems, next, back, key, value, live, size>>

Hit(op) == Searching /\ call.op = op /\ call.at # NULL /\ key[call.at] = call.key

FoundHas ==
  /\ Hit("has")
  /\ answer' = Answer("has", call.key, 1)
  /\ call' = NoCall
  /\ UNCHANGED <<elems, next, back, key, value, live, size>>

FoundGet ==
  /\ Hit("get")
  /\ answer' = [op |-> "get", key |-> call.key, value |-> value[call.at]]
  /\ call' = NoCall
  /\ UNCHANGED <<elems, next, back, key, value, live, size>>

Blank(f, n) == [f EXCEPT ![n] = NULL]

\* The pointer surgery of HtRemoveKey on the node n of bucket b.  The node is
\* freed: nothing leads to it any more (Linked), and its contents are forgotten.
Unlink(n, b) ==
  /\ IF back[n] = NULL
     THEN /\ elems' = [elems EXCEPT ![b] = next[n]]
          /\ next' = Blank(next, n)
     ELSE /\ next' = Blank([next EXCEPT ![back[n]] = next[n]], n)
          /\ UNCHANGED elems
  /\ back' = Blank([m \in Nodes |-> IF m = next[n] THEN back[n] ELSE back[m]], n)
  /\ live' = live \ {n}
  /\ key' = [key EXCEPT ![n] = Truncated]
  /\ value' = [value EXCEPT ![n] = AnyValue]

\* Mutant: Size is not decremented.
RemoveKeepsSize ==
  /\ Hit("remove")
  /\ Unlink(call.at, HtHash[call.key])
  /\ answer' = Answer("remove", call.key, 0)
  /\ call' = NoCall
  /\ UNCHANGED size

\* Mutant: the first node of the bucket goes, whatever its key.
RemoveFirst ==
  /\ Hit("remove")
  /\ Unlink(elems[HtHash[call.key]], HtHash[call.key])
  /\ size' = size - 1
  /\ answer' = Answer("remove", call.key, 0)
  /\ call' = NoCall

FoundRemove ==
  /\ Hit("remove")
  /\ Unlink(call.at, HtHash[call.key])
  /\ size' = size - 1
  /\ answer' = Answer("remove", call.key, 0)
  /\ call' = NoCall

\* HtDestroy empties the table through HtClear: the first node of each bucket
\* is removed by its stored key until Size is 0.  The loop's condition
\* `i < HASHSIZE, HashTable->Size > 0` only tests the size.
HtClear ==
  /\ call = NoCall
  /\ call' = [op |-> "clear", bucket |-> 0]
  /\ answer' = NoAnswer
  /\ UNCHANGED <<elems, next, back, key, value, live, size>>

Clearing == call.op = "clear"

\* HtClear looks for the bucket of a node by the key it stores; the empty string
\* hashes to bucket 0.
HashOfStored(k) == IF k = Truncated THEN 0 ELSE HtHash[k]

\* The first node of the bucket stores a key that leads HtRemoveKey to another one:
\* a long key that was not hashed to bucket 0.
ClearSpins ==
  /\ Clearing
  /\ size > 0 /\ call.bucket \in Buckets
  /\ elems[call.bucket] # NULL
  /\ HashOfStored(key[elems[call.bucket]]) # call.bucket

\* HtRemoveKey finds no such key there (bucket 0 is empty by now), its -1 is not
\* looked at, and the inner loop tries again.
ClearInVain == ClearSpins /\ UNCHANGED vars

ClearNode ==
  /\ Clearing
  /\ size > 0 /\ call.bucket \in Buckets
  /\ elems[call.bucket] # NULL
  /\ HashOfStored(key[elems[call.bucket]]) = call.bucket
  /\ Unlink(elems[call.bucket], call.bucket)
  /\ size' = size - 1
  /\ UNCHANGED <<call, answer>>

ClearNextBucket ==
  /\ Clearing
  /\ size > 0 /\ call.bucket \in Buckets
  /\ elems[call.bucket] = NULL
  /\ call' = [call EXCEPT !.bucket = @ + 1]
  /\ UNCHANGED <<elems, next, back, key, value, live, size, answer>>

ClearEnds ==
  /\ Clearing
  /\ size = 0
  /\ call' = NoCall
  /\ answer' = NoAnswer
  /\ UNCHANGED <<elems, next, back, key, value, live, size>>

Next ==
  \/ \E k \in Keys :
       \/ \E v \in Values : HtSetKeyValue(k, v)
       \/ HtSetKeyValueFails(k)
       \/ \E op \in {"has", "get", "remove"} : Search(op, k)
  \/ Walk \/ NotFound \/ FoundHas \/ FoundGet \/ FoundRemove
  \/ HtClear \/ ClearNode \/ ClearInVain \/ ClearNextBucket \/ ClearEnds

Spec == Init /\ [][Next]_vars

\* A call that was made runs on.
FairSpec == Spec /\ WF_vars(Walk \/ NotFound \/ FoundHas \/ FoundGet \/ FoundRemove
                              \/ ClearNode \/ ClearNextBucket \/ ClearEnds)

---------------------------------------------------------------------------
(* HtGetNthKey and HtGetKeyCount, with which the callers run over all keys.  *)

\* The node k links behind the first one of bucket b.
Chain(b) ==
  LET hop[k \in 0..Cardinality(Nodes)] ==
        IF k = 0 THEN elems[b]
        ELSE IF hop[k - 1] = NULL THEN NULL ELSE next[hop[k - 1]]
  IN  hop

Places == {p \in Buckets \X (0..Cardinality(Nodes)) : Chain(p[1])[p[2]] # NULL}

Earlier(p, q) == p[1] < q[1] \/ (p[1] = q[1] /\ p[2] < q[2])

\* The nodes are counted bucket by bucket, along each chain.
NthPlaces(i) == {p \in Places : Cardinality({q \in Places : Earlier(q, p)}) = i}

HtGetKeyCount == size

---------------------------------------------------------------------------
(* Properties.                                                              *)

\* Every variable has its type.
TypeOK ==
  /\ elems \in [Buckets -> Pointers]
  /\ next \in [Nodes -> Pointers]
  /\ back \in [Nodes -> Pointers]
  /\ key \in [Nodes -> StoredKeys]
  /\ value \in [Nodes -> Values]
  /\ live \subseteq Nodes
  /\ size = Cardinality(live)
  /\ call \in {NoCall} \cup Searches \cup Clears

\* While there is a node left, HtClear is at a bucket: its loop needs no test
\* of the bucket number.
ClearStaysInTable == Clearing /\ size > 0 => call.bucket \in Buckets

\* PNext and PBack are each other's inverse on the nodes of the table, every
\* chain begins at a node without predecessor, no pointer in use leads to a
\* freed node, neither does the search under way, and HtClear stays in the table.
Linked ==
  /\ \A b \in Buckets : elems[b] # NULL => elems[b] \in live /\ back[elems[b]] = NULL
  /\ \A n \in live :
       /\ next[n] # NULL => next[n] \in live /\ back[next[n]] = n
       /\ IF back[n] = NULL THEN \E b \in Buckets : elems[b] = n
          ELSE back[n] \in live /\ next[back[n]] = n
  /\ Searching => call.at \in live \cup {NULL}
  /\ ClearStaysInTable

\* Asking for the keys 0 .. HtGetKeyCount - 1, as list, broadcast and
\* CloseFileHandles do, names every entry exactly once.
EveryEntryListed ==
  \A n \in live :
    \E i \in 0..(HtGetKeyCount - 1) :
      \E p \in NthPlaces(i) : NthPlaces(i) = {p} /\ Chain(p[1])[p[2]] = n

\* The pointers implement the abstract table; HtClear takes effect at once.
TableEntries ==
  IF Clearing THEN {}
  ELSE {[id |-> n, key |-> key[n], value |-> value[n]] :
          n \in {Chain(p[1])[p[2]] : p \in Places}}

Abstract == INSTANCE EntryTable WITH
  Ids      <- Nodes,
  StoredAs <- [k \in Keys |-> StoredKey(k)],
  entries  <- TableEntries

ImplementsEntryTable == Abstract!Spec

\* Every search ends, and every clearing but one that has come to a key of 150
\* characters or more outside bucket 0, on which HtClear spins for ever.
CallsEndUnlessSpinning == call # NoCall ~> call = NoCall \/ ClearSpins
=============================================================================
