----------------------------- MODULE EntryTable -----------------------------
(***************************************************************************)
(* What CC_HASH_TABLE promises its callers: a collection of entries in       *)
(* which one key may occur more than once.  A lookup answers with the value  *)
(* of some entry of the key, a removal takes some entry of the key away, and *)
(* both fail exactly when there is none.  HashTable implements it.           *)
(***************************************************************************)
EXTENDS FiniteSets, Integers

CONSTANTS
  Ids, Keys, Values,
  StoredAs    \* the key under which an entry of each key is kept

VARIABLES
  entries,   \* the entries in the table
  answer     \* the last call to return, and what it returned

NoAnswer == [op |-> "none"]
Answer(op, k, code) == [op |-> op, key |-> k, code |-> code]

OfKey(k) == {e \in entries : e.key = k}

Init == entries = {} /\ answer = NoAnswer

\* A call begins: it takes effect when it returns.
Call == UNCHANGED entries /\ answer' = NoAnswer

\* The node allocation may fail, which leaves the table as it was.
Set(k, v) ==
  \/ /\ \E id \in Ids \ {e.id : e \in entries} :
          entries' = entries \cup {[id |-> id, key |-> StoredAs[k], value |-> v]}
     /\ answer' = NoAnswer
  \/ UNCHANGED entries /\ answer' = Answer("set", k, -1)

Has(k) ==
  /\ UNCHANGED entries
  /\ answer' = Answer("has", k, IF OfKey(k) # {} THEN 1 ELSE 0)

Get(k) ==
  /\ UNCHANGED entries
  /\ IF OfKey(k) = {} THEN answer' = Answer("get", k, -1)
     ELSE \E e \in OfKey(k) : answer' = [op |-> "get", key |-> k, value |-> e.value]

Remove(k) ==
  IF OfKey(k) = {} THEN UNCHANGED entries /\ answer' = Answer("remove", k, -1)
  ELSE \E e \in OfKey(k) : entries' = entries \ {e} /\ answer' = Answer("remove", k, 0)

Clear == entries' = {} /\ answer' = NoAnswer

Next ==
  \/ \E k \in Keys : Has(k) \/ Get(k) \/ Remove(k) \/ \E v \in Values : Set(k, v)
  \/ Call \/ Clear

Spec == Init /\ [][Next]_<<entries, answer>>
=============================================================================
