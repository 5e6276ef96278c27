------------------------------ MODULE SRWLock ------------------------------
(***************************************************************************)
(* The Windows slim reader/writer lock, as the server uses it: a value that *)
(* holds at most one exclusive owner or any number of shared owners.  The   *)
(* lock is code of the operating system; the operators below are what       *)
(* AcquireSRWLock* and ReleaseSRWLock* do to it.  Owners are not recorded by *)
(* the real lock, which is why a handler that returns without releasing     *)
(* leaves it taken for ever: the model keeps the owner only to name it.     *)
(***************************************************************************)

Unlocked == [writer |-> {}, readers |-> {}]

Locks(Owners) == [writer : SUBSET Owners, readers : SUBSET Owners]

CanLock(lock)  == lock.writer = {} /\ lock.readers = {}
CanShare(lock) == lock.writer = {}

Lock(lock, owner)    == [lock EXCEPT !.writer = {owner}]
Unlock(lock)         == [lock EXCEPT !.writer = {}]
Share(lock, owner)   == [lock EXCEPT !.readers = @ \cup {owner}]
Unshare(lock, owner) == [lock EXCEPT !.readers = @ \ {owner}]
=============================================================================
