--------------------------- MODULE KeyedThreadLocks ---------------------------
(***************************************************************************)
(* Locks by id for worker threads (knowledge/keyed_locks.py).              *)
(*                                                                         *)
(* A lock object is created when the first thread asks for a key and its   *)
(* entry is dropped when the last user of the key leaves.  A "user" is a   *)
(* thread that holds the lock, waits for it, or has released it and not    *)
(* yet decremented the count: the three are separate steps of hold(), so   *)
(* another thread may run between any two of them.                         *)
(***************************************************************************)
EXTENDS Naturals, FiniteSets

CONSTANTS
  Threads,   \* worker threads
  Keys,      \* ids a lock is asked for: materials, files, blocks
  LockIds,   \* identities of lock objects; an unreferenced one may be reused
  NoLock     \* "no object"

ASSUME ThreadsFinite == IsFiniteSet(Threads)
ASSUME NoLockIsNone == NoLock \notin LockIds

VARIABLES
  entry,   \* _locks: per key the lock object and the number of its users
  owner,   \* who has acquired a lock object: a set of threads
  pc,      \* where a thread is in hold()
  key,     \* the key it asked for
  ref      \* the lock object it took from the map

vars == <<entry, owner, pc, key, ref>>

None == [lock |-> NoLock, users |-> 0]

\* "idle" outside hold(); "acquire" registered, inside lock.acquire();
\* "taken"/"timedout" in the body; "leave" past release, before the count.
PCs == {"idle", "acquire", "taken", "timedout", "leave"}

\* A lock object no map entry and no thread refers to: garbage, or never made.
Unreferenced(l) ==
  /\ \A k \in Keys : entry[k].lock # l
  /\ \A t \in Threads : ref[t] # l

Init ==
  /\ entry = [k \in Keys |-> None]
  /\ owner = [l \in LockIds |-> {}]
  /\ pc = [t \in Threads |-> "idle"]
  /\ key \in [Threads -> Keys]
  /\ ref = [t \in Threads |-> NoLock]

\* with self._guard: lock, users = get(key, (Lock(), 0)); store (lock, users + 1)
Register(t, k) ==
  /\ pc[t] = "idle"
  /\ \E l \in LockIds :
       /\ IF entry[k] = None THEN Unreferenced(l) ELSE l = entry[k].lock
       /\ entry' = [entry EXCEPT ![k] = [lock |-> l, users |-> entry[k].users + 1]]
       /\ ref' = [ref EXCEPT ![t] = l]
  /\ key' = [key EXCEPT ![t] = k]
  /\ pc' = [pc EXCEPT ![t] = "acquire"]
  /\ UNCHANGED owner

\* lock.acquire(timeout=timeout) returns True
Acquire(t) ==
  /\ pc[t] = "acquire"
  /\ owner[ref[t]] = {}
  /\ owner' = [owner EXCEPT ![ref[t]] = {t}]
  /\ pc' = [pc EXCEPT ![t] = "taken"]
  /\ UNCHANGED <<entry, key, ref>>

\* lock.acquire(timeout=timeout) returns False: the body still runs, with
\* taken = False, and the lock is not released afterwards
TimeOut(t) ==
  /\ pc[t] = "acquire"
  /\ owner[ref[t]] # {}
  /\ pc' = [pc EXCEPT ![t] = "timedout"]
  /\ UNCHANGED <<entry, owner, key, ref>>

\* finally: if taken: lock.release()
Release(t) ==
  /\ \/ /\ pc[t] = "taken"
        /\ owner' = [owner EXCEPT ![ref[t]] = {}]
     \/ /\ pc[t] = "timedout"
        /\ UNCHANGED owner
  /\ pc' = [pc EXCEPT ![t] = "leave"]
  /\ UNCHANGED <<entry, key, ref>>

\* Mutant of Leave: whoever leaves drops the entry, waiters or not.
LeaveDroppingEntry(t) ==
  /\ pc[t] = "leave"
  /\ entry' = [entry EXCEPT ![key[t]] = None]
  /\ pc' = [pc EXCEPT ![t] = "idle"]
  /\ ref' = [ref EXCEPT ![t] = NoLock]
  /\ UNCHANGED <<owner, key>>

\* What is left of an entry when one of its users leaves.
WithoutOne(e) ==
  IF e.users <= 1 THEN None ELSE [lock |-> e.lock, users |-> e.users - 1]

\* with self._guard: drop the entry with its last user, else count one less
Leave(t) ==
  /\ pc[t] = "leave"
  /\ entry' = [entry EXCEPT ![key[t]] = WithoutOne(@)]
  /\ pc' = [pc EXCEPT ![t] = "idle"]
  /\ ref' = [ref EXCEPT ![t] = NoLock]
  /\ UNCHANGED <<owner, key>>

Next ==
  \E t \in Threads :
    \/ \E k \in Keys : Register(t, k)
    \/ Acquire(t) \/ TimeOut(t) \/ Release(t) \/ Leave(t)

Spec == Init /\ [][Next]_vars

(* Properties *)

Users(k) == {t \in Threads : pc[t] # "idle" /\ key[t] = k}

\* The state has the shape of the code's map and of the threads' local
\* variables; an entry that is in the map has a lock and at least one user.
TypeOK ==
  /\ entry \in [Keys -> {None} \cup [lock : LockIds, users : Nat \ {0}]]
  /\ owner \in [LockIds -> SUBSET Threads]
  /\ pc \in [Threads -> PCs]
  /\ key \in [Threads -> Keys]
  /\ ref \in [Threads -> LockIds \cup {NoLock}]

\* Two threads in the body of hold() for one id, both told they took the lock,
\* never coexist, whatever entries were dropped and created in between.
MutualExclusion ==
  \A t, u \in Threads :
    pc[t] = "taken" /\ pc[u] = "taken" /\ key[t] = key[u] => t = u

\* The map holds exactly the ids in use right now: the count of an entry is
\* the number of its users, and an id nobody uses has no entry (no leak).
CountIsUsers ==
  \A k \in Keys :
    /\ entry[k].users = Cardinality(Users(k))
    /\ (entry[k] = None) <=> (Users(k) = {})
===============================================================================
