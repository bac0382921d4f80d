------------------------ MODULE KeyedThreadLocksProofs ------------------------
(***************************************************************************)
(* Mutual exclusion of KeyedThreadLocks and the absence of leaked entries, *)
(* for any finite set of threads and any sets of keys and lock objects.    *)
(***************************************************************************)
EXTENDS KeyedThreadLocks, FiniteSetTheorems, TLAPS

\* Every user of an id refers to the lock object of its entry, and a lock is
\* owned exactly by the thread that took it and has not released it.
Linked ==
  /\ \A t \in Threads : pc[t] # "idle" => ref[t] = entry[key[t]].lock /\ ref[t] \in LockIds
  /\ \A t \in Threads : pc[t] = "taken" => owner[ref[t]] = {t}

IInv == TypeOK /\ Linked /\ CountIsUsers

\* Entering or leaving hold() moves one thread in or out of the users of one
\* key; the other steps move nobody.  The users of a key are a finite set.
LEMMA UsersFinite ==
  ASSUME NEW k \in Keys
  PROVE  IsFiniteSet(Users(k))
<1>1. Users(k) \subseteq Threads
  BY DEF Users
<1>2. QED
  BY <1>1, ThreadsFinite, FS_Subset

LEMMA InitIInv == Init => IInv
<1> SUFFICES ASSUME Init PROVE IInv
  OBVIOUS
<1>1. TypeOK
  BY DEF Init, TypeOK, None, PCs
<1>2. Linked
  BY DEF Init, Linked
<1>3. ASSUME NEW k \in Keys
      PROVE  /\ entry[k].users = Cardinality(Users(k))
             /\ (entry[k] = None) <=> (Users(k) = {})
  <2>1. Users(k) = {}
    BY DEF Init, Users
  <2>2. QED
    BY <2>1, FS_EmptySet DEF Init, None
<1>4. QED
  BY <1>1, <1>2, <1>3 DEF IInv, CountIsUsers

LEMMA RegisterIInv ==
  ASSUME IInv, NEW t \in Threads, NEW k \in Keys, Register(t, k)
  PROVE  IInv'
<1> USE DEF IInv
<1>1. PICK l \in LockIds :
        /\ IF entry[k] = None THEN Unreferenced(l) ELSE l = entry[k].lock
        /\ entry' = [entry EXCEPT ![k] = [lock |-> l, users |-> entry[k].users + 1]]
        /\ ref' = [ref EXCEPT ![t] = l]
  BY DEF Register
<1>2. /\ pc[t] = "idle"
      /\ key' = [key EXCEPT ![t] = k]
      /\ pc' = [pc EXCEPT ![t] = "acquire"]
      /\ owner' = owner
  BY DEF Register
<1>3. entry[k].users \in Nat
  BY DEF TypeOK, None
<1>4. TypeOK'
  BY <1>1, <1>2, <1>3 DEF TypeOK, PCs
<1>5. Linked'
  <2>1. ASSUME NEW u \in Threads, pc'[u] # "idle"
        PROVE  ref'[u] = entry'[key'[u]].lock /\ ref'[u] \in LockIds
    <3>1. CASE u = t
      BY <1>1, <1>2, <3>1 DEF TypeOK
    <3>2. CASE u # t /\ key[u] = k
      <4>1. u \in Users(k)
        BY <1>2, <2>1, <3>2 DEF Users, TypeOK
      <4>2. l = entry[k].lock
        BY <1>1, <4>1 DEF CountIsUsers
      <4>3. QED
        BY <1>1, <1>2, <2>1, <3>2, <4>2 DEF TypeOK, Linked
    <3>3. CASE u # t /\ key[u] # k
      BY <1>1, <1>2, <2>1, <3>3 DEF TypeOK, Linked
    <3>4. QED
      BY <3>1, <3>2, <3>3
  <2>2. ASSUME NEW u \in Threads, pc'[u] = "taken"
        PROVE  owner'[ref'[u]] = {u}
    BY <1>1, <1>2, <2>2 DEF TypeOK, Linked
  <2>3. QED
    BY <2>1, <2>2 DEF Linked
<1>6. CountIsUsers'
  <2> SUFFICES ASSUME NEW j \in Keys
               PROVE  /\ entry'[j].users = Cardinality(Users(j)')
                      /\ (entry'[j] = None) <=> (Users(j)' = {})
    BY DEF CountIsUsers, None
  <2>1. CASE j = k
    <3>1. Users(k)' = Users(k) \cup {t} /\ t \notin Users(k)
      BY <1>2 DEF Users, TypeOK
    <3>2. Cardinality(Users(k)') = Cardinality(Users(k)) + 1
      BY <3>1, UsersFinite, FS_AddElement
    <3>3. entry'[k] = [lock |-> l, users |-> entry[k].users + 1]
      BY <1>1 DEF TypeOK
    <3>4. entry'[k] # None
      BY <3>3, NoLockIsNone DEF None
    <3>5. QED
      BY <2>1, <3>1, <3>2, <3>3, <3>4 DEF CountIsUsers
  <2>2. CASE j # k
    <3>1. Users(j)' = Users(j)
      BY <1>2, <2>2 DEF Users, TypeOK
    <3>2. entry'[j] = entry[j]
      BY <1>1, <2>2 DEF TypeOK
    <3>3. QED
      BY <3>1, <3>2 DEF CountIsUsers
  <2>3. QED
    BY <2>1, <2>2
<1>7. QED
  BY <1>4, <1>5, <1>6

\* Acquire, TimeOut and Release move a thread between non-idle places of
\* hold() and leave the map alone.
LEMMA SameUsers ==
  ASSUME TypeOK, CountIsUsers, NEW t \in Threads, UNCHANGED <<entry, key>>,
         pc[t] # "idle", NEW p, p # "idle", pc' = [pc EXCEPT ![t] = p]
  PROVE  CountIsUsers'
<1>1. \A k \in Keys : Users(k)' = Users(k)
  BY DEF Users, TypeOK
<1>2. QED
  BY <1>1 DEF CountIsUsers, None

LEMMA AcquireIInv ==
  ASSUME IInv, NEW t \in Threads, Acquire(t)
  PROVE  IInv'
<1> USE DEF IInv, Acquire
<1>1. ref[t] \in LockIds
  BY DEF Linked
<1>2. TypeOK'
  BY <1>1 DEF TypeOK, PCs
<1>3. Linked'
  BY <1>1 DEF TypeOK, Linked
<1>4. CountIsUsers'
  BY SameUsers
<1>5. QED
  BY <1>2, <1>3, <1>4

LEMMA TimeOutIInv ==
  ASSUME IInv, NEW t \in Threads, TimeOut(t)
  PROVE  IInv'
<1> USE DEF IInv, TimeOut
<1>1. TypeOK'
  BY DEF TypeOK, PCs
<1>2. Linked'
  BY DEF TypeOK, Linked
<1>3. CountIsUsers'
  BY SameUsers
<1>4. QED
  BY <1>1, <1>2, <1>3

LEMMA ReleaseIInv ==
  ASSUME IInv, NEW t \in Threads, Release(t)
  PROVE  IInv'
<1> USE DEF IInv, Release
<1>1. ref[t] \in LockIds
  BY DEF Linked
<1>2. TypeOK'
  BY <1>1 DEF TypeOK, PCs
<1>3. Linked'
  <2>1. ASSUME NEW u \in Threads, pc'[u] # "idle"
        PROVE  ref'[u] = entry'[key'[u]].lock /\ ref'[u] \in LockIds
    BY <2>1 DEF TypeOK, Linked
  <2>2. ASSUME NEW u \in Threads, pc'[u] = "taken"
        PROVE  owner'[ref'[u]] = {u}
    <3>1. pc[u] = "taken" /\ u # t /\ ref'[u] = ref[u] /\ owner[ref[u]] = {u}
      BY <2>2 DEF TypeOK, Linked
    <3>2. CASE pc[t] = "taken"
      <4>1. owner[ref[t]] = {t} /\ ref[u] \in LockIds
        BY <3>1, <3>2 DEF Linked
      <4>2. ref[u] # ref[t] /\ owner' = [owner EXCEPT ![ref[t]] = {}]
        BY <3>1, <3>2, <4>1
      <4>3. QED
        BY <1>1, <3>1, <4>1, <4>2 DEF TypeOK
    <3>3. CASE pc[t] # "taken"
      BY <3>1, <3>3
    <3>4. QED
      BY <3>2, <3>3
  <2>3. QED
    BY <2>1, <2>2 DEF Linked
<1>4. CountIsUsers'
  BY SameUsers
<1>5. QED
  BY <1>2, <1>3, <1>4

LEMMA LeaveIInv ==
  ASSUME IInv, NEW t \in Threads, Leave(t)
  PROVE  IInv'
<1> USE DEF IInv
<1>1. PICK k \in Keys : k = key[t]
  BY DEF TypeOK
<1>2. /\ pc[t] = "leave"
      /\ entry' = [entry EXCEPT ![k] = WithoutOne(entry[k])]
      /\ pc' = [pc EXCEPT ![t] = "idle"]
      /\ ref' = [ref EXCEPT ![t] = NoLock]
      /\ owner' = owner /\ key' = key
  BY <1>1 DEF Leave
<1>3. t \in Users(k)
  BY <1>1, <1>2 DEF Users
<1>4. entry[k] \in [lock : LockIds, users : Nat \ {0}]
  BY <1>1, <1>3 DEF CountIsUsers, TypeOK
<1>5. TypeOK'
  BY <1>1, <1>2, <1>4 DEF TypeOK, PCs, WithoutOne
<1>6. IsFiniteSet(Users(k)) /\ Cardinality(Users(k)) \in Nat
  BY <1>1, UsersFinite, FS_CardinalityType
<1>7. /\ Users(k)' = Users(k) \ {t}
      /\ Cardinality(Users(k)') = Cardinality(Users(k)) - 1
  <2>1. Users(k)' = Users(k) \ {t}
    BY <1>1, <1>2 DEF Users, TypeOK
  <2>2. QED
    BY <1>3, <1>6, <2>1, FS_RemoveElement
<1>8. (entry[k].users <= 1) <=> (Users(k)' = {})
  <2>1. entry[k].users = Cardinality(Users(k))
    BY <1>1 DEF CountIsUsers
  <2>2. IsFiniteSet(Users(k)')
    BY <1>6, <1>7, FS_Subset
  <2>3. (Users(k)' = {}) <=> (Cardinality(Users(k)') = 0)
    BY <2>2, FS_EmptySet
  <2>4. QED
    BY <1>4, <1>6, <1>7, <2>1, <2>3
<1>9. Linked'
  <2>1. ASSUME NEW u \in Threads, pc'[u] # "idle"
        PROVE  ref'[u] = entry'[key'[u]].lock /\ ref'[u] \in LockIds
    <3>1. u # t /\ pc[u] = pc'[u]
      BY <1>2, <2>1 DEF TypeOK
    <3>2. CASE key[u] = k
      <4>1. u \in Users(k)'
        BY <1>2, <2>1, <3>2 DEF Users
      <4>2. entry'[k] = WithoutOne(entry[k]) /\ ~(entry[k].users <= 1)
        BY <1>1, <1>2, <1>8, <4>1 DEF TypeOK
      <4>3. entry'[k].lock = entry[k].lock
        BY <4>2 DEF WithoutOne
      <4>4. QED
        BY <1>2, <2>1, <3>1, <3>2, <4>3 DEF Linked, TypeOK
    <3>3. CASE key[u] # k
      BY <1>2, <2>1, <3>1, <3>3 DEF TypeOK, Linked
    <3>4. QED
      BY <3>2, <3>3
  <2>2. ASSUME NEW u \in Threads, pc'[u] = "taken"
        PROVE  owner'[ref'[u]] = {u}
    BY <1>2, <2>2 DEF TypeOK, Linked
  <2>3. QED
    BY <2>1, <2>2 DEF Linked
<1>10. CountIsUsers'
  <2> SUFFICES ASSUME NEW j \in Keys
               PROVE  /\ entry'[j].users = Cardinality(Users(j)')
                      /\ (entry'[j] = None) <=> (Users(j)' = {})
    BY DEF CountIsUsers, None
  <2>1. CASE j = k /\ entry[k].users <= 1
    <3>1. Users(k)' = {} /\ entry'[k] = None
      BY <1>1, <1>2, <1>8, <2>1 DEF TypeOK, WithoutOne
    <3>2. QED
      BY <2>1, <3>1, FS_EmptySet DEF None
  <2>2. CASE j = k /\ ~(entry[k].users <= 1)
    <3>1. entry'[k] = [lock |-> entry[k].lock, users |-> entry[k].users - 1]
      BY <1>1, <1>2, <2>2 DEF TypeOK, WithoutOne
    <3>2. entry'[k].users = entry[k].users - 1 /\ entry'[k].lock \in LockIds
      BY <1>4, <3>1
    <3>3. entry'[k] # None
      BY <3>2, NoLockIsNone DEF None
    <3>4. QED
      BY <1>1, <1>7, <1>8, <2>2, <3>2, <3>3 DEF CountIsUsers
  <2>3. CASE j # k
    <3>1. Users(j)' = Users(j)
      BY <1>1, <1>2, <2>3 DEF Users, TypeOK
    <3>2. entry'[j] = entry[j]
      BY <1>1, <1>2, <2>3 DEF TypeOK
    <3>3. QED
      BY <3>1, <3>2 DEF CountIsUsers
  <2>4. QED
    BY <2>1, <2>2, <2>3
<1>11. QED
  BY <1>5, <1>9, <1>10

LEMMA StutterIInv == IInv /\ UNCHANGED vars => IInv'
<1> SUFFICES ASSUME IInv, UNCHANGED vars PROVE IInv'
  OBVIOUS
<1>1. \A k \in Keys : Users(k)' = Users(k)
  BY DEF vars, Users
<1>2. QED
  BY <1>1 DEF vars, IInv, TypeOK, Linked, CountIsUsers, None

LEMMA NextIInv == IInv /\ [Next]_vars => IInv'
BY RegisterIInv, AcquireIInv, TimeOutIInv, ReleaseIInv, LeaveIInv, StutterIInv DEF Next

LEMMA IInvHolds == Spec => []IInv
BY InitIInv, NextIInv, PTL DEF Spec

\* The map and the threads' variables keep their types in every reachable state.
THEOREM TypeCorrect == Spec => []TypeOK
<1>1. IInv => TypeOK
  BY DEF IInv
<1>2. QED
  BY <1>1, IInvHolds, PTL

\* The locks of hold() exclude each other per id: dropping an entry with its
\* last user never lets two threads hold different lock objects of one id.
THEOREM MutualExclusionHolds == Spec => []MutualExclusion
<1>1. IInv => MutualExclusion
  BY DEF IInv, Linked, MutualExclusion
<1>2. QED
  BY <1>1, IInvHolds, PTL

\* No entry leaks and none is dropped too early: an id is in the map exactly
\* while some thread uses it, and its count is the number of those threads.
THEOREM CountIsUsersHolds == Spec => []CountIsUsers
<1>1. IInv => CountIsUsers
  BY DEF IInv
<1>2. QED
  BY <1>1, IInvHolds, PTL
===============================================================================
