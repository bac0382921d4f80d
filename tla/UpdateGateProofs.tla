--------------------------- MODULE UpdateGateProofs ---------------------------
(***************************************************************************)
(* Proofs about UpdateGate for every set of agents and works, every        *)
(* nesting of works and every number of updates.                           *)
(***************************************************************************)
EXTENDS UpdateGate, FiniteSetTheorems, TLAPS

\* The counted works of an agent.
In(e) == {w \in Works : at[w] = "in" /\ EngineOf[w] = e}

(***************************************************************************)
(* The inductive invariant.  Work that is not counted (free) is always     *)
(* covered by counted work of the same agent, and an update that runs has  *)
(* found the count at zero.                                                *)
(***************************************************************************)
CountedExactly == \A e \in Engines : active[e] = Cardinality(In(e))

BlockedByUpdate == \A e \in Engines : e \in blocked <=> update[e] \in Exclusive

KilledEarly == \A e \in kill : update[e] \in {"begun", "waiting"}

FreeIsCovered ==
  \A w \in Works : at[w] = "free" =>
    /\ w \notin Remote
    /\ \E o \in Outer[w] : at[o] = "in" /\ EngineOf[o] = EngineOf[w]

UpdateFindsNobody ==
  \A w \in Works : at[w] = "in" => update[EngineOf[w]] \notin {"installing", "after"}

ReachedWentIn == \A w \in reached : at[w] \in {"in", "over"} /\ w \notin stop

GInv ==
  /\ TypeOK /\ CountedExactly /\ BlockedByUpdate /\ KilledEarly
  /\ FreeIsCovered /\ UpdateFindsNobody /\ ReachedWentIn

LEMMA InFinite ==
  ASSUME NEW e \in Engines
  PROVE  IsFiniteSet(In(e)) /\ Cardinality(In(e)) \in Nat
<1>1. In(e) \subseteq Works
  BY DEF In
<1>2. QED
  BY <1>1, WorksFinite, FS_Subset, FS_CardinalityType

\* The count follows the works that go in and out: one work at a time.
LEMMA OneIn ==
  ASSUME GInv, NEW w \in Works, at[w] # "in",
         at' = [at EXCEPT ![w] = "in"],
         active' = [active EXCEPT ![EngineOf[w]] = active[EngineOf[w]] + 1]
  PROVE  CountedExactly' /\ active' \in [Engines -> Nat]
<1> DEFINE f == EngineOf[w]
<1>0. f \in Engines /\ active \in [Engines -> Nat] /\ at \in [Works -> Places]
  BY EngineOfWorks DEF GInv, TypeOK
<1>1. In(f)' = In(f) \cup {w} /\ w \notin In(f)
  BY <1>0 DEF In
<1>2. Cardinality(In(f)') = Cardinality(In(f)) + 1
  BY <1>0, <1>1, InFinite, FS_AddElement
<1>3. \A e \in Engines : e # f => In(e)' = In(e)
  BY <1>0 DEF In
<1>4. \A e \in Engines : active[e] = Cardinality(In(e))
  BY DEF GInv, CountedExactly
<1>5. ASSUME NEW e \in Engines PROVE active'[e] = Cardinality(In(e)')
  <2>1. CASE e = f
    BY <1>0, <1>2, <1>4, <2>1
  <2>2. CASE e # f
    BY <1>0, <1>3, <1>4, <2>2
  <2>3. QED
    BY <2>1, <2>2
<1>6. QED
  BY <1>0, <1>5 DEF CountedExactly

LEMMA OneOut ==
  ASSUME GInv, NEW w \in Works, at[w] = "in",
         at' = [at EXCEPT ![w] = "over"]
  PROVE  /\ active[EngineOf[w]] > 0
         /\ active' = [active EXCEPT ![EngineOf[w]] = active[EngineOf[w]] - 1]
              => CountedExactly' /\ active' \in [Engines -> Nat]
<1> DEFINE f == EngineOf[w]
<1>0. f \in Engines /\ active \in [Engines -> Nat] /\ at \in [Works -> Places]
  BY EngineOfWorks DEF GInv, TypeOK
<1>1. In(f)' = In(f) \ {w} /\ w \in In(f)
  BY <1>0 DEF In
<1>2. Cardinality(In(f)') = Cardinality(In(f)) - 1 /\ Cardinality(In(f)) > 0
  <2>1. Cardinality(In(f)) # 0
    BY <1>0, <1>1, InFinite, FS_EmptySet
  <2>2. IsFiniteSet(In(f)) /\ Cardinality(In(f)) \in Nat
    BY <1>0, InFinite
  <2>3. Cardinality(In(f) \ {w}) = Cardinality(In(f)) - 1
    BY <1>1, <2>2, FS_RemoveElement
  <2>4. QED
    BY <1>1, <2>1, <2>2, <2>3
<1>3. \A e \in Engines : e # f => In(e)' = In(e)
  BY <1>0 DEF In
<1>4. \A e \in Engines : active[e] = Cardinality(In(e))
  BY DEF GInv, CountedExactly
<1>5. active[f] > 0
  BY <1>0, <1>2, <1>4
<1>6. ASSUME active' = [active EXCEPT ![f] = active[f] - 1]
      PROVE  CountedExactly' /\ active' \in [Engines -> Nat]
  <2>1. active' \in [Engines -> Nat]
    BY <1>0, <1>5, <1>6
  <2>2. ASSUME NEW e \in Engines PROVE active'[e] = Cardinality(In(e)')
    <3>1. CASE e = f
      BY <1>0, <1>2, <1>4, <1>6, <3>1
    <3>2. CASE e # f
      BY <1>0, <1>3, <1>4, <1>6, <3>2
    <3>3. QED
      BY <3>1, <3>2
  <2>3. QED
    BY <2>1, <2>2 DEF CountedExactly
<1>7. QED
  BY <1>5, <1>6

\* Nobody is in when the count is zero.
LEMMA ZeroIsEmpty ==
  ASSUME GInv, NEW e \in Engines, active[e] = 0
  PROVE  \A w \in Works : at[w] = "in" => EngineOf[w] # e
<1>1. Cardinality(In(e)) = 0
  BY DEF GInv, CountedExactly
<1>2. In(e) = {}
  BY <1>1, InFinite, FS_EmptySet
<1>3. QED
  BY <1>2 DEF In

\* Steps that move no work in or out keep the count.
LEMMA SameIn ==
  ASSUME GInv, active' = active,
         \A w \in Works : at'[w] = "in" <=> at[w] = "in"
  PROVE  CountedExactly' /\ active' \in [Engines -> Nat]
<1>1. \A e \in Engines : In(e)' = In(e)
  BY DEF In
<1>2. QED
  BY <1>1 DEF GInv, CountedExactly, TypeOK


THEOREM InitGInv == Init => GInv
<1> SUFFICES ASSUME Init PROVE GInv
  OBVIOUS
<1> USE DEF Init
<1>1. TypeOK
  BY MaxUpdatesNat DEF TypeOK, Places, Phases
<1>2. CountedExactly
  <2>1. \A e \in Engines : In(e) = {}
    BY DEF In
  <2>2. QED
    BY <2>1, FS_EmptySet DEF CountedExactly
<1>3. BlockedByUpdate /\ KilledEarly /\ FreeIsCovered /\ UpdateFindsNobody /\ ReachedWentIn
  BY EngineOfWorks DEF BlockedByUpdate, KilledEarly, FreeIsCovered, UpdateFindsNobody, ReachedWentIn,
    Exclusive
<1>4. QED
  BY <1>1, <1>2, <1>3 DEF GInv

(***************************************************************************)
(* Steps of a piece of work                                                *)
(***************************************************************************)

\* A work that is not in moves to a place where it is not in either.
LEMMA Stays ==
  ASSUME GInv, NEW w \in Works, at[w] \notin {"in", "free", "over"},
         NEW p \in Places \ {"in", "free"}, at' = [at EXCEPT ![w] = p],
         woken' \subseteq Works \cup Engines,
         UNCHANGED <<reached, active, blocked, updates>>,
         \/ UNCHANGED stop
         \/ stop' = stop \cup {w}
  PROVE  GInv'
<1>1. at \in [Works -> Places] /\ at' \in [Works -> Places]
  BY DEF GInv, TypeOK
<1>2. TypeOK'
  BY <1>1 DEF GInv, TypeOK, updates
<1>3. CountedExactly'
  BY <1>1, SameIn
<1>4. BlockedByUpdate' /\ KilledEarly'
  BY DEF GInv, BlockedByUpdate, KilledEarly, updates
<1>5. FreeIsCovered' /\ UpdateFindsNobody'
  BY <1>1 DEF GInv, FreeIsCovered, UpdateFindsNobody, updates
<1>6. ReachedWentIn'
  BY <1>1 DEF GInv, TypeOK, ReachedWentIn
<1>7. QED
  BY <1>2, <1>3, <1>4, <1>5, <1>6 DEF GInv

\* A work goes in: no update has its agent.
LEMMA Enters ==
  ASSUME GInv, NEW w \in Works, at[w] \in {"idle", "called", "waiting"},
         Held(w) \/ EngineOf[w] \notin blocked,
         w \notin stop, GoIn(w), woken' \subseteq Works \cup Engines,
         UNCHANGED <<stop, blocked, updates>>
  PROVE  GInv' /\ update[EngineOf[w]] \notin {"installing", "after"}
<1> DEFINE f == EngineOf[w]
<1>0. f \in Engines
  BY EngineOfWorks
<1>1. at \in [Works -> Places] /\ at' \in [Works -> Places] /\ at' = [at EXCEPT ![w] = "in"]
  BY DEF GInv, TypeOK, GoIn, Places
<1>2. update[f] \notin {"installing", "after"}
  <2>1. CASE Held(w)
    <3>1. PICK o \in Outer[w] : at[o] = "in" /\ EngineOf[o] = f
      BY <2>1 DEF Held
    <3>2. QED
      BY <3>1, OuterWorks DEF GInv, UpdateFindsNobody
  <2>2. CASE f \notin blocked
    BY <1>0, <2>2 DEF GInv, BlockedByUpdate, Exclusive
  <2>3. QED
    BY <2>1, <2>2
<1>3. CountedExactly' /\ active' \in [Engines -> Nat]
  BY <1>1, OneIn DEF GoIn, Count
<1>4. reached' \subseteq reached \cup {w}
  BY DEF GoIn
<1>5. TypeOK'
  BY <1>1, <1>3, <1>4 DEF GInv, TypeOK, updates
<1>6. BlockedByUpdate' /\ KilledEarly'
  BY DEF GInv, BlockedByUpdate, KilledEarly, updates
<1>7. FreeIsCovered'
  <2>1. \A o \in Works : at[o] = "in" => at'[o] = "in"
    BY <1>1
  <2>2. \A v \in Works : at'[v] = "free" => at[v] = "free"
    BY <1>1
  <2>3. QED
    BY <2>1, <2>2, OuterWorks DEF GInv, FreeIsCovered
<1>8. UpdateFindsNobody'
  BY <1>1, <1>2 DEF GInv, UpdateFindsNobody, updates
<1>9. ReachedWentIn'
  BY <1>1, <1>4 DEF GInv, TypeOK, ReachedWentIn
<1>10. QED
  BY <1>2, <1>3, <1>5, <1>6, <1>7, <1>8, <1>9 DEF GInv

LEMMA CallStep ==
  ASSUME GInv, NEW w \in Works, Call(w)
  PROVE  GInv'
<1>1. woken' \subseteq Works \cup Engines
  BY DEF GInv, TypeOK, Call, gate
<1>2. QED
  BY <1>1, Stays DEF Call, Places, gate

LEMMA ArriveStep ==
  ASSUME GInv, NEW w \in Works, Arrive(w)
  PROVE  GInv'
<1>0. /\ at[w] \in {"idle", "called"}
      /\ woken' \subseteq Works \cup Engines
      /\ UNCHANGED <<stop, blocked, woken, updates>>
  BY DEF Arrive, GInv, TypeOK
<1>1. CASE at' = [at EXCEPT ![w] = "stopped"] /\ UNCHANGED <<active, reached>>
  BY <1>0, <1>1, Stays DEF Places
<1>2. CASE at' = [at EXCEPT ![w] = "waiting"] /\ UNCHANGED <<active, reached>>
  BY <1>0, <1>2, Stays DEF Places
<1>3. CASE w \notin stop /\ (Held(w) \/ EngineOf[w] \notin blocked) /\ GoIn(w)
  BY <1>0, <1>3, Enters
<1>4. CASE Held(w) /\ at' = [at EXCEPT ![w] = "free"] /\ UNCHANGED <<active, reached>>
  <2>1. at \in [Works -> Places] /\ at' \in [Works -> Places]
    BY <1>4 DEF GInv, TypeOK, Places
  <2>2. TypeOK'
    BY <1>0, <1>4, <2>1 DEF GInv, TypeOK, updates
  <2>3. CountedExactly'
    BY <1>0, <1>4, <2>1, SameIn
  <2>4. BlockedByUpdate' /\ KilledEarly'
    BY <1>0 DEF GInv, BlockedByUpdate, KilledEarly, updates
  <2>5. FreeIsCovered'
    <3>1. PICK o \in Outer[w] : at[o] = "in" /\ EngineOf[o] = EngineOf[w]
      BY <1>4 DEF Held
    <3>2. o \in Works /\ at'[o] = "in" /\ w \notin Remote
      BY <1>0, <1>4, <2>1, <3>1, OuterWorks DEF Held
    <3>3. \A v \in Works : at[v] = "in" => at'[v] = "in"
      BY <1>0, <1>4, <2>1
    <3>4. \A v \in Works : at'[v] = "free" => v = w \/ at[v] = "free"
      BY <1>4, <2>1
    <3>5. QED
      BY <3>1, <3>2, <3>3, <3>4, OuterWorks DEF GInv, FreeIsCovered
  <2>6. UpdateFindsNobody' /\ ReachedWentIn'
    BY <1>0, <1>4, <2>1 DEF GInv, TypeOK, UpdateFindsNobody, ReachedWentIn, updates
  <2>7. QED
    BY <2>2, <2>3, <2>4, <2>5, <2>6 DEF GInv
<1>5. QED
  BY <1>1, <1>2, <1>3, <1>4 DEF Arrive

LEMMA WakeStep ==
  ASSUME GInv, NEW w \in Works, Wake(w)
  PROVE  GInv'
<1>0. /\ at[w] = "waiting"
      /\ woken' \subseteq Works \cup Engines
      /\ UNCHANGED <<stop, blocked, updates>>
  BY DEF Wake, GInv, TypeOK
<1>1. CASE at' = [at EXCEPT ![w] = "stopped"] /\ UNCHANGED <<active, reached>>
  BY <1>0, <1>1, Stays DEF Places
<1>2. CASE UNCHANGED <<at, active, reached>>
  <2>1. at' = [at EXCEPT ![w] = "waiting"]
    BY <1>0, <1>2 DEF GInv, TypeOK
  <2>2. QED
    BY <1>0, <1>2, <2>1, Stays DEF Places
<1>3. CASE w \notin stop /\ EngineOf[w] \notin blocked /\ GoIn(w)
  BY <1>0, <1>3, Enters
<1>4. QED
  BY <1>1, <1>2, <1>3 DEF Wake

LEMMA InterruptStep ==
  ASSUME GInv, NEW w \in Works, Interrupt(w)
  PROVE  GInv'
<1>1. at' = [at EXCEPT ![w] = at[w]] /\ at[w] \in {"called", "waiting"}
  BY DEF GInv, TypeOK, Interrupt
<1>2. woken' \subseteq Works \cup Engines
  BY DEF Interrupt, GInv, TypeOK
<1>3. QED
  BY <1>1, <1>2, Stays DEF Interrupt, Places

LEMMA AbandonStep ==
  ASSUME GInv, NEW w \in Works, Abandon(w)
  PROVE  GInv'
<1>1. woken' \subseteq Works \cup Engines /\ at[w] \in {"called", "waiting"}
  BY DEF Abandon, GInv, TypeOK
<1>2. QED
  BY <1>1, Stays DEF Abandon, Places

LEMMA SleepersType ==
  ASSUME TypeOK
  PROVE  (woken \cup Sleepers) \subseteq Works \cup Engines
BY DEF TypeOK, Sleepers

\* A run's tools have ended before the run does, so nothing loses its cover.
LEMMA EndStep ==
  ASSUME GInv, NEW w \in Works, End(w)
  PROVE  GInv'
<1>1. /\ at \in [Works -> Places] /\ at' \in [Works -> Places]
      /\ at' = [at EXCEPT ![w] = "over"]
      /\ at[w] \in {"in", "free"}
      /\ UNCHANGED <<stop, reached, blocked, updates>>
  BY DEF GInv, TypeOK, End, Places
<1>2. CountedExactly' /\ active' \in [Engines -> Nat] /\ woken' \subseteq Works \cup Engines
  <2>1. CASE at[w] = "in"
    <3>1. woken' \subseteq Works \cup Engines
      BY <2>1, SleepersType DEF End, Signal, GInv
    <3>2. active[EngineOf[w]] > 0
      BY <1>1, <2>1, OneOut
    <3>3. active' = [active EXCEPT ![EngineOf[w]] = active[EngineOf[w]] - 1]
      BY <2>1, <3>2 DEF End, Count
    <3>4. QED
      BY <1>1, <2>1, <3>1, <3>3, OneOut
  <2>2. CASE at[w] = "free"
    <3>1. UNCHANGED <<active, woken>>
      BY <2>2 DEF End
    <3>2. QED
      BY <1>1, <2>2, <3>1, SameIn DEF GInv, TypeOK
  <2>3. QED
    BY <1>1, <2>1, <2>2
<1>3. TypeOK'
  BY <1>1, <1>2 DEF GInv, TypeOK, updates
<1>4. BlockedByUpdate' /\ KilledEarly'
  BY <1>1 DEF GInv, BlockedByUpdate, KilledEarly, updates
<1>5. FreeIsCovered'
  <2> SUFFICES ASSUME NEW v \in Works, at'[v] = "free"
               PROVE  /\ v \notin Remote
                      /\ \E o \in Outer[v] : at'[o] = "in" /\ EngineOf[o] = EngineOf[v]
    BY DEF FreeIsCovered
  <2>1. at[v] = "free"
    BY <1>1
  <2>2. PICK o \in Outer[v] : at[o] = "in" /\ EngineOf[o] = EngineOf[v]
    BY <2>1 DEF GInv, FreeIsCovered
  <2>3. v \notin Remote
    BY <2>1 DEF GInv, FreeIsCovered
  <2>4. o # w
    BY <2>1, <2>2, <2>3 DEF End, Inner
  <2>5. QED
    BY <1>1, <2>2, <2>3, <2>4, OuterWorks
<1>6. UpdateFindsNobody' /\ ReachedWentIn'
  BY <1>1 DEF GInv, TypeOK, UpdateFindsNobody, ReachedWentIn, updates
<1>7. QED
  BY <1>2, <1>3, <1>4, <1>5, <1>6 DEF GInv

(***************************************************************************)
(* Steps of an update                                                      *)
(***************************************************************************)

\* An update moves on.  It blocks its agent in the exclusive phases and nowhere else,
\* and it begins to install only when it has found the count at zero.
LEMMA Moves ==
  ASSUME GInv, NEW e \in Engines, NEW p \in Phases,
         UNCHANGED <<at, stop, reached, active>>,
         update' = [update EXCEPT ![e] = p],
         p \in {"installing", "after"} => active[e] = 0 \/ update[e] = "installing",
         blocked' = IF p \in Exclusive THEN blocked \cup {e} ELSE blocked \ {e},
         woken' \subseteq Works \cup Engines,
         job' \subseteq Engines, kill' \subseteq kill \cup {e}, hand' \subseteq Engines,
         e \in kill' => p \in {"begun", "waiting"},
         asked' \in [Engines -> 0 .. MaxUpdates]
  PROVE  GInv'
<1>1. update \in [Engines -> Phases] /\ update' \in [Engines -> Phases]
  BY DEF GInv, TypeOK
<1>2. TypeOK'
  BY <1>1 DEF GInv, TypeOK
<1>3. CountedExactly'
  BY SameIn
<1>4. BlockedByUpdate'
  BY <1>1 DEF GInv, BlockedByUpdate
<1>5. KilledEarly'
  BY <1>1 DEF GInv, TypeOK, KilledEarly
<1>6. FreeIsCovered' /\ ReachedWentIn'
  BY DEF GInv, FreeIsCovered, ReachedWentIn
<1>7. UpdateFindsNobody'
  <2> SUFFICES ASSUME NEW w \in Works, at[w] = "in"
               PROVE  update'[EngineOf[w]] \notin {"installing", "after"}
    BY DEF UpdateFindsNobody
  <2>1. update[EngineOf[w]] \notin {"installing", "after"} /\ EngineOf[w] \in Engines
    BY EngineOfWorks DEF GInv, UpdateFindsNobody
  <2>2. CASE EngineOf[w] # e
    BY <1>1, <2>1, <2>2
  <2>3. CASE EngineOf[w] = e
    <3>1. active[e] # 0
      BY <2>3, ZeroIsEmpty
    <3>2. p \notin {"installing", "after"}
      BY <2>1, <2>3, <3>1
    <3>3. QED
      BY <1>1, <2>3, <3>2
  <2>4. QED
    BY <2>2, <2>3
<1>8. QED
  BY <1>2, <1>3, <1>4, <1>5, <1>6, <1>7 DEF GInv

\* A step that leaves the phases and the agents alone.
LEMMA Rests ==
  ASSUME GInv, UNCHANGED <<work, gate, update>>,
         job' \subseteq Engines, hand' \subseteq Engines, kill' \subseteq Engines,
         \A e \in kill' : update[e] \in {"begun", "waiting"},
         asked' \in [Engines -> 0 .. MaxUpdates]
  PROVE  GInv'
<1>1. TypeOK'
  BY DEF GInv, TypeOK, work, gate
<1>2. CountedExactly'
  BY SameIn DEF work, gate
<1>3. QED
  BY <1>1, <1>2 DEF GInv, BlockedByUpdate, KilledEarly, FreeIsCovered, UpdateFindsNobody, ReachedWentIn,
    work, gate

LEMMA AskStep ==
  ASSUME GInv, NEW e \in Engines, Ask(e)
  PROVE  GInv'
<1>1. /\ update' = [update EXCEPT ![e] = "begun"]
      /\ blocked' = blocked \ {e}
      /\ asked' \in [Engines -> 0 .. MaxUpdates]
      /\ job' \subseteq Engines
  BY MaxUpdatesNat DEF Ask, GInv, TypeOK, BlockedByUpdate, Exclusive, gate
<1>2. QED
  BY <1>1, Moves DEF Ask, GInv, TypeOK, Phases, Exclusive, work, gate

LEMMA DriveStep ==
  ASSUME GInv, NEW e \in Engines, Drive(e) \/ DriveOn(e)
  PROVE  GInv'
<1>1. /\ Alone(e)
      /\ UNCHANGED <<at, stop, reached, active, kill, hand, asked>>
      /\ e \notin kill
      /\ hand \subseteq Engines /\ job \subseteq Engines /\ asked \in [Engines -> 0 .. MaxUpdates]
  BY DEF Drive, DriveOn, work, GInv, TypeOK
<1>2. woken' \subseteq Works \cup Engines
  BY SleepersType DEF Drive, DriveOn, Signal, GInv, TypeOK
<1>3. CASE /\ active[e] > 0
           /\ update' = [update EXCEPT ![e] = "waiting"]
           /\ blocked' = blocked \cup {e}
           /\ UNCHANGED job
  BY <1>1, <1>2, <1>3, Moves DEF Phases, Exclusive
<1>4. CASE /\ active[e] = 0
           /\ update' = [update EXCEPT ![e] = "installing"]
           /\ blocked' = blocked \cup {e}
           /\ UNCHANGED job
  BY <1>1, <1>2, <1>4, Moves DEF Phases, Exclusive
<1>5. CASE active[e] = 0 /\ Gone(e) /\ blocked' = blocked \ {e}
  BY <1>1, <1>2, <1>5, Moves DEF Gone, Phases, Exclusive
<1>6. QED
  BY <1>1, <1>3, <1>4, <1>5 DEF Alone

LEMMA InstallEndsStep ==
  ASSUME GInv, NEW e \in Engines, InstallEnds(e)
  PROVE  GInv'
<1>1. /\ update[e] = "installing"
      /\ UNCHANGED <<at, stop, reached, active, job, kill, hand, asked>>
      /\ e \notin kill
      /\ hand \subseteq Engines /\ job \subseteq Engines /\ asked \in [Engines -> 0 .. MaxUpdates]
  BY DEF InstallEnds, work, GInv, TypeOK, KilledEarly
<1>2. woken' \subseteq Works \cup Engines
  BY SleepersType DEF InstallEnds, Unblock, GInv, TypeOK
<1>3. CASE update' = [update EXCEPT ![e] = "after"] /\ UNCHANGED blocked
  <2>1. blocked' = blocked \cup {e}
    BY <1>1, <1>3 DEF GInv, BlockedByUpdate, Exclusive
  <2>2. QED
    BY <1>1, <1>2, <1>3, <2>1, Moves DEF Phases, Exclusive
<1>4. CASE update' = [update EXCEPT ![e] = "settling"] /\ Unblock(e)
  BY <1>1, <1>2, <1>4, Moves DEF Unblock, Phases, Exclusive
<1>5. QED
  BY <1>3, <1>4 DEF InstallEnds

LEMMA AfterUpdateStep ==
  ASSUME GInv, NEW e \in Engines, AfterUpdate(e)
  PROVE  GInv'
<1>1. /\ update[e] = "after"
      /\ UNCHANGED <<at, stop, reached, active, job, kill, hand, asked>>
      /\ e \notin kill
      /\ hand \subseteq Engines /\ job \subseteq Engines /\ asked \in [Engines -> 0 .. MaxUpdates]
  BY DEF AfterUpdate, work, GInv, TypeOK, KilledEarly
<1>2. woken' \subseteq Works \cup Engines
  BY SleepersType DEF AfterUpdate, Unblock, GInv, TypeOK
<1>3. QED
  BY <1>1, <1>2, Moves DEF AfterUpdate, Unblock, Phases, Exclusive

LEMMA SettleStep ==
  ASSUME GInv, NEW e \in Engines, Settle(e)
  PROVE  GInv'
<1>1. /\ update[e] = "settling"
      /\ UNCHANGED <<at, stop, reached, active, woken, kill, hand, asked>>
      /\ e \notin kill
      /\ blocked' = blocked \ {e}
      /\ job' \subseteq Engines
      /\ hand \subseteq Engines /\ woken \subseteq Works \cup Engines
      /\ asked \in [Engines -> 0 .. MaxUpdates]
  BY DEF Settle, Gone, work, gate, GInv, TypeOK, KilledEarly, BlockedByUpdate, Exclusive
<1>2. QED
  BY <1>1, Moves DEF Settle, Gone, Phases, Exclusive

LEMMA CancelStep ==
  ASSUME GInv, NEW e \in Engines, Cancel(e) \/ HandInstall(e)
  PROVE  GInv'
BY Rests DEF Cancel, HandInstall, GInv, TypeOK, KilledEarly

LEMMA CancelledStep ==
  ASSUME GInv, NEW e \in Engines, Cancelled(e)
  PROVE  GInv'
<1>1. CASE update[e] = "waiting"
  <2>1. woken' \subseteq Works \cup Engines
    BY <1>1, SleepersType DEF Cancelled, Unblock, GInv, TypeOK
  <2>2. QED
    BY <1>1, <2>1, Moves DEF Cancelled, Gone, Unblock, Phases, Exclusive, work, GInv, TypeOK
<1>2. CASE update[e] # "waiting"
  BY <1>2, Rests DEF Cancelled, gate, GInv, TypeOK, KilledEarly
<1>3. QED
  BY <1>1, <1>2

THEOREM NextGInv == GInv /\ [Next]_vars => GInv'
<1> SUFFICES ASSUME GInv, [Next]_vars PROVE GInv'
  OBVIOUS
<1>1. ASSUME NEW w \in Works, Call(w) \/ Working(w) \/ Interrupt(w) \/ Abandon(w)
      PROVE  GInv'
  BY <1>1, CallStep, ArriveStep, WakeStep, EndStep, InterruptStep, AbandonStep DEF Working
<1>2. ASSUME NEW e \in Engines, Ask(e) \/ Updating(e) \/ Cancel(e) \/ HandInstall(e)
      PROVE  GInv'
  BY <1>2, AskStep, DriveStep, InstallEndsStep, AfterUpdateStep, SettleStep, CancelStep, CancelledStep
    DEF Updating
<1>3. CASE UNCHANGED vars
  BY <1>3, Rests DEF vars, updates, GInv, TypeOK, KilledEarly
<1>4. QED
  BY <1>1, <1>2, <1>3 DEF Next

THEOREM AlwaysGInv == Spec => []GInv
<1>1. QED
  BY InitGInv, NextGInv, PTL DEF Spec

(***************************************************************************)
(* What follows                                                            *)
(***************************************************************************)

\* The type invariant, for every set of agents and works.
THEOREM GateTypes == Spec => []TypeOK
<1>1. GInv => TypeOK
  BY DEF GInv
<1>2. QED
  BY <1>1, AlwaysGInv, PTL

LEMMA NobodyIn ==
  ASSUME GInv, NEW w \in Inside
  PROVE  EngineOf[w] \notin UnderUpdate /\ EngineOf[w] \in Engines /\ active[EngineOf[w]] # 0
<1>1. PICK o \in Works : at[o] = "in" /\ EngineOf[o] = EngineOf[w]
  BY OuterWorks DEF Inside, GInv, FreeIsCovered
<1>2. EngineOf[o] \in Engines /\ update[EngineOf[o]] \notin {"installing", "after"}
  BY <1>1, EngineOfWorks DEF GInv, UpdateFindsNobody
<1>3. active[EngineOf[o]] # 0
  BY <1>1, <1>2, ZeroIsEmpty
<1>4. QED
  BY <1>1, <1>2, <1>3 DEF UnderUpdate

\* No update runs while work of its agent goes on, counted or covered.
THEOREM UpdatesRunAlone == Spec => []UpdateIsAlone
<1>1. GInv => UpdateIsAlone
  BY NobodyIn DEF UpdateIsAlone
<1>2. QED
  BY <1>1, AlwaysGInv, PTL

\* The count of the gate is exact and an agent is blocked by nothing but its update.
THEOREM GateLeaksNothing == Spec => []NothingLeaks
<1>1. GInv => NothingLeaks
  BY DEF GInv, CountedExactly, BlockedByUpdate, In, NothingLeaks
<1>2. QED
  BY <1>1, AlwaysGInv, PTL

\* A run stopped before it is let in never reaches its engine.
THEOREM StoppedRunsStayOut == Spec => []StoppedStaysOut
<1>1. GInv => StoppedStaysOut
  BY DEF GInv, ReachedWentIn, StoppedStaysOut
<1>2. QED
  BY <1>1, AlwaysGInv, PTL

(***************************************************************************)
(* Nested work.  What an agent starts without leaving SKAZ's process runs  *)
(* only inside the work that started it, so once it waits, no outer work   *)
(* of its agent can still go in.                                           *)
(***************************************************************************)
InnerRunsInside ==
  \A w \in Works \ Remote : at[w] \in {"called", "waiting", "in", "free"} =>
    \A o \in Outer[w] : at[o] \in {"in", "free"}

WaitsUnheld ==
  \A w \in Works \ Remote : at[w] = "waiting" =>
    \A o \in Outer[w] : EngineOf[o] = EngineOf[w] => at[o] # "in"

NInv == InnerRunsInside /\ WaitsUnheld

\* A work starts inside the works around it and ends before they do.
LEMMA NestedStays ==
  ASSUME TypeOK, NInv, NEW w \in Works, NEW p \in Places,
         at' = [at EXCEPT ![w] = p], at[w] \notin {"in", "free"},
         \/ p \in {"over", "stopped"}
         \/ p = at[w]
         \/ p = "called" /\ CanStart(w)
         \/ p \in {"in", "free"} /\ (CanStart(w) \/ at[w] \in {"called", "waiting"})
         \/ p = "waiting" /\ (CanStart(w) \/ at[w] = "called") /\ ~Held(w)
  PROVE  NInv'
<1>1. at \in [Works -> Places] /\ at' \in [Works -> Places]
  BY DEF TypeOK
<1>2. \A v \in Works \ Remote : at'[v] \in {"called", "waiting", "in", "free"} =>
        \A o \in Outer[v] : at[o] \in {"in", "free"}
  BY <1>1 DEF NInv, InnerRunsInside, CanStart
<1>3. \A o \in Works : at[o] \in {"in", "free"} => at'[o] = at[o]
  BY <1>1
<1>4. InnerRunsInside'
  BY <1>2, <1>3, OuterWorks DEF InnerRunsInside
<1>5. WaitsUnheld'
  <2> SUFFICES ASSUME NEW v \in Works \ Remote, at'[v] = "waiting",
                      NEW o \in Outer[v], EngineOf[o] = EngineOf[v]
               PROVE  at'[o] # "in"
    BY DEF WaitsUnheld
  <2>1. at[o] \in {"in", "free"} /\ at'[o] = at[o]
    BY <1>2, <1>3, OuterWorks
  <2>2. CASE at[v] = "waiting"
    BY <2>1, <2>2 DEF NInv, WaitsUnheld
  <2>3. CASE at[v] # "waiting"
    <3>1. v = w /\ ~Held(w)
      BY <1>1, <2>3
    <3>2. QED
      BY <2>1, <3>1 DEF Held
  <2>4. QED
    BY <2>2, <2>3
<1>6. QED
  BY <1>4, <1>5 DEF NInv

LEMMA NextNInv == TypeOK /\ NInv /\ [Next]_vars => NInv'
<1> SUFFICES ASSUME TypeOK, NInv, [Next]_vars PROVE NInv'
  OBVIOUS
<1>1. ASSUME NEW w \in Works, Call(w) PROVE NInv'
  BY <1>1, NestedStays DEF Call, Places
<1>2. ASSUME NEW w \in Works, Arrive(w) PROVE NInv'
  <2>1. CASE at' = [at EXCEPT ![w] = "stopped"]
    BY <1>2, <2>1, NestedStays DEF Arrive, Places
  <2>2. CASE at' = [at EXCEPT ![w] = "free"] \/ at' = [at EXCEPT ![w] = "in"]
    BY <1>2, <2>2, NestedStays DEF Arrive, Places
  <2>3. CASE ~Held(w) /\ at' = [at EXCEPT ![w] = "waiting"]
    BY <1>2, <2>3, NestedStays DEF Arrive, Places
  <2>4. QED
    BY <1>2, <2>1, <2>2, <2>3 DEF Arrive, GoIn
<1>3. ASSUME NEW w \in Works, Wake(w) PROVE NInv'
  <2>1. CASE at' = [at EXCEPT ![w] = "stopped"] \/ at' = [at EXCEPT ![w] = "in"]
    BY <1>3, <2>1, NestedStays DEF Wake, Places
  <2>2. CASE UNCHANGED at
    BY <2>2 DEF NInv, InnerRunsInside, WaitsUnheld
  <2>3. QED
    BY <1>3, <2>1, <2>2 DEF Wake, GoIn
<1>4. ASSUME NEW w \in Works, Abandon(w) PROVE NInv'
  BY <1>4, NestedStays DEF Abandon, Places
<1>5. ASSUME NEW w \in Works, End(w) PROVE NInv'
  <2>1. at \in [Works -> Places] /\ at' = [at EXCEPT ![w] = "over"]
    BY <1>5 DEF TypeOK, End
  <2>2. \A v \in Works \ Remote : w \in Outer[v] => at[v] \in {"idle", "over", "stopped"}
    BY <1>5 DEF End, Inner
  <2>3. QED
    BY <2>1, <2>2 DEF NInv, InnerRunsInside, WaitsUnheld, Places
<1>6. CASE UNCHANGED at
  BY <1>6 DEF NInv, InnerRunsInside, WaitsUnheld
<1>7. ASSUME NEW w \in Works, Interrupt(w) PROVE UNCHANGED at
  BY <1>7 DEF Interrupt
<1>8. ASSUME NEW e \in Engines, Ask(e) \/ Updating(e) \/ Cancel(e) \/ HandInstall(e)
      PROVE  UNCHANGED at
  BY <1>8 DEF Ask, Updating, Drive, DriveOn, InstallEnds, AfterUpdate, Settle, Cancelled, Cancel, HandInstall,
    work
<1>9. CASE UNCHANGED vars
  BY <1>6, <1>9 DEF vars, work
<1>10. QED
  BY <1>1, <1>2, <1>3, <1>4, <1>5, <1>6, <1>7, <1>8, <1>9 DEF Next, Working

\* When no tool is called over HTTP, work started from inside running work of the same
\* agent never waits for an update that itself waits for the outer work.
THEOREM NestedWorkNeverWaits == Remote = {} => (Spec => []InsideNeverWaits)
<1>1. Init => NInv
  BY DEF Init, NInv, InnerRunsInside, WaitsUnheld
<1>2. Spec => []NInv
  BY <1>1, NextNInv, GateTypes, PTL DEF Spec
<1>3. SUFFICES ASSUME Remote = {} PROVE Spec => []InsideNeverWaits
  OBVIOUS
<1>4. NInv => InsideNeverWaits
  BY <1>3 DEF NInv, WaitsUnheld, InsideNeverWaits
<1>5. QED
  BY <1>2, <1>4, PTL

(***************************************************************************)
(* The gate keeps the promise of UpdateExclusion                           *)
(***************************************************************************)
ExclusionStep == [Exclusion!Next]_<<Inside, UnderUpdate>>

LEMMA WorkKeeps ==
  ASSUME GInv, NEW w \in Works, UNCHANGED update, at \in [Works -> Places],
         \/ at[w] \notin {"in", "free"} /\ \E p \in Places \ {"in", "free"} : at' = [at EXCEPT ![w] = p]
         \/ /\ \E p \in {"in", "free"} : at' = [at EXCEPT ![w] = p]
            /\ at[w] \notin {"in", "free"}
            /\ EngineOf[w] \notin UnderUpdate
         \/ at[w] \in {"in", "free"} /\ at' = [at EXCEPT ![w] = "over"]
  PROVE  ExclusionStep
<1>1. UnderUpdate' = UnderUpdate
  BY DEF UnderUpdate
<1>2. CASE at[w] \notin {"in", "free"} /\ \E p \in Places \ {"in", "free"} : at' = [at EXCEPT ![w] = p]
  <2>1. Inside' = Inside
    BY <1>2 DEF Inside
  <2>2. QED
    BY <1>1, <2>1 DEF ExclusionStep
<1>3. CASE /\ \E p \in {"in", "free"} : at' = [at EXCEPT ![w] = p]
           /\ at[w] \notin {"in", "free"}
           /\ EngineOf[w] \notin UnderUpdate
  <2>1. Inside' = Inside \cup {w} /\ w \notin Inside
    BY <1>3 DEF Inside
  <2>2. Exclusion!Enter(w)
    BY <1>1, <1>3, <2>1 DEF Exclusion!Enter
  <2>3. QED
    BY <2>2 DEF ExclusionStep, Exclusion!Next
<1>4. CASE at[w] \in {"in", "free"} /\ at' = [at EXCEPT ![w] = "over"]
  <2>1. Inside' = Inside \ {w} /\ {w} \subseteq Inside
    BY <1>4 DEF Inside
  <2>2. Exclusion!Leave({w})
    BY <1>1, <2>1 DEF Exclusion!Leave
  <2>3. QED
    BY <2>2 DEF ExclusionStep, Exclusion!Next
<1>5. QED
  BY <1>2, <1>3, <1>4

LEMMA UpdateKeeps ==
  ASSUME GInv, NEW e \in Engines, UNCHANGED at, NEW p \in Phases,
         update' = [update EXCEPT ![e] = p],
         p = "installing" => active[e] = 0,
         p = "after" => update[e] = "installing"
  PROVE  ExclusionStep
<1>0. update \in [Engines -> Phases]
  BY DEF GInv, TypeOK
<1>1. Inside' = Inside
  BY DEF Inside
<1>2. CASE p = "installing"
  <2>1. Exclusion!Of(e) = {}
    BY <1>2, NobodyIn DEF Exclusion!Of
  <2>2. UnderUpdate' = UnderUpdate \cup {e}
    BY <1>0, <1>2 DEF UnderUpdate
  <2>3. Exclusion!Update(e)
    BY <1>1, <2>1, <2>2 DEF Exclusion!Update
  <2>4. QED
    BY <2>3 DEF ExclusionStep, Exclusion!Next
<1>3. CASE p = "after"
  <2>1. UnderUpdate' = UnderUpdate
    BY <1>0, <1>3 DEF UnderUpdate
  <2>2. QED
    BY <1>1, <2>1 DEF ExclusionStep
<1>4. CASE p \notin {"installing", "after"}
  <2>1. UnderUpdate' = UnderUpdate \ {e}
    BY <1>0, <1>4 DEF UnderUpdate
  <2>2. Exclusion!Updated(e)
    BY <1>1, <2>1 DEF Exclusion!Updated
  <2>3. QED
    BY <2>2 DEF ExclusionStep, Exclusion!Next
<1>5. QED
  BY <1>2, <1>3, <1>4

LEMMA EntersAlone ==
  ASSUME GInv, NEW w \in Works, Held(w) \/ EngineOf[w] \notin blocked
  PROVE  EngineOf[w] \notin UnderUpdate
<1>1. CASE Held(w)
  BY <1>1, NobodyIn, OuterWorks DEF Held, Inside
<1>2. CASE EngineOf[w] \notin blocked
  BY <1>2 DEF GInv, BlockedByUpdate, Exclusive, UnderUpdate
<1>3. QED
  BY <1>1, <1>2

LEMMA NextKeepsExclusion == GInv /\ [Next]_vars => ExclusionStep
<1> SUFFICES ASSUME GInv, [Next]_vars PROVE ExclusionStep
  OBVIOUS
<1>0. at \in [Works -> Places]
  BY DEF GInv, TypeOK
<1>1. ASSUME NEW w \in Works, Call(w) \/ Abandon(w) PROVE ExclusionStep
  BY <1>0, <1>1, WorkKeeps DEF Call, Abandon, updates, Places
<1>2. ASSUME NEW w \in Works, Arrive(w) PROVE ExclusionStep
  <2>1. at[w] \notin {"in", "free"} /\ UNCHANGED update
    BY <1>2 DEF Arrive, updates
  <2>2. CASE \E p \in {"stopped", "waiting"} : at' = [at EXCEPT ![w] = p]
    BY <1>0, <2>1, <2>2, WorkKeeps DEF Places
  <2>3. CASE /\ Held(w) \/ EngineOf[w] \notin blocked
             /\ \E p \in {"in", "free"} : at' = [at EXCEPT ![w] = p]
    BY <1>0, <2>1, <2>3, EntersAlone, WorkKeeps
  <2>4. QED
    BY <1>2, <2>2, <2>3 DEF Arrive, GoIn
<1>3. ASSUME NEW w \in Works, Wake(w) PROVE ExclusionStep
  <2>1. at[w] = "waiting" /\ UNCHANGED update
    BY <1>3 DEF Wake, updates
  <2>2. CASE \E p \in {"stopped", "waiting"} : at' = [at EXCEPT ![w] = p]
    BY <1>0, <2>1, <2>2, WorkKeeps DEF Places
  <2>3. CASE UNCHANGED at
    BY <2>1, <2>3 DEF ExclusionStep, Inside, UnderUpdate
  <2>4. CASE EngineOf[w] \notin blocked /\ at' = [at EXCEPT ![w] = "in"]
    BY <1>0, <2>1, <2>4, EntersAlone, WorkKeeps
  <2>5. QED
    BY <1>3, <2>2, <2>3, <2>4 DEF Wake, GoIn
<1>4. ASSUME NEW w \in Works, End(w) PROVE ExclusionStep
  BY <1>0, <1>4, WorkKeeps DEF End, updates
<1>5. CASE UNCHANGED <<at, update>>
  BY <1>5 DEF ExclusionStep, Inside, UnderUpdate
<1>6. ASSUME NEW w \in Works, Interrupt(w) PROVE UNCHANGED <<at, update>>
  BY <1>6 DEF Interrupt, updates
<1>7. ASSUME NEW e \in Engines, Cancel(e) \/ HandInstall(e) PROVE UNCHANGED <<at, update>>
  BY <1>7 DEF Cancel, HandInstall, work
<1>8. ASSUME NEW e \in Engines, Ask(e) \/ Settle(e) \/ AfterUpdate(e) PROVE ExclusionStep
  BY <1>8, UpdateKeeps DEF Ask, Settle, Gone, AfterUpdate, Phases, work
<1>9. ASSUME NEW e \in Engines, InstallEnds(e) PROVE ExclusionStep
  BY <1>9, UpdateKeeps DEF InstallEnds, Phases, work
<1>10. ASSUME NEW e \in Engines, Drive(e) \/ DriveOn(e) PROVE ExclusionStep
  <2>1. Alone(e) /\ UNCHANGED at
    BY <1>10 DEF Drive, DriveOn, work
  <2>2. QED
    BY <2>1, UpdateKeeps DEF Alone, Gone, Phases
<1>11. ASSUME NEW e \in Engines, Cancelled(e) PROVE ExclusionStep
  <2>1. CASE update[e] = "waiting"
    BY <1>11, <2>1, UpdateKeeps DEF Cancelled, Gone, Phases, work
  <2>2. CASE update[e] # "waiting"
    BY <1>5, <1>11, <2>2 DEF Cancelled, work
  <2>3. QED
    BY <2>1, <2>2
<1>12. CASE UNCHANGED vars
  BY <1>5, <1>12 DEF vars, work, updates
<1>13. QED
  BY <1>1, <1>2, <1>3, <1>4, <1>5, <1>6, <1>7, <1>8, <1>9, <1>10, <1>11, <1>12
    DEF Next, Working, Updating

\* The gate implements the exclusion of updates and work that UpdateExclusion states.
THEOREM GateKeepsExclusion == Spec => ExclusionKept
<1>1. Init => Exclusion!Init
  BY DEF Init, Exclusion!Init, Inside, UnderUpdate
<1>2. GInv /\ [Next]_vars => [Exclusion!Next]_<<Inside, UnderUpdate>>
  BY NextKeepsExclusion DEF ExclusionStep
<1>3. QED
  BY <1>1, <1>2, AlwaysGInv, PTL DEF Spec, ExclusionKept, Exclusion!Spec
===============================================================================
