--------------------------- MODULE IngestQueueProofs ---------------------------
(***************************************************************************)
(* Proofs about IngestQueue for every set of jobs, number of slots and     *)
(* number of restarts.                                                     *)
(***************************************************************************)
EXTENDS IngestQueue, FiniteSetTheorems, TLAPS

\* A task before its row is ended.
Building == Places \ {"none", "ended", "telling"}

PumpType == [at : {"idle", "fresh", "slots", "claiming", "claimed"}, room : BOOLEAN,
             job : Jobs \cup {None}, again : BOOLEAN]

Claimed(j) == pump.at = "claimed" /\ pump.job = j

(***************************************************************************)
(* The inductive invariant.  Reservations exclude each other, a request    *)
(* that may create its row has no rival, and a row runs exactly while its  *)
(* task builds or the pump holds it.                                       *)
(***************************************************************************)
RowComesLast == \A j \in Jobs : asking[j] \in {"idle", "reserved", "clear"} => db[j] = "none"

OneReservation ==
  \A j, k \in Jobs :
    (About[j] = About[k] /\ asking[j] \in Reserved /\ asking[k] \in Reserved) => j = k

ClearHasNoRival ==
  \A j, k \in Jobs : (asking[j] = "clear" /\ About[j] = About[k]) => db[k] \notin Pending

BuildingRuns == \A j \in Jobs : at[j] \in Building => db[j] = "running"

RunningIsHeld ==
  \A j \in Jobs : db[j] = "running" =>
    \/ at[j] \in Building
    \/ Claimed(j)
    \/ Closing /\ pump.at = "idle"

ClaimIsFresh ==
  /\ pump.at # "claimed" => pump.job = None
  /\ \A j \in Jobs : Claimed(j) => db[j] = "running" /\ at[j] \notin Building

RoomKept ==
  /\ pump.at = "claiming" => pump.room
  /\ (pump.room /\ (pump.at \in {"slots", "claiming"} \/ pump.job # None))
       => Cardinality(Active) < Slots
  /\ Cardinality(Active) <= Slots
  /\ pump.job # None => pump.room

EndsLast ==
  \A j \in Jobs :
    /\ at[j] \in Building \ {"ending"} => ends[j] = "none"
    /\ at[j] = "ending" => ends[j] # "none"

TableInv == RowComesLast /\ OneReservation /\ ClearHasNoRival /\ OnePerMaterial

TaskInv == BuildingRuns /\ RunningIsHeld /\ ClaimIsFresh /\ EndsLast

QInv == TypeOK /\ TableInv /\ TaskInv /\ RoomKept

(***************************************************************************)
(* A stopped task never saves: it is marked before it may write, and a     *)
(* mark that comes later is refused.                                       *)
(***************************************************************************)
Unsaved == {"new", "scope", "local", "model", "match", "saving", "write"}

SavedLate == \A j \in Jobs : at[j] \in Unsaved => j \notin saved

WritingIsSaid == \A j \in Jobs : at[j] \in {"write", "wrote"} => j \in writing /\ j \notin stop

StopReachesSaving == \A j \in Jobs : (at[j] = "saving" /\ j \in stop) => j \in kill

KillIsStop == ~Closing => kill \subseteq stop

InterruptIsStop ==
  \A j \in Jobs : (stopper[j] = "interrupting" /\ ~Closing) =>
    j \in stop /\ (at[j] \in Building \/ db[j] \in Finished)

RequeueIsClosing == \A j \in Jobs : (at[j] = "ending" /\ ends[j] = "queued") => Closing

SInv ==
  /\ SavedLate /\ WritingIsSaid /\ RequeueIsClosing /\ StopReachesSaving /\ KillIsStop /\ InterruptIsStop
  /\ StoppedSavedNothing

LEMMA ActiveFinite ==
  IsFiniteSet(Active) /\ Cardinality(Active) \in Nat
<1>1. Active \subseteq Jobs
  BY DEF Active
<1>2. QED
  BY <1>1, JobsFinite, FS_Subset, FS_CardinalityType

LEMMA ActiveShrinks ==
  ASSUME Active' \subseteq Active
  PROVE  Cardinality(Active)' <= Cardinality(Active) /\ Cardinality(Active)' \in Nat
<1>1. IsFiniteSet(Active) /\ Cardinality(Active) \in Nat
  BY ActiveFinite
<1>2. QED
  BY <1>1, FS_Subset, FS_CardinalityType


LEMMA KickPump ==
  ASSUME TypeOK, Kick
  PROVE  /\ pump' \in PumpType
         /\ pump'.job = pump.job /\ pump'.room = pump.room
         /\ \/ pump'.at = pump.at
            \/ ~Closing /\ pump.at = "idle" /\ pump'.at = "fresh"
<1>1. CASE Closing
  BY <1>1 DEF Kick, TypeOK, PumpType
<1>2. CASE ~Closing /\ pump.at = "idle"
  BY <1>2 DEF Kick, TypeOK, PumpType
<1>3. CASE ~Closing /\ pump.at # "idle"
  BY <1>3 DEF Kick, TypeOK, PumpType
<1>4. QED
  BY <1>1, <1>2, <1>3

\* The pump looks again, or ends.
LEMMA LookPump ==
  ASSUME NEW p \in PumpType,
         NEW tasks,
         NEW q, q = Look(p, tasks) \/ q = Return(p, tasks) \/ q = PumpIdle
  PROVE  /\ q \in PumpType
         /\ q.job = None
         /\ q.at \in {"idle", "slots"}
         /\ q.room => Cardinality(tasks) < Slots
<1>1. q = PumpIdle \/ (\E r \in PumpType :
             q = [r EXCEPT !.at = "slots", !.room = Cardinality(tasks) < Slots, !.job = None])
  BY DEF Look, Return, PumpType
<1>2. CASE q = PumpIdle
  BY <1>2 DEF PumpIdle, PumpType
<1>3. ASSUME NEW r \in PumpType,
             NEW b \in BOOLEAN, b = (Cardinality(tasks) < Slots),
             q = [r EXCEPT !.at = "slots", !.room = b, !.job = None]
      PROVE  /\ q \in PumpType
             /\ q.job = None
             /\ q.at \in {"idle", "slots"}
             /\ q.room => Cardinality(tasks) < Slots
  BY <1>3 DEF PumpType
<1>4. CASE q # PumpIdle
  <2> DEFINE room == Cardinality(tasks) < Slots
  <2>1. room \in BOOLEAN
    OBVIOUS
  <2>2. PICK r \in PumpType :
             q = [r EXCEPT !.at = "slots", !.room = room, !.job = None]
    BY <1>1, <1>4
  <2>3. QED
    BY <1>3, <2>1, <2>2
<1>5. QED
  BY <1>2, <1>4


LEMMA RequestQInv ==
  ASSUME QInv, NEW j \in Jobs, Request(j)
  PROVE  QInv'
<1> USE DEF QInv
<1>1. TypeOK'
  BY AboutMaterials, NoneIsNoJob, MaxRestartsNat DEF Request, TypeOK, Pending, Finished, Reserved,
     Places, store, task
<1>2. TableInv'
  BY DEF Request, TableInv, RowComesLast, OneReservation, ClearHasNoRival, OnePerMaterial, TypeOK,
     Pending, Finished, Reserved, store, task
<1>3. TaskInv'
  BY <1>1, NoneIsNoJob DEF Request, TaskInv, TableInv, RowComesLast, BuildingRuns, RunningIsHeld,
     ClaimIsFresh, EndsLast, Building, Claimed, TypeOK, Closing, Places, Finished, store, task
<1>4. Active' \subseteq Active
  BY DEF Request, Active, TypeOK, store, task
<1>5. RoomKept'
  BY <1>4, ActiveShrinks, ActiveFinite, SlotsPositive, NoneIsNoJob DEF Request, RoomKept, TaskInv,
     ClaimIsFresh, store, task
<1>6. QED
  BY <1>1, <1>2, <1>3, <1>5


LEMMA CheckPendingQInv ==
  ASSUME QInv, NEW j \in Jobs, CheckPending(j)
  PROVE  QInv'
<1> USE DEF QInv
<1>1. TypeOK'
  BY AboutMaterials, NoneIsNoJob, MaxRestartsNat DEF CheckPending, TypeOK, Pending, Finished,
     Reserved, Places, store, task
<1>2. TableInv'
  BY DEF CheckPending, TableInv, RowComesLast, OneReservation, ClearHasNoRival, OnePerMaterial,
     TypeOK, Pending, Finished, Reserved, store, task
<1>3. TaskInv'
  BY <1>1, NoneIsNoJob DEF CheckPending, TaskInv, TableInv, RowComesLast, BuildingRuns,
     RunningIsHeld, ClaimIsFresh, EndsLast, Building, Claimed, TypeOK, Closing, Places, Finished,
     store, task
<1>4. Active' \subseteq Active
  BY DEF CheckPending, Active, TypeOK, store, task
<1>5. RoomKept'
  BY <1>4, ActiveShrinks, ActiveFinite, SlotsPositive, NoneIsNoJob DEF CheckPending, RoomKept,
     TaskInv, ClaimIsFresh, store, task
<1>6. QED
  BY <1>1, <1>2, <1>3, <1>5


LEMMA CreateQInv ==
  ASSUME QInv, NEW j \in Jobs, Create(j)
  PROVE  QInv'
<1> USE DEF QInv
<1>1. TypeOK'
  BY AboutMaterials, NoneIsNoJob, MaxRestartsNat DEF Create, TypeOK, Pending, Finished, Reserved,
     Places, store, task
<1>2. TableInv'
  BY DEF Create, TableInv, RowComesLast, OneReservation, ClearHasNoRival, OnePerMaterial, TypeOK,
     Pending, Finished, Reserved, store, task
<1>3. TaskInv'
  BY <1>1, NoneIsNoJob DEF Create, TaskInv, TableInv, RowComesLast, BuildingRuns, RunningIsHeld,
     ClaimIsFresh, EndsLast, Building, Claimed, TypeOK, Closing, Places, Finished, store, task
<1>4. Active' \subseteq Active
  BY DEF Create, Active, TypeOK, store, task
<1>5. RoomKept'
  BY <1>4, ActiveShrinks, ActiveFinite, SlotsPositive, NoneIsNoJob DEF Create, RoomKept, TaskInv,
     ClaimIsFresh, store, task
<1>6. QED
  BY <1>1, <1>2, <1>3, <1>5


LEMMA CreatedQInv ==
  ASSUME QInv, NEW j \in Jobs, Created(j)
  PROVE  QInv'
<1> USE DEF QInv
<1>0. Kick
  BY DEF Created
<1>1. TypeOK'
  BY KickPump, AboutMaterials, NoneIsNoJob, MaxRestartsNat, <1>0 DEF PumpType, Created, TypeOK,
     Pending, Finished, Reserved, Places, store, task
<1>2. TableInv'
  BY DEF Created, TableInv, RowComesLast, OneReservation, ClearHasNoRival, OnePerMaterial, TypeOK,
     Pending, Finished, Reserved, store, task
<1>3. TaskInv'
  BY KickPump, <1>1, NoneIsNoJob, <1>0 DEF Created, TaskInv, TableInv, RowComesLast, BuildingRuns,
     RunningIsHeld, ClaimIsFresh, EndsLast, Building, Claimed, TypeOK, Closing, Places, Finished,
     store, task
<1>4. Active' \subseteq Active
  BY DEF Created, Active, TypeOK, store, task
<1>5. RoomKept'
  BY KickPump, <1>4, ActiveShrinks, ActiveFinite, SlotsPositive, NoneIsNoJob, <1>0 DEF Created,
     RoomKept, TaskInv, ClaimIsFresh, store, task
<1>6. QED
  BY <1>1, <1>2, <1>3, <1>5


LEMMA BeginQInv ==
  ASSUME QInv, NEW j \in Jobs, Begin(j)
  PROVE  QInv'
<1> USE DEF QInv
<1>1. TypeOK'
  BY AboutMaterials, NoneIsNoJob, MaxRestartsNat DEF Begin, Moves, TypeOK, Pending, Finished,
     Reserved, Places, store, task
<1>2. TableInv'
  BY DEF Begin, Moves, TableInv, RowComesLast, OneReservation, ClearHasNoRival, OnePerMaterial,
     TypeOK, Pending, Finished, Reserved, store, task
<1>3. TaskInv'
  BY <1>1, NoneIsNoJob DEF Begin, Moves, TaskInv, TableInv, RowComesLast, BuildingRuns,
     RunningIsHeld, ClaimIsFresh, EndsLast, Building, Claimed, TypeOK, Closing, Places, Finished,
     store, task
<1>4. Active' \subseteq Active
  BY DEF Begin, Moves, Active, TypeOK, store, task
<1>5. RoomKept'
  BY <1>4, ActiveShrinks, ActiveFinite, SlotsPositive, NoneIsNoJob DEF Begin, Moves, RoomKept,
     TaskInv, ClaimIsFresh, store, task
<1>6. QED
  BY <1>1, <1>2, <1>3, <1>5


LEMMA PrepareQInv ==
  ASSUME QInv, NEW j \in Jobs, Prepare(j)
  PROVE  QInv'
<1> USE DEF QInv
<1>1. TypeOK'
  BY AboutMaterials, NoneIsNoJob, MaxRestartsNat DEF Prepare, EndAs, Moves, TypeOK, Pending,
     Finished, Reserved, Places, store, task
<1>2. TableInv'
  BY DEF Prepare, EndAs, Moves, TableInv, RowComesLast, OneReservation, ClearHasNoRival,
     OnePerMaterial, TypeOK, Pending, Finished, Reserved, store, task
<1>3. TaskInv'
  BY <1>1, NoneIsNoJob DEF Prepare, EndAs, Moves, TaskInv, TableInv, RowComesLast, BuildingRuns,
     RunningIsHeld, ClaimIsFresh, EndsLast, Building, Claimed, TypeOK, Closing, Places, Finished,
     store, task
<1>4. Active' \subseteq Active
  BY DEF Prepare, EndAs, Moves, Active, TypeOK, store, task
<1>5. RoomKept'
  BY <1>4, ActiveShrinks, ActiveFinite, SlotsPositive, NoneIsNoJob DEF Prepare, EndAs, Moves,
     RoomKept, TaskInv, ClaimIsFresh, store, task
<1>6. QED
  BY <1>1, <1>2, <1>3, <1>5


LEMMA WorkLocallyQInv ==
  ASSUME QInv, NEW j \in Jobs, WorkLocally(j)
  PROVE  QInv'
<1> USE DEF QInv
<1>1. TypeOK'
  BY AboutMaterials, NoneIsNoJob, MaxRestartsNat DEF WorkLocally, EndAs, Moves, TypeOK, Pending,
     Finished, Reserved, Places, store, task
<1>2. TableInv'
  BY DEF WorkLocally, EndAs, Moves, TableInv, RowComesLast, OneReservation, ClearHasNoRival,
     OnePerMaterial, TypeOK, Pending, Finished, Reserved, store, task
<1>3. TaskInv'
  BY <1>1, NoneIsNoJob DEF WorkLocally, EndAs, Moves, TaskInv, TableInv, RowComesLast,
     BuildingRuns, RunningIsHeld, ClaimIsFresh, EndsLast, Building, Claimed, TypeOK, Closing,
     Places, Finished, store, task
<1>4. Active' \subseteq Active
  BY DEF WorkLocally, EndAs, Moves, Active, TypeOK, store, task
<1>5. RoomKept'
  BY <1>4, ActiveShrinks, ActiveFinite, SlotsPositive, NoneIsNoJob DEF WorkLocally, EndAs, Moves,
     RoomKept, TaskInv, ClaimIsFresh, store, task
<1>6. QED
  BY <1>1, <1>2, <1>3, <1>5


LEMMA AnswerQInv ==
  ASSUME QInv, NEW j \in Jobs, Answer(j)
  PROVE  QInv'
<1> USE DEF QInv
<1>1. TypeOK'
  BY AboutMaterials, NoneIsNoJob, MaxRestartsNat DEF Answer, EndAs, Stopped, Moves, TypeOK,
     Pending, Finished, Reserved, Places, store, task
<1>2. TableInv'
  BY DEF Answer, EndAs, Stopped, Moves, TableInv, RowComesLast, OneReservation, ClearHasNoRival,
     OnePerMaterial, TypeOK, Pending, Finished, Reserved, store, task
<1>3. TaskInv'
  BY <1>1, NoneIsNoJob, SMTT(30) DEF Answer, EndAs, Stopped, Moves, TaskInv, TableInv, RowComesLast,
     BuildingRuns, RunningIsHeld, ClaimIsFresh, EndsLast, Building, Claimed, TypeOK, Closing,
     Places, Finished, store, task
<1>4. Active' \subseteq Active
  BY DEF Answer, EndAs, Stopped, Moves, Active, TypeOK, store, task
<1>5. RoomKept'
  BY <1>4, ActiveShrinks, ActiveFinite, SlotsPositive, NoneIsNoJob DEF Answer, EndAs, Stopped,
     Moves, RoomKept, TaskInv, ClaimIsFresh, store, task
<1>6. QED
  BY <1>1, <1>2, <1>3, <1>5


LEMMA MatchedQInv ==
  ASSUME QInv, NEW j \in Jobs, Matched(j)
  PROVE  QInv'
<1> USE DEF QInv
<1>1. TypeOK'
  BY AboutMaterials, NoneIsNoJob, MaxRestartsNat DEF Matched, EndAs, Moves, TypeOK, Pending,
     Finished, Reserved, Places, store, task
<1>2. TableInv'
  BY DEF Matched, EndAs, Moves, TableInv, RowComesLast, OneReservation, ClearHasNoRival,
     OnePerMaterial, TypeOK, Pending, Finished, Reserved, store, task
<1>3. TaskInv'
  BY <1>1, NoneIsNoJob, SMTT(30) DEF Matched, EndAs, Moves, TaskInv, TableInv, RowComesLast, BuildingRuns,
     RunningIsHeld, ClaimIsFresh, EndsLast, Building, Claimed, TypeOK, Closing, Places, Finished,
     store, task
<1>4. Active' \subseteq Active
  BY DEF Matched, EndAs, Moves, Active, TypeOK, store, task
<1>5. RoomKept'
  BY <1>4, ActiveShrinks, ActiveFinite, SlotsPositive, NoneIsNoJob DEF Matched, EndAs, Moves,
     RoomKept, TaskInv, ClaimIsFresh, store, task
<1>6. QED
  BY <1>1, <1>2, <1>3, <1>5


LEMMA SaveQInv ==
  ASSUME QInv, NEW j \in Jobs, Save(j)
  PROVE  QInv'
<1> USE DEF QInv
<1>1. TypeOK'
  BY AboutMaterials, NoneIsNoJob, MaxRestartsNat DEF Save, Moves, TypeOK, Pending, Finished,
     Reserved, Places, store, task
<1>2. TableInv'
  BY DEF Save, Moves, TableInv, RowComesLast, OneReservation, ClearHasNoRival, OnePerMaterial,
     TypeOK, Pending, Finished, Reserved, store, task
<1>3. TaskInv'
  BY <1>1, NoneIsNoJob DEF Save, Moves, TaskInv, TableInv, RowComesLast, BuildingRuns,
     RunningIsHeld, ClaimIsFresh, EndsLast, Building, Claimed, TypeOK, Closing, Places, Finished,
     store, task
<1>4. Active' \subseteq Active
  BY DEF Save, Moves, Active, TypeOK, store, task
<1>5. RoomKept'
  BY <1>4, ActiveShrinks, ActiveFinite, SlotsPositive, NoneIsNoJob DEF Save, Moves, RoomKept,
     TaskInv, ClaimIsFresh, store, task
<1>6. QED
  BY <1>1, <1>2, <1>3, <1>5


LEMMA WritePagesQInv ==
  ASSUME QInv, NEW j \in Jobs, WritePages(j)
  PROVE  QInv'
<1> USE DEF QInv
<1>1. TypeOK'
  BY AboutMaterials, NoneIsNoJob, MaxRestartsNat DEF WritePages, EndAs, Moves, TypeOK, Pending,
     Finished, Reserved, Places, store, task
<1>2. TableInv'
  BY DEF WritePages, EndAs, Moves, TableInv, RowComesLast, OneReservation, ClearHasNoRival,
     OnePerMaterial, TypeOK, Pending, Finished, Reserved, store, task
<1>3. TaskInv'
  <2>1. BuildingRuns'
    BY <1>1, NoneIsNoJob DEF WritePages, EndAs, Moves, TaskInv, BuildingRuns, RunningIsHeld,
       EndsLast, Building, Claimed, TypeOK, Closing, Places, Finished, store, task
  <2>2. RunningIsHeld'
    BY <1>1, NoneIsNoJob DEF WritePages, EndAs, Moves, TaskInv, BuildingRuns, RunningIsHeld,
       EndsLast, Building, Claimed, TypeOK, Closing, Places, Finished, store, task
  <2>3. ClaimIsFresh' /\ EndsLast'
    BY <1>1, NoneIsNoJob DEF WritePages, EndAs, Moves, TaskInv, BuildingRuns, ClaimIsFresh,
       EndsLast, Building, Claimed, TypeOK, Closing, Places, Finished, store, task
  <2>4. QED
    BY <2>1, <2>2, <2>3 DEF TaskInv
<1>4. Active' \subseteq Active
  BY DEF WritePages, EndAs, Moves, Active, TypeOK, store, task
<1>5. RoomKept'
  BY <1>4, ActiveShrinks, ActiveFinite, SlotsPositive, NoneIsNoJob DEF WritePages, EndAs, Moves,
     RoomKept, TaskInv, ClaimIsFresh, store, task
<1>6. QED
  BY <1>1, <1>2, <1>3, <1>5


LEMMA BuiltQInv ==
  ASSUME QInv, NEW j \in Jobs, Built(j)
  PROVE  QInv'
<1> USE DEF QInv
<1>1. TypeOK'
  <2>1. About[j] \in Materials /\ at' \in [Jobs -> Places] /\ ends' \in [Jobs -> {"none", "queued"} \cup Finished]
    BY AboutMaterials DEF Built, EndAs, TypeOK, Places, Finished
  <2>2. kill' \subseteq {k \in Jobs : at'[k] # "none"}
    BY DEF Built, EndAs, TypeOK
  <2>3. QED
    BY <2>1, <2>2 DEF Built, TypeOK, store
<1>2. TableInv'
  BY DEF Built, EndAs, TableInv, RowComesLast, OneReservation, ClearHasNoRival, OnePerMaterial,
     TypeOK, Pending, Finished, Reserved, store, task
<1>3. TaskInv'
  BY <1>1, NoneIsNoJob DEF Built, EndAs, TaskInv, TableInv, RowComesLast, BuildingRuns,
     RunningIsHeld, ClaimIsFresh, EndsLast, Building, Claimed, TypeOK, Closing, Places, Finished,
     store, task
<1>4. Active' \subseteq Active
  BY DEF Built, EndAs, Active, TypeOK, store, task
<1>5. RoomKept'
  BY <1>4, ActiveShrinks, ActiveFinite, SlotsPositive, NoneIsNoJob DEF Built, EndAs, RoomKept,
     TaskInv, ClaimIsFresh, store, task
<1>6. QED
  BY <1>1, <1>2, <1>3, <1>5


LEMMA UnwindQInv ==
  ASSUME QInv, NEW j \in Jobs, Unwind(j)
  PROVE  QInv'
<1> USE DEF QInv
<1>1. TypeOK'
  BY AboutMaterials, NoneIsNoJob, MaxRestartsNat DEF Unwind, EndAs, Stopped, TypeOK, Pending,
     Finished, Reserved, Places, store, task
<1>2. TableInv'
  BY DEF Unwind, EndAs, Stopped, TableInv, RowComesLast, OneReservation, ClearHasNoRival,
     OnePerMaterial, TypeOK, Pending, Finished, Reserved, store, task
<1>3. TaskInv'
  BY <1>1, NoneIsNoJob DEF Unwind, EndAs, Stopped, TaskInv, TableInv, RowComesLast, BuildingRuns,
     RunningIsHeld, ClaimIsFresh, EndsLast, Building, Claimed, TypeOK, Closing, Places, Finished,
     store, task
<1>4. Active' \subseteq Active
  BY DEF Unwind, EndAs, Stopped, Active, TypeOK, store, task
<1>5. RoomKept'
  BY <1>4, ActiveShrinks, ActiveFinite, SlotsPositive, NoneIsNoJob DEF Unwind, EndAs, Stopped,
     RoomKept, TaskInv, ClaimIsFresh, store, task
<1>6. QED
  BY <1>1, <1>2, <1>3, <1>5


LEMMA EndQInv ==
  ASSUME QInv, NEW j \in Jobs, End(j)
  PROVE  QInv'
<1> USE DEF QInv
<1>1. TypeOK'
  BY AboutMaterials, NoneIsNoJob, MaxRestartsNat DEF End, Moves, TypeOK, Pending, Finished,
     Reserved, Places, store, task
<1>2. TableInv'
  BY DEF End, Moves, TableInv, RowComesLast, OneReservation, ClearHasNoRival, OnePerMaterial,
     TypeOK, Pending, Finished, Reserved, store, task
<1>3. TaskInv'
  BY <1>1, NoneIsNoJob DEF End, Moves, TaskInv, TableInv, RowComesLast, BuildingRuns,
     RunningIsHeld, ClaimIsFresh, EndsLast, Building, Claimed, TypeOK, Closing, Places, Finished,
     store, task
<1>4. Active' \subseteq Active
  BY DEF End, Moves, Active, TypeOK, store, task
<1>5. RoomKept'
  BY <1>4, ActiveShrinks, ActiveFinite, SlotsPositive, NoneIsNoJob DEF End, Moves, RoomKept,
     TaskInv, ClaimIsFresh, store, task
<1>6. QED
  BY <1>1, <1>2, <1>3, <1>5


LEMMA LeaveQInv ==
  ASSUME QInv, NEW j \in Jobs, Leave(j)
  PROVE  QInv'
<1> USE DEF QInv
<1>0. Kick \/ UNCHANGED pump
  BY DEF Leave
<1>1. TypeOK'
  BY KickPump, AboutMaterials, NoneIsNoJob, MaxRestartsNat, <1>0 DEF PumpType, Leave, TypeOK,
     Pending, Finished, Reserved, Places, store, task
<1>2. TableInv'
  BY DEF Leave, TableInv, RowComesLast, OneReservation, ClearHasNoRival, OnePerMaterial, TypeOK,
     Pending, Finished, Reserved, store, task
<1>3. TaskInv'
  BY KickPump, <1>1, NoneIsNoJob, <1>0 DEF Leave, TaskInv, TableInv, RowComesLast, BuildingRuns,
     RunningIsHeld, ClaimIsFresh, EndsLast, Building, Claimed, TypeOK, Closing, Places, Finished,
     store, task
<1>4. Active' \subseteq Active
  BY DEF Leave, Active, TypeOK, store, task
<1>5. RoomKept'
  BY KickPump, <1>4, ActiveShrinks, ActiveFinite, SlotsPositive, NoneIsNoJob, <1>0 DEF Leave,
     RoomKept, TaskInv, ClaimIsFresh, store, task
<1>6. QED
  BY <1>1, <1>2, <1>3, <1>5


LEMMA TellQInv ==
  ASSUME QInv, NEW j \in Jobs, Tell(j)
  PROVE  QInv'
<1> USE DEF QInv
<1>0. Kick
  BY DEF Tell
<1>1. TypeOK'
  BY KickPump, AboutMaterials, NoneIsNoJob, MaxRestartsNat, <1>0 DEF PumpType, Tell, Moves,
     TypeOK, Pending, Finished, Reserved, Places, store, task
<1>2. TableInv'
  BY DEF Tell, Moves, TableInv, RowComesLast, OneReservation, ClearHasNoRival, OnePerMaterial,
     TypeOK, Pending, Finished, Reserved, store, task
<1>3. TaskInv'
  BY KickPump, <1>1, NoneIsNoJob, <1>0 DEF Tell, Moves, TaskInv, TableInv, RowComesLast,
     BuildingRuns, RunningIsHeld, ClaimIsFresh, EndsLast, Building, Claimed, TypeOK, Closing,
     Places, Finished, store, task
<1>4. Active' \subseteq Active
  BY DEF Tell, Moves, Active, TypeOK, store, task
<1>5. RoomKept'
  BY KickPump, <1>4, ActiveShrinks, ActiveFinite, SlotsPositive, NoneIsNoJob, <1>0 DEF Tell,
     Moves, RoomKept, TaskInv, ClaimIsFresh, store, task
<1>6. QED
  BY <1>1, <1>2, <1>3, <1>5


LEMMA StopReadQInv ==
  ASSUME QInv, NEW j \in Jobs, StopRead(j)
  PROVE  QInv'
<1> USE DEF QInv
<1>1. TypeOK'
  BY AboutMaterials, NoneIsNoJob, MaxRestartsNat DEF StopRead, TypeOK, Pending, Finished,
     Reserved, Places, store, task
<1>2. TableInv'
  BY DEF StopRead, TableInv, RowComesLast, OneReservation, ClearHasNoRival, OnePerMaterial,
     TypeOK, Pending, Finished, Reserved, store, task
<1>3. TaskInv'
  BY <1>1, NoneIsNoJob DEF StopRead, TaskInv, TableInv, RowComesLast, BuildingRuns, RunningIsHeld,
     ClaimIsFresh, EndsLast, Building, Claimed, TypeOK, Closing, Places, Finished, store, task
<1>4. Active' \subseteq Active
  BY DEF StopRead, Active, TypeOK, store, task
<1>5. RoomKept'
  BY <1>4, ActiveShrinks, ActiveFinite, SlotsPositive, NoneIsNoJob DEF StopRead, RoomKept,
     TaskInv, ClaimIsFresh, store, task
<1>6. QED
  BY <1>1, <1>2, <1>3, <1>5


LEMMA StopSwapQInv ==
  ASSUME QInv, NEW j \in Jobs, StopSwap(j)
  PROVE  QInv'
<1> USE DEF QInv
<1>1. TypeOK'
  BY AboutMaterials, NoneIsNoJob, MaxRestartsNat DEF StopSwap, TypeOK, Pending, Finished,
     Reserved, Places, store, task
<1>2. TableInv'
  BY DEF StopSwap, TableInv, RowComesLast, OneReservation, ClearHasNoRival, OnePerMaterial,
     TypeOK, Pending, Finished, Reserved, store, task
<1>3. TaskInv'
  BY <1>1, NoneIsNoJob DEF StopSwap, TaskInv, TableInv, RowComesLast, BuildingRuns, RunningIsHeld,
     ClaimIsFresh, EndsLast, Building, Claimed, TypeOK, Closing, Places, Finished, store, task
<1>4. Active' \subseteq Active
  BY DEF StopSwap, Active, TypeOK, store, task
<1>5. RoomKept'
  BY <1>4, ActiveShrinks, ActiveFinite, SlotsPositive, NoneIsNoJob DEF StopSwap, RoomKept,
     TaskInv, ClaimIsFresh, store, task
<1>6. QED
  BY <1>1, <1>2, <1>3, <1>5


LEMMA StopLookQInv ==
  ASSUME QInv, NEW j \in Jobs, StopLook(j)
  PROVE  QInv'
<1> USE DEF QInv
<1>1. TypeOK'
  BY AboutMaterials, NoneIsNoJob, MaxRestartsNat DEF StopLook, StopActive, Active, HasRun, TypeOK,
     Pending, Finished, Reserved, Places, store, task
<1>2. TableInv'
  BY DEF StopLook, StopActive, Active, HasRun, TableInv, RowComesLast, OneReservation,
     ClearHasNoRival, OnePerMaterial, TypeOK, Pending, Finished, Reserved, store, task
<1>3. TaskInv'
  BY <1>1, NoneIsNoJob DEF StopLook, StopActive, Active, HasRun, TaskInv, TableInv, RowComesLast,
     BuildingRuns, RunningIsHeld, ClaimIsFresh, EndsLast, Building, Claimed, TypeOK, Closing,
     Places, Finished, store, task
<1>4. Active' \subseteq Active
  BY DEF StopLook, StopActive, Active, HasRun, Active, TypeOK, store, task
<1>5. RoomKept'
  BY <1>4, ActiveShrinks, ActiveFinite, SlotsPositive, NoneIsNoJob DEF StopLook, StopActive,
     Active, HasRun, RoomKept, TaskInv, ClaimIsFresh, store, task
<1>6. QED
  BY <1>1, <1>2, <1>3, <1>5


LEMMA StopInterruptedQInv ==
  ASSUME QInv, NEW j \in Jobs, StopInterrupted(j)
  PROVE  QInv'
<1> USE DEF QInv
<1>1. TypeOK'
  BY AboutMaterials, NoneIsNoJob, MaxRestartsNat DEF StopInterrupted, TypeOK, Pending, Finished,
     Reserved, Places, store, task
<1>2. TableInv'
  BY DEF StopInterrupted, TableInv, RowComesLast, OneReservation, ClearHasNoRival, OnePerMaterial,
     TypeOK, Pending, Finished, Reserved, store, task
<1>3. TaskInv'
  BY <1>1, NoneIsNoJob DEF StopInterrupted, TaskInv, TableInv, RowComesLast, BuildingRuns,
     RunningIsHeld, ClaimIsFresh, EndsLast, Building, Claimed, TypeOK, Closing, Places, Finished,
     store, task
<1>4. Active' \subseteq Active
  BY DEF StopInterrupted, Active, TypeOK, store, task
<1>5. RoomKept'
  BY <1>4, ActiveShrinks, ActiveFinite, SlotsPositive, NoneIsNoJob DEF StopInterrupted, RoomKept,
     TaskInv, ClaimIsFresh, store, task
<1>6. QED
  BY <1>1, <1>2, <1>3, <1>5


LEMMA CloseQInv ==
  ASSUME QInv, Close
  PROVE  QInv'
<1> USE DEF QInv
<1>1. TypeOK'
  BY AboutMaterials, NoneIsNoJob, MaxRestartsNat DEF Close, CloseFrom, Active, TypeOK, Pending,
     Finished, Reserved, Places, store, task
<1>2. TableInv'
  BY DEF Close, CloseFrom, Active, TableInv, RowComesLast, OneReservation, ClearHasNoRival,
     OnePerMaterial, TypeOK, Pending, Finished, Reserved, store, task
<1>3. TaskInv'
  BY <1>1, NoneIsNoJob DEF Close, CloseFrom, Active, TaskInv, TableInv, RowComesLast,
     BuildingRuns, RunningIsHeld, ClaimIsFresh, EndsLast, Building, Claimed, TypeOK, Closing,
     Places, Finished, store, task
<1>4. Active' \subseteq Active
  BY DEF Close, CloseFrom, Active, Active, TypeOK, store, task
<1>5. RoomKept'
  BY <1>4, ActiveShrinks, ActiveFinite, SlotsPositive, NoneIsNoJob DEF Close, CloseFrom, Active,
     RoomKept, TaskInv, ClaimIsFresh, store, task
<1>6. QED
  BY <1>1, <1>2, <1>3, <1>5


LEMMA CloseInterruptedQInv ==
  ASSUME QInv, CloseInterrupted
  PROVE  QInv'
<1> USE DEF QInv
<1>1. TypeOK'
  BY AboutMaterials, NoneIsNoJob, MaxRestartsNat DEF CloseInterrupted, CloseFrom, TypeOK, Pending,
     Finished, Reserved, Places, store, task
<1>2. TableInv'
  BY DEF CloseInterrupted, CloseFrom, TableInv, RowComesLast, OneReservation, ClearHasNoRival,
     OnePerMaterial, TypeOK, Pending, Finished, Reserved, store, task
<1>3. TaskInv'
  BY <1>1, NoneIsNoJob DEF CloseInterrupted, CloseFrom, TaskInv, TableInv, RowComesLast,
     BuildingRuns, RunningIsHeld, ClaimIsFresh, EndsLast, Building, Claimed, TypeOK, Closing,
     Places, Finished, store, task
<1>4. Active' \subseteq Active
  BY DEF CloseInterrupted, CloseFrom, Active, TypeOK, store, task
<1>5. RoomKept'
  BY <1>4, ActiveShrinks, ActiveFinite, SlotsPositive, NoneIsNoJob DEF CloseInterrupted,
     CloseFrom, RoomKept, TaskInv, ClaimIsFresh, store, task
<1>6. QED
  BY <1>1, <1>2, <1>3, <1>5


LEMMA RestartQInv ==
  ASSUME QInv, Restart
  PROVE  QInv'
<1> USE DEF QInv
<1>1. TypeOK'
  <2>1. /\ db' \in [Jobs -> {"none"} \cup Pending \cup Finished]
        /\ asking' \in [Jobs -> {"idle", "answered"} \cup Reserved]
    BY DEF Restart, TypeOK, Pending, Finished, Reserved
  <2>2. /\ pump' \in PumpType
        /\ closer' \in [at : {"open", "interrupt", "gather"}, todo : SUBSET Jobs, job : Jobs \cup {None}]
        /\ closer'.at = "open"
    BY DEF Restart, PumpIdle, CloserOpen, PumpType
  <2>3. restarts' \in 0 .. MaxRestarts
    BY MaxRestartsNat DEF Restart, TypeOK
  <2>4. /\ at' \in [Jobs -> Places]
        /\ ends' \in [Jobs -> {"none", "queued"} \cup Finished]
        /\ order' \in Seq(Jobs)
        /\ UNCHANGED saved
    BY DEF Restart, TypeOK, Places
  <2>5. QED
    BY <2>1, <2>2, <2>3, <2>4 DEF Restart, TypeOK, PumpType
<1>2. TableInv'
  BY DEF Restart, PumpIdle, CloserOpen, TableInv, RowComesLast, OneReservation, ClearHasNoRival,
     OnePerMaterial, TypeOK, Pending, Finished, Reserved, store, task
<1>3. TaskInv'
  BY <1>1, NoneIsNoJob DEF Restart, PumpIdle, CloserOpen, TaskInv, TableInv, RowComesLast,
     BuildingRuns, RunningIsHeld, ClaimIsFresh, EndsLast, Building, Claimed, TypeOK, Closing,
     Places, Finished, store, task
<1>4. Active' \subseteq Active
  BY DEF Restart, PumpIdle, CloserOpen, Active, TypeOK, store, task
<1>5. RoomKept'
  BY <1>4, ActiveShrinks, ActiveFinite, SlotsPositive, NoneIsNoJob DEF Restart, PumpIdle,
     CloserOpen, RoomKept, TaskInv, ClaimIsFresh, store, task
<1>6. QED
  BY <1>1, <1>2, <1>3, <1>5

(***************************************************************************)
(* The steps of the pump                                                   *)
(***************************************************************************)
LEMMA PumpFirstQInv ==
  ASSUME QInv, PumpFirst
  PROVE  QInv'
<1> USE DEF QInv
<1> DEFINE p == [pump EXCEPT !.again = FALSE]
<1>1. p \in PumpType
  BY DEF TypeOK, PumpType
<1>2. pump' = Look(p, Active)
  BY DEF PumpFirst
<1>3. /\ pump' \in PumpType
      /\ pump'.job = None
      /\ pump'.at \in {"idle", "slots"}
      /\ pump'.room => Cardinality(Active) < Slots
  BY <1>1, <1>2, LookPump
<1>4. TypeOK' /\ TableInv'
  BY <1>3 DEF PumpFirst, TypeOK, PumpType, TableInv, RowComesLast, OneReservation, ClearHasNoRival,
              OnePerMaterial, store, task
<1>5. TaskInv'
  BY <1>3 DEF PumpFirst, TaskInv, BuildingRuns, RunningIsHeld, ClaimIsFresh, EndsLast, Claimed,
     store, task
<1>6. RoomKept'
  BY <1>3 DEF PumpFirst, RoomKept, Active, store, task
<1>7. QED
  BY <1>4, <1>5, <1>6

LEMMA PumpSlotsQInv ==
  ASSUME QInv, PumpSlots
  PROVE  QInv'
<1> USE DEF QInv
<1>1. \/ pump.room /\ pump' = [pump EXCEPT !.at = "claiming"]
      \/ pump' = Return(pump, Active) \/ pump' = PumpIdle
  BY DEF PumpSlots
<1>2. \/ pump.room /\ pump' = [pump EXCEPT !.at = "claiming"]
      \/ /\ pump' \in PumpType
         /\ pump'.job = None
         /\ pump'.at \in {"idle", "slots"}
         /\ pump'.room => Cardinality(Active) < Slots
  BY <1>1, LookPump DEF TypeOK, PumpType
<1>3. TypeOK' /\ TableInv'
  BY <1>2, ZenonT(40) DEF PumpSlots, TypeOK, PumpType, TableInv, RowComesLast, OneReservation, ClearHasNoRival,
              OnePerMaterial, store, task
<1>4. TaskInv'
  BY <1>2 DEF PumpSlots, TaskInv, BuildingRuns, RunningIsHeld, ClaimIsFresh, EndsLast, Claimed, TypeOK,
              store, task
<1>5. RoomKept'
  BY <1>2 DEF PumpSlots, RoomKept, Active, TypeOK, TaskInv, ClaimIsFresh, store, task
<1>6. QED
  BY <1>3, <1>4, <1>5

LEMMA PumpDoneQInv ==
  ASSUME QInv, PumpDone
  PROVE  QInv'
<1> USE DEF QInv
<1>1. /\ pump' \in PumpType
      /\ pump'.job = None
      /\ pump'.at \in {"idle", "slots"}
      /\ pump'.room => Cardinality(Active) < Slots
  BY LookPump DEF PumpDone, TypeOK, PumpType
<1>2. Closing => pump'.at = "idle"
  BY DEF PumpDone, PumpIdle
<1>3. TypeOK' /\ TableInv'
  BY <1>1 DEF PumpDone, TypeOK, PumpType, TableInv, RowComesLast, OneReservation, ClearHasNoRival,
              OnePerMaterial, store, task
<1>4. TaskInv'
  BY <1>1, <1>2, NoneIsNoJob DEF PumpDone, TaskInv, BuildingRuns, RunningIsHeld, ClaimIsFresh, EndsLast,
              Claimed, Closing, store, task
<1>5. RoomKept'
  BY <1>1 DEF PumpDone, RoomKept, Active, store, task
<1>6. QED
  BY <1>3, <1>4, <1>5

LEMMA PumpClaimQInv ==
  ASSUME QInv, PumpClaim
  PROVE  QInv'
<1> USE DEF QInv
<1>1. CASE /\ db' = db
           /\ pump' = [pump EXCEPT !.at = "claimed"]
  <2>1. pump.at = "claiming" /\ pump.job = None
    BY DEF PumpClaim, TaskInv, ClaimIsFresh
  <2>2. TypeOK' /\ TableInv'
    BY <1>1 DEF PumpClaim, TypeOK, TableInv, RowComesLast, OneReservation, ClearHasNoRival,
                OnePerMaterial, store, task
  <2>3. TaskInv' /\ RoomKept'
    BY <1>1, <2>1, NoneIsNoJob, ZenonT(40) DEF PumpClaim, TaskInv, BuildingRuns, RunningIsHeld, ClaimIsFresh,
                EndsLast, Claimed, RoomKept, Active, TypeOK, task
  <2>4. QED
    BY <2>2, <2>3
<1>2. ASSUME NEW j \in Jobs, db[j] = "queued",
             db' = [db EXCEPT ![j] = "running"],
             pump' = [pump EXCEPT !.at = "claimed", !.job = j]
      PROVE  QInv'
  <2>1. /\ pump.at = "claiming"
        /\ pump'.at = "claimed" /\ pump'.job = j /\ pump'.room = pump.room
        /\ UNCHANGED <<order, asking, at, ends, writing, saved, telling, stopper, stop, kill, closer, restarts>>
    BY <1>2 DEF PumpClaim, TypeOK, task
  <2>2. TypeOK'
    BY <1>2, <2>1 DEF TypeOK, Pending
  <2>3. TableInv'
    BY <1>2, <2>1 DEF TypeOK, TableInv, RowComesLast, OneReservation, ClearHasNoRival, OnePerMaterial, Pending
  <2>4. TaskInv'
    <3>1. /\ \A k \in Jobs : k # j => db'[k] = db[k]
          /\ db'[j] = "running" /\ at[j] \notin Building
      BY <1>2 DEF TypeOK, TaskInv, BuildingRuns
    <3>2. BuildingRuns' /\ EndsLast' /\ ClaimIsFresh'
      BY <2>1, <3>1 DEF TaskInv, BuildingRuns, EndsLast, ClaimIsFresh, Claimed
    <3>3. RunningIsHeld'
      BY <2>1, <3>1 DEF TaskInv, RunningIsHeld, Claimed
    <3>4. QED
      BY <3>2, <3>3 DEF TaskInv
  <2>5. RoomKept'
    BY <1>2, <2>1 DEF PumpClaim, RoomKept, Active, TypeOK, task
  <2>6. QED
    BY <2>2, <2>3, <2>4, <2>5
<1>3. QED
  BY <1>1, <1>2 DEF PumpClaim, OldestQueued

\* The registered job takes the slot the pump has kept for it.
LEMMA PumpStartQInv ==
  ASSUME QInv, NEW j \in Jobs, PumpStart(j)
  PROVE  QInv'
<1> USE DEF QInv
<1>1. /\ Claimed(j) /\ ~Closing /\ pump \in PumpType
      /\ at' = [at EXCEPT ![j] = "new"]
      /\ ends' = [ends EXCEPT ![j] = "none"]
      /\ pump' = Look(pump, Active \cup {j})
      /\ UNCHANGED <<db, order, asking, telling, stopper, closer, restarts>>
  BY DEF PumpStart, Claimed, TypeOK, PumpType, store
<1>2. /\ pump' \in PumpType
      /\ pump'.job = None
      /\ pump'.at = "slots"
      /\ pump'.room => Cardinality(Active \cup {j}) < Slots
  <2>1. pump' # PumpIdle
    BY <1>1 DEF Look, PumpIdle, PumpType
  <2>2. pump'.at = "slots"
    BY <1>1 DEF Look, PumpType
  <2>3. QED
    BY <1>1, <2>2, LookPump
<1>3. TypeOK'
  BY <1>1, <1>2 DEF PumpStart, TypeOK, PumpType, Places
<1>4. TableInv'
  BY <1>1 DEF TableInv, RowComesLast, OneReservation, ClearHasNoRival, OnePerMaterial
<1>5. TaskInv'
  <2>1. /\ \A k \in Jobs : k # j => at'[k] = at[k] /\ ends'[k] = ends[k]
        /\ at'[j] = "new" /\ ends'[j] = "none" /\ db[j] = "running"
    BY <1>1 DEF TypeOK, TaskInv, ClaimIsFresh
  <2>2. "new" \in Building
    BY DEF Building, Places
  <2>3. BuildingRuns' /\ EndsLast' /\ ClaimIsFresh'
    BY <1>1, <1>2, <2>1, SMTT(30) DEF TaskInv, BuildingRuns, EndsLast, ClaimIsFresh, Claimed
  <2>4. RunningIsHeld'
    BY <1>1, <1>2, <2>1, <2>2 DEF TaskInv, RunningIsHeld, Claimed
  <2>5. QED
    BY <2>3, <2>4 DEF TaskInv
<1>6. Active' = Active \cup {j}
  BY <1>1 DEF Active, TypeOK
<1>7. Cardinality(Active) < Slots
  BY <1>1, NoneIsNoJob DEF RoomKept, TypeOK, Claimed
<1>8. Cardinality(Active') <= Slots
  <2>1. Cardinality(Active \cup {j}) <= Cardinality(Active) + 1
    BY ActiveFinite, FS_AddElement
  <2>2. Cardinality(Active \cup {j}) \in Nat
    BY ActiveFinite, FS_AddElement, FS_CardinalityType
  <2>3. QED
    BY <1>6, <1>7, <2>1, <2>2, ActiveFinite, SlotsPositive
<1>9. RoomKept'
  BY <1>2, <1>6, <1>8 DEF RoomKept
<1>10. QED
  BY <1>3, <1>4, <1>5, <1>9

(***************************************************************************)
(* The invariant                                                           *)
(***************************************************************************)
LEMMA InitQInv == Init => QInv
<1> SUFFICES ASSUME Init PROVE QInv
  OBVIOUS
<1>1. TypeOK
  <2>1. /\ pump \in PumpType
        /\ closer \in [at : {"open", "interrupt", "gather"}, todo : SUBSET Jobs, job : Jobs \cup {None}]
        /\ closer.at = "open"
    BY DEF Init, PumpIdle, CloserOpen, PumpType
  <2>2. order \in Seq(Jobs) /\ restarts \in 0 .. MaxRestarts
    BY MaxRestartsNat DEF Init
  <2>3. QED
    BY <2>1, <2>2 DEF Init, TypeOK, PumpType, Places
<1>2. TableInv /\ TaskInv
  BY NoneIsNoJob DEF Init, TableInv, RowComesLast, OneReservation, ClearHasNoRival, OnePerMaterial,
     Pending, Reserved, TaskInv, BuildingRuns, RunningIsHeld, ClaimIsFresh, EndsLast, Building, Claimed,
     PumpIdle
<1>3. Active = {}
  BY DEF Init, Active
<1>4. RoomKept
  BY <1>3, FS_EmptySet, SlotsPositive DEF Init, RoomKept, PumpIdle
<1>5. QED
  BY <1>1, <1>2, <1>4 DEF QInv

LEMMA StutterQInv == QInv /\ UNCHANGED vars => QInv'
  BY DEF QInv, vars, store, task, TypeOK, TableInv, RowComesLast, OneReservation, ClearHasNoRival,
     OnePerMaterial, TaskInv, BuildingRuns, RunningIsHeld, ClaimIsFresh, EndsLast, Claimed, RoomKept,
     Active, Closing

LEMMA NextQInv == QInv /\ Next => QInv'
<1> SUFFICES ASSUME QInv, Next PROVE QInv'
  OBVIOUS
<1>1. ASSUME NEW j \in Jobs, Request(j) \/ Asking(j)
      PROVE  QInv'
  BY <1>1, RequestQInv, CheckPendingQInv, CreateQInv, CreatedQInv DEF Asking
<1>2. ASSUME NEW j \in Jobs, Running(j)
      PROVE  QInv'
  BY <1>2, BeginQInv, PrepareQInv, WorkLocallyQInv, AnswerQInv, MatchedQInv, SaveQInv, WritePagesQInv,
     BuiltQInv, UnwindQInv, EndQInv, LeaveQInv, TellQInv DEF Running
<1>3. ASSUME NEW j \in Jobs, StopRead(j) \/ Stopping(j)
      PROVE  QInv'
  BY <1>3, StopReadQInv, StopLookQInv, StopSwapQInv, StopInterruptedQInv DEF Stopping
<1>4. CASE Pumping
  BY <1>4, PumpFirstQInv, PumpSlotsQInv, PumpClaimQInv, PumpStartQInv, PumpDoneQInv DEF Pumping
<1>5. CASE Close \/ CloseInterrupted \/ Restart
  BY <1>5, CloseQInv, CloseInterruptedQInv, RestartQInv
<1>6. QED
  BY <1>1, <1>2, <1>3, <1>4, <1>5 DEF Next

LEMMA QInvHolds == Spec => []QInv
  BY InitQInv, NextQInv, StutterQInv, PTL DEF Spec

\* Every variable keeps its type; a CancelledError is only ever on its way to a
\* task that exists.
THEOREM TypeCorrect == Spec => []TypeOK
<1>1. QInv => TypeOK
  BY DEF QInv
<1>2. QED
  BY <1>1, QInvHolds, PTL

\* Whatever the order of requests, claims, stops, closing and restarts, a material
\* has at most one queued or running job.
THEOREM OnePerMaterialHolds == Spec => []OnePerMaterial
<1>1. QInv => OnePerMaterial
  BY DEF QInv, TableInv
<1>2. QED
  BY <1>1, QInvHolds, PTL

(***************************************************************************)
(* What a stopped task has saved                                           *)
(***************************************************************************)

LEMMA FrameSInv ==
  ASSUME SInv, UNCHANGED <<db, task, stopper, stop, kill, closer>>
  PROVE  SInv'
  BY DEF SInv, SavedLate, WritingIsSaid, StopReachesSaving, RequeueIsClosing, KillIsStop, InterruptIsStop,
         StoppedSavedNothing, Closing, task

LEMMA CreateSInv ==
  ASSUME QInv, SInv, NEW j \in Jobs, Create(j)
  PROVE  SInv'
<1>1. /\ db' = [db EXCEPT ![j] = "queued"] /\ db[j] = "none"
      /\ UNCHANGED <<task, stopper, stop, kill, closer>>
  BY DEF Create, QInv, TableInv, RowComesLast
<1>2. InterruptIsStop'
  BY <1>1 DEF SInv, InterruptIsStop, QInv, TypeOK, Closing, Finished, task
<1>3. QED
  BY <1>1, <1>2 DEF SInv, SavedLate, WritingIsSaid, StopReachesSaving, RequeueIsClosing, KillIsStop,
                    StoppedSavedNothing, Closing, task

LEMMA PumpClaimSInv ==
  ASSUME QInv, SInv, PumpClaim
  PROVE  SInv'
<1>1. UNCHANGED <<task, stopper, stop, kill, closer>>
  BY DEF PumpClaim
<1>2. \/ db' = db
      \/ \E j \in Jobs : db[j] = "queued" /\ db' = [db EXCEPT ![j] = "running"]
  BY DEF PumpClaim, OldestQueued
<1>3. InterruptIsStop'
  BY <1>1, <1>2 DEF SInv, InterruptIsStop, QInv, TypeOK, TaskInv, BuildingRuns, Closing, Finished, task
<1>4. QED
  BY <1>1, <1>3 DEF SInv, SavedLate, WritingIsSaid, StopReachesSaving, RequeueIsClosing, KillIsStop,
                    StoppedSavedNothing, Closing, task

LEMMA PumpStartSInv ==
  ASSUME QInv, SInv, NEW j \in Jobs, PumpStart(j)
  PROVE  SInv'
  BY DEF PumpStart, QInv, TypeOK, TaskInv, BuildingRuns, ClaimIsFresh, EndsLast, Claimed, Building,
     Places, Closing, Pending, Finished, Unsaved, SInv, SavedLate, WritingIsSaid, StopReachesSaving, RequeueIsClosing,
     KillIsStop, InterruptIsStop, StoppedSavedNothing, store, task

LEMMA BeginSInv ==
  ASSUME QInv, SInv, NEW j \in Jobs, Begin(j)
  PROVE  SInv'
  BY DEF Begin, Moves, QInv, TypeOK, TaskInv, BuildingRuns, ClaimIsFresh, EndsLast, Claimed,
     Building, Places, Closing, Pending, Finished, Unsaved, SInv, SavedLate, WritingIsSaid,
     StopReachesSaving, RequeueIsClosing, KillIsStop, InterruptIsStop, StoppedSavedNothing, store, task

\* A task that ends without having saved, or not as stopped.
LEMMA EndAsSInv ==
  ASSUME QInv, SInv, NEW j \in Jobs, at[j] \in Building, NEW s, EndAs(j, s),
         s = "cancelled" => j \notin saved,
         s = "queued" => Closing,
         UNCHANGED <<db, writing, saved, stopper, stop, closer>>
  PROVE  SInv'
<1>1. /\ \A k \in Jobs : k # j => at'[k] = at[k] /\ ends'[k] = ends[k]
      /\ at'[j] = "ending" /\ ends'[j] = s /\ kill' = kill \ {j}
  BY DEF EndAs, QInv, TypeOK
<1>2. SavedLate' /\ WritingIsSaid' /\ StopReachesSaving'
  BY <1>1 DEF SInv, SavedLate, WritingIsSaid, StopReachesSaving, Unsaved
<1>3. InterruptIsStop' /\ KillIsStop' /\ RequeueIsClosing' /\ StoppedSavedNothing'
  BY <1>1 DEF SInv, InterruptIsStop, KillIsStop, RequeueIsClosing, StoppedSavedNothing, Closing,
              Building, Places
<1>4. QED
  BY <1>2, <1>3 DEF SInv

LEMMA PrepareSInv ==
  ASSUME QInv, SInv, NEW j \in Jobs, Prepare(j)
  PROVE  SInv'
<1>1. /\ at[j] = "scope" /\ at[j] \in Building /\ j \notin saved
      /\ UNCHANGED <<db, writing, saved, stopper, stop, closer>>
  BY DEF Prepare, Moves, SInv, SavedLate, Unsaved, Building, Places, store
<1>2. ASSUME NEW s, EndAs(j, s), s = "queued" => Closing
      PROVE  SInv'
  BY <1>1, <1>2, EndAsSInv
<1>3. ASSUME NEW to \in Building \ {"write", "wrote", "saving", "ending"}, at' = [at EXCEPT ![j] = to],
             UNCHANGED <<ends, kill>>
      PROVE  SInv'
  BY <1>1, <1>3 DEF QInv, TypeOK, SInv, SavedLate, WritingIsSaid, StopReachesSaving, RequeueIsClosing,
                    KillIsStop, InterruptIsStop, StoppedSavedNothing, Closing, Building, Places, Unsaved
<1>4. \/ EndAs(j, "cancelled") \/ EndAs(j, "failed")
      \/ at' = [at EXCEPT ![j] = "local"] /\ UNCHANGED <<ends, kill>>
  BY DEF Prepare, Moves
<1>5. QED
  BY <1>1, <1>2, <1>3, <1>4 DEF Building, Places

LEMMA WorkLocallySInv ==
  ASSUME QInv, SInv, NEW j \in Jobs, WorkLocally(j)
  PROVE  SInv'
<1>1. /\ at[j] = "local" /\ at[j] \in Building /\ j \notin saved
      /\ UNCHANGED <<db, writing, saved, stopper, stop, closer>>
  BY DEF WorkLocally, Moves, SInv, SavedLate, Unsaved, Building, Places, store
<1>2. ASSUME NEW s, EndAs(j, s), s = "queued" => Closing
      PROVE  SInv'
  BY <1>1, <1>2, EndAsSInv
<1>3. ASSUME NEW to \in Building \ {"write", "wrote", "saving", "ending"}, at' = [at EXCEPT ![j] = to],
             UNCHANGED <<ends, kill>>
      PROVE  SInv'
  BY <1>1, <1>3 DEF QInv, TypeOK, SInv, SavedLate, WritingIsSaid, StopReachesSaving, RequeueIsClosing,
                    KillIsStop, InterruptIsStop, StoppedSavedNothing, Closing, Building, Places, Unsaved
<1>4. \/ EndAs(j, "cancelled") \/ EndAs(j, "failed")
      \/ (at' = [at EXCEPT ![j] = "model"] \/ at' = [at EXCEPT ![j] = "match"]) /\ UNCHANGED <<ends, kill>>
  BY DEF WorkLocally, Moves
<1>5. QED
  BY <1>1, <1>2, <1>3, <1>4 DEF Building, Places

LEMMA AnswerSInv ==
  ASSUME QInv, SInv, NEW j \in Jobs, Answer(j)
  PROVE  SInv'
<1>1. /\ at[j] = "model" /\ at[j] \in Building /\ j \notin saved
      /\ UNCHANGED <<db, writing, saved, stopper, stop, closer>>
  BY DEF Answer, Moves, SInv, SavedLate, Unsaved, Building, Places, store
<1>2. ASSUME NEW s, EndAs(j, s), s = "queued" => Closing
      PROVE  SInv'
  BY <1>1, <1>2, EndAsSInv
<1>3. ASSUME NEW to \in Building \ {"write", "wrote", "saving", "ending"}, at' = [at EXCEPT ![j] = to],
             UNCHANGED <<ends, kill>>
      PROVE  SInv'
  BY <1>1, <1>3 DEF QInv, TypeOK, SInv, SavedLate, WritingIsSaid, StopReachesSaving, RequeueIsClosing,
                    KillIsStop, InterruptIsStop, StoppedSavedNothing, Closing, Building, Places, Unsaved
<1>4. \/ EndAs(j, "failed")
      \/ EndAs(j, "paused")
      \/ EndAs(j, Stopped(j)) /\ (Stopped(j) = "queued" => Closing)
      \/ at' = [at EXCEPT ![j] = "match"] /\ UNCHANGED <<ends, kill>>
  BY DEF Answer, Moves, Stopped
<1>5. QED
  BY <1>1, <1>2, <1>3, <1>4 DEF Building, Places

LEMMA MatchedSInv ==
  ASSUME QInv, SInv, NEW j \in Jobs, Matched(j)
  PROVE  SInv'
  BY SMTT(30) DEF Matched, EndAs, Moves, QInv, TypeOK, TaskInv, BuildingRuns, ClaimIsFresh, EndsLast,
     Claimed, Building, Places, Closing, Pending, Finished, Unsaved, SInv, SavedLate, WritingIsSaid,
     StopReachesSaving, RequeueIsClosing, KillIsStop, InterruptIsStop, StoppedSavedNothing, store, task

LEMMA SaveSInv ==
  ASSUME QInv, SInv, NEW j \in Jobs, Save(j)
  PROVE  SInv'
  BY DEF Save, Moves, QInv, TypeOK, TaskInv, BuildingRuns, ClaimIsFresh, EndsLast, Claimed,
     Building, Places, Closing, Pending, Finished, Unsaved, SInv, SavedLate, WritingIsSaid,
     StopReachesSaving, RequeueIsClosing, KillIsStop, InterruptIsStop, StoppedSavedNothing, store, task

LEMMA WritePagesSInv ==
  ASSUME QInv, SInv, NEW j \in Jobs, WritePages(j)
  PROVE  SInv'
  BY DEF WritePages, EndAs, Moves, QInv, TypeOK, TaskInv, BuildingRuns, ClaimIsFresh, EndsLast,
     Claimed, Building, Places, Closing, Pending, Finished, Unsaved, SInv, SavedLate, WritingIsSaid,
     StopReachesSaving, RequeueIsClosing, KillIsStop, InterruptIsStop, StoppedSavedNothing, store, task

LEMMA BuiltSInv ==
  ASSUME QInv, SInv, NEW j \in Jobs, Built(j)
  PROVE  SInv'
  BY DEF Built, EndAs, QInv, TypeOK, TaskInv, BuildingRuns, ClaimIsFresh, EndsLast, Claimed,
     Building, Places, Closing, Pending, Finished, Unsaved, SInv, SavedLate, WritingIsSaid,
     StopReachesSaving, RequeueIsClosing, KillIsStop, InterruptIsStop, StoppedSavedNothing, store, task

LEMMA UnwindSInv ==
  ASSUME QInv, SInv, NEW j \in Jobs, Unwind(j)
  PROVE  SInv'
  BY DEF Unwind, EndAs, Stopped, QInv, TypeOK, TaskInv, BuildingRuns, ClaimIsFresh, EndsLast,
     Claimed, Building, Places, Closing, Pending, Finished, Unsaved, SInv, SavedLate, WritingIsSaid,
     StopReachesSaving, RequeueIsClosing, KillIsStop, InterruptIsStop, StoppedSavedNothing, store, task

LEMMA EndSInv ==
  ASSUME QInv, SInv, NEW j \in Jobs, End(j)
  PROVE  SInv'
  BY DEF End, Moves, QInv, TypeOK, TaskInv, BuildingRuns, ClaimIsFresh, EndsLast, Claimed, Building,
     Places, Closing, Pending, Finished, Unsaved, SInv, SavedLate, WritingIsSaid, StopReachesSaving, RequeueIsClosing,
     KillIsStop, InterruptIsStop, StoppedSavedNothing, store, task

LEMMA LeaveSInv ==
  ASSUME QInv, SInv, NEW j \in Jobs, Leave(j)
  PROVE  SInv'
  BY DEF Leave, QInv, TypeOK, TaskInv, BuildingRuns, ClaimIsFresh, EndsLast, Claimed, Building,
     Places, Closing, Pending, Finished, Unsaved, SInv, SavedLate, WritingIsSaid, StopReachesSaving, RequeueIsClosing,
     KillIsStop, InterruptIsStop, StoppedSavedNothing, store, task

LEMMA TellSInv ==
  ASSUME QInv, SInv, NEW j \in Jobs, Tell(j)
  PROVE  SInv'
  BY DEF Tell, Moves, QInv, TypeOK, TaskInv, BuildingRuns, ClaimIsFresh, EndsLast, Claimed,
     Building, Places, Closing, Pending, Finished, Unsaved, SInv, SavedLate, WritingIsSaid,
     StopReachesSaving, RequeueIsClosing, KillIsStop, InterruptIsStop, StoppedSavedNothing, store, task

LEMMA StopReadSInv ==
  ASSUME QInv, SInv, NEW j \in Jobs, StopRead(j)
  PROVE  SInv'
  BY DEF StopRead, QInv, TypeOK, TaskInv, BuildingRuns, ClaimIsFresh, EndsLast, Claimed, Building,
     Places, Closing, Pending, Finished, Unsaved, SInv, SavedLate, WritingIsSaid, StopReachesSaving, RequeueIsClosing,
     KillIsStop, InterruptIsStop, StoppedSavedNothing, store, task

LEMMA StopSwapSInv ==
  ASSUME QInv, SInv, NEW j \in Jobs, StopSwap(j)
  PROVE  SInv'
  BY DEF StopSwap, QInv, TypeOK, TaskInv, BuildingRuns, ClaimIsFresh, EndsLast, Claimed, Building,
     Places, Closing, Pending, Finished, Unsaved, SInv, SavedLate, WritingIsSaid, StopReachesSaving, RequeueIsClosing,
     KillIsStop, InterruptIsStop, StoppedSavedNothing, store, task

LEMMA StopLookSInv ==
  ASSUME QInv, SInv, NEW j \in Jobs, StopLook(j)
  PROVE  SInv'
  BY DEF StopLook, StopActive, HasRun, AtEngine, Active, QInv, TypeOK, TaskInv, BuildingRuns,
     ClaimIsFresh, EndsLast, Claimed, Building, Places, Closing, Pending, Finished, Unsaved, SInv,
     SavedLate, WritingIsSaid, StopReachesSaving, RequeueIsClosing, KillIsStop, InterruptIsStop, StoppedSavedNothing,
     store, task

LEMMA StopInterruptedSInv ==
  ASSUME QInv, SInv, NEW j \in Jobs, StopInterrupted(j)
  PROVE  SInv'
  BY DEF StopInterrupted, QInv, TypeOK, TaskInv, BuildingRuns, ClaimIsFresh, EndsLast, Claimed,
     Building, Places, Closing, Pending, Finished, Unsaved, SInv, SavedLate, WritingIsSaid,
     StopReachesSaving, RequeueIsClosing, KillIsStop, InterruptIsStop, StoppedSavedNothing, store, task

LEMMA CloseSInv ==
  ASSUME QInv, SInv, Close
  PROVE  SInv'
  BY DEF Close, CloseFrom, QInv, TypeOK, TaskInv, BuildingRuns, ClaimIsFresh, EndsLast, Claimed,
     Building, Places, Closing, Pending, Finished, Unsaved, SInv, SavedLate, WritingIsSaid,
     StopReachesSaving, RequeueIsClosing, KillIsStop, InterruptIsStop, StoppedSavedNothing, store, task

LEMMA CloseInterruptedSInv ==
  ASSUME QInv, SInv, CloseInterrupted
  PROVE  SInv'
  BY DEF CloseInterrupted, CloseFrom, QInv, TypeOK, TaskInv, BuildingRuns, ClaimIsFresh, EndsLast,
     Claimed, Building, Places, Closing, Pending, Finished, Unsaved, SInv, SavedLate, WritingIsSaid,
     StopReachesSaving, RequeueIsClosing, KillIsStop, InterruptIsStop, StoppedSavedNothing, store, task

LEMMA RestartSInv ==
  ASSUME QInv, SInv, Restart
  PROVE  SInv'
  BY DEF Restart, CloserOpen, QInv, TypeOK, TaskInv, BuildingRuns, ClaimIsFresh, EndsLast, Claimed,
     Building, Places, Closing, Pending, Finished, Unsaved, SInv, SavedLate, WritingIsSaid,
     StopReachesSaving, RequeueIsClosing, KillIsStop, InterruptIsStop, StoppedSavedNothing, store, task

LEMMA InitSInv == Init => SInv
  BY DEF Init, SInv, SavedLate, WritingIsSaid, StopReachesSaving, RequeueIsClosing, KillIsStop,
         InterruptIsStop, StoppedSavedNothing, Unsaved

LEMMA NextSInv == QInv /\ SInv /\ Next => SInv'
<1> SUFFICES ASSUME QInv, SInv, Next PROVE SInv'
  OBVIOUS
<1>1. ASSUME NEW j \in Jobs, Request(j) \/ Asking(j)
      PROVE  SInv'
  <2>1. CASE Request(j) \/ CheckPending(j) \/ Created(j)
    BY <2>1, FrameSInv DEF Request, CheckPending, Created, store
  <2>2. QED
    BY <1>1, <2>1, CreateSInv DEF Asking
<1>2. ASSUME NEW j \in Jobs, Running(j)
      PROVE  SInv'
  BY <1>2, BeginSInv, PrepareSInv, WorkLocallySInv, AnswerSInv, MatchedSInv, SaveSInv, WritePagesSInv,
     BuiltSInv, UnwindSInv, EndSInv, LeaveSInv, TellSInv DEF Running
<1>3. ASSUME NEW j \in Jobs, StopRead(j) \/ Stopping(j)
      PROVE  SInv'
  BY <1>3, StopReadSInv, StopLookSInv, StopSwapSInv, StopInterruptedSInv DEF Stopping
<1>4. CASE Pumping
  <2>1. CASE PumpFirst \/ PumpSlots \/ PumpDone
    BY <2>1, FrameSInv DEF PumpFirst, PumpSlots, PumpDone, store
  <2>2. QED
    BY <1>4, <2>1, PumpClaimSInv, PumpStartSInv DEF Pumping
<1>5. CASE Close \/ CloseInterrupted \/ Restart
  BY <1>5, CloseSInv, CloseInterruptedSInv, RestartSInv
<1>6. QED
  BY <1>1, <1>2, <1>3, <1>4, <1>5 DEF Next

\* A run that ends as "Stopped. Nothing from this run was saved." has saved nothing,
\* whenever the Stop came: before its first step, at its engine, or while it was
\* about to save.
THEOREM StoppedSavedNothingHolds == Spec => []StoppedSavedNothing
<1>1. SInv /\ UNCHANGED vars => SInv'
  BY FrameSInv DEF vars, store
<1>2. SInv => StoppedSavedNothing
  BY DEF SInv
<1>3. QED
  BY <1>1, <1>2, InitSInv, NextSInv, QInvHolds, PTL DEF Spec

(***************************************************************************)
(* The jobs table implements JobLifecycle                                  *)
(***************************************************************************)
LEMMA CreateEnqueues ==
  ASSUME QInv, NEW j \in Jobs, Create(j)
  PROVE  Lifecycle!Enqueue(j)
  BY DEF Create, Lifecycle!Enqueue, Lifecycle!Pending, QInv, TableInv, RowComesLast, ClearHasNoRival, Pending

\* A set grows by at most one with an element more.
LEMMA OneMore ==
  ASSUME NEW S, NEW x, IsFiniteSet(S)
  PROVE  Cardinality(S \cup {x}) <= Cardinality(S) + 1 /\ Cardinality(S \cup {x}) \in Nat
<1>1. IsFiniteSet(S \cup {x}) /\ Cardinality(S \cup {x}) \in Nat /\ Cardinality(S) \in Nat
  BY FS_AddElement, FS_CardinalityType
<1>2. Cardinality(S \cup {x}) = Cardinality(S) \/ Cardinality(S \cup {x}) = Cardinality(S) + 1
  BY FS_AddElement
<1>3. QED
  BY <1>1, <1>2

\* The rows that run while the pump claims are those of tasks, fewer than the slots.
LEMMA ClaimStarts ==
  ASSUME QInv, NEW j \in Jobs, PumpClaim, OldestQueued(j), db' = [db EXCEPT ![j] = "running"]
  PROVE  Lifecycle!Start(j)
<1>1. Lifecycle!InState("running") \subseteq Active
  BY DEF PumpClaim, Lifecycle!InState, QInv, TaskInv, RunningIsHeld, Claimed, Active, Building
<1>2. Cardinality(Active) < Slots
  BY DEF PumpClaim, QInv, RoomKept
<1>3. Lifecycle!InState("running") \cup {j} \in {S \in SUBSET Jobs : Cardinality(S) <= Slots}
  <2> DEFINE R == Lifecycle!InState("running")
  <2>1. R \subseteq Jobs
    BY DEF Lifecycle!InState
  <2>2. IsFiniteSet(R) /\ Cardinality(R) <= Cardinality(Active) /\ Cardinality(R) \in Nat
    BY <1>1, ActiveFinite, FS_Subset, FS_CardinalityType
  <2>3. Cardinality(R \cup {j}) <= Cardinality(R) + 1 /\ Cardinality(R \cup {j}) \in Nat
    BY <2>2, OneMore
  <2>4. Cardinality(R \cup {j}) <= Slots
    <3> HIDE DEF R
    <3> QED
      BY <2>2, <2>3, <1>2, SlotsPositive, ActiveFinite
  <2> QED
    BY <2>1, <2>4
<1>4. Lifecycle!Oldest(j)
  BY DEF OldestQueued, Lifecycle!Oldest
<1>5. UNCHANGED order
  BY DEF PumpClaim
<1>6. QED
  BY <1>3, <1>4, <1>5 DEF Lifecycle!Start

LEMMA EndFinishes ==
  ASSUME QInv, NEW j \in Jobs, End(j)
  PROVE  Lifecycle!Finish(j) \/ Lifecycle!GoBack({j})
<1>1. /\ db[j] = "running" /\ ends[j] \in {"queued"} \cup Finished
      /\ db' = [db EXCEPT ![j] = ends[j]] /\ UNCHANGED order
  BY DEF End, Moves, QInv, TypeOK, TaskInv, BuildingRuns, EndsLast, Building, Places
<1>2. CASE ends[j] = "queued"
  BY <1>1, <1>2 DEF Lifecycle!GoBack, Lifecycle!InState, QInv, TypeOK
<1>3. CASE ends[j] \in Finished
  BY <1>1, <1>3 DEF Lifecycle!Finish, Lifecycle!Finished, Finished
<1>4. QED
  BY <1>1, <1>2, <1>3

LEMMA RestartGoesBack ==
  ASSUME QInv, Restart
  PROVE  (\E jobs \in SUBSET Jobs : Lifecycle!GoBack(jobs)) \/ UNCHANGED <<db, order>>
<1> DEFINE jobs == {j \in Jobs : db[j] = "running"}
<1>1. CASE jobs = {}
  BY <1>1 DEF Restart, QInv, TypeOK
<1>2. CASE jobs # {}
  <2>1. db' = [j \in Jobs |-> IF j \in jobs THEN "queued" ELSE db[j]] /\ UNCHANGED order
    BY DEF Restart
  <2>2. Lifecycle!GoBack(jobs)
    BY <1>2, <2>1 DEF Lifecycle!GoBack, Lifecycle!InState
  <2>3. QED
    BY <2>2
<1>3. QED
  BY <1>1, <1>2

LEMMA StepImplements ==
  ASSUME QInv, Next
  PROVE  Lifecycle!Next \/ UNCHANGED <<db, order>>
<1>1. ASSUME NEW j \in Jobs, Request(j) \/ Asking(j)
      PROVE  Lifecycle!Next \/ UNCHANGED <<db, order>>
  BY <1>1, CreateEnqueues DEF Asking, Request, CheckPending, Created, Lifecycle!Next, store
<1>2. ASSUME NEW j \in Jobs, Running(j)
      PROVE  Lifecycle!Next \/ UNCHANGED <<db, order>>
  <2>1. CASE End(j)
    BY <2>1, EndFinishes DEF Lifecycle!Next
  <2>2. QED
    BY <1>2, <2>1 DEF Running, Begin, Prepare, WorkLocally, Answer, Matched, Save, WritePages, Built, Unwind,
                      Leave, Tell, store
<1>3. ASSUME NEW j \in Jobs, StopRead(j) \/ Stopping(j)
      PROVE  Lifecycle!Next \/ UNCHANGED <<db, order>>
  BY <1>3 DEF StopRead, Stopping, StopLook, StopSwap, StopInterrupted, Lifecycle!Next,
              Lifecycle!StopQueued, store
<1>4. CASE Pumping
  <2>1. CASE PumpClaim
    BY <2>1, ClaimStarts DEF PumpClaim, Lifecycle!Next
  <2>2. QED
    BY <1>4, <2>1 DEF Pumping, PumpFirst, PumpSlots, PumpStart, PumpDone, store
<1>5. CASE Close \/ CloseInterrupted \/ Restart
  BY <1>5, RestartGoesBack DEF Close, CloseInterrupted, Lifecycle!Next, store
<1>6. QED
  BY <1>1, <1>2, <1>3, <1>4, <1>5 DEF Next

\* For any number of requests, slots and restarts the jobs table implements
\* JobLifecycle: jobs start oldest first and within the slots, a material has one
\* pending job, and a finished row never changes.
THEOREM LifecycleImplemented == Spec => LifecycleKept
<1>1. Init => Lifecycle!Init
  BY DEF Init, Lifecycle!Init
<1>2. QInv /\ [Next]_vars => [Lifecycle!Next]_<<db, order>>
  BY StepImplements DEF vars, store
<1>3. QED
  BY <1>1, <1>2, QInvHolds, PTL DEF Spec, LifecycleKept, Lifecycle!Spec

(***************************************************************************)
(* Who ends a running row, and what closing has reached                    *)
(***************************************************************************)
Early == {"new", "scope", "local"}

\* A task that has not begun has no CancelledError on its way.
NewIsFresh == ~Closing => \A j \in Jobs : at[j] = "new" => j \notin kill /\ stopper[j] # "interrupting"

EarlyIsUnwritten == \A j \in Jobs : at[j] \in Early => j \notin writing

\* A task that may still call a model is cancelled, or close has yet to visit it.
CloseFits ==
  Closing => \A j \in Jobs : at[j] \in Early =>
    j \in kill \/ (closer.at = "interrupt" /\ j \in closer.todo)

StartInv == NewIsFresh /\ EarlyIsUnwritten /\ CloseFits

LEMMA InitStart == Init => StartInv
  BY DEF Init, StartInv, NewIsFresh, EarlyIsUnwritten, CloseFits, Early, CloserOpen, Closing

\* Nobody is started, stopped at the engine or let go of a CancelledError.
LEMMA QuietStart ==
  ASSUME StartInv, UNCHANGED <<at, writing, kill, closer>>,
         \A j \in Jobs : stopper'[j] = "interrupting" => stopper[j] = "interrupting"
  PROVE  StartInv'
  BY DEF StartInv, NewIsFresh, EarlyIsUnwritten, CloseFits, Closing

\* A step of one task that was not cancelled, or is at its end.
LEMMA RunStart ==
  ASSUME QInv, StartInv, NEW j \in Jobs, NEW to, at' = [at EXCEPT ![j] = to], to # "new",
         to \in Early => at[j] \in Early, kill' \in {kill, kill \ {j}},
         to \in Early => kill' = kill,
         writing' = writing \/ (to \notin Early /\ writing' = writing \cup {j}),
         UNCHANGED <<stopper, closer>>
  PROVE  StartInv'
<1>1. at'[j] = to /\ \A k \in Jobs \ {j} : at'[k] = at[k]
  BY DEF QInv, TypeOK
<1>2. NewIsFresh'
  BY <1>1 DEF StartInv, NewIsFresh, Closing
<1>3. EarlyIsUnwritten'
  BY <1>1 DEF StartInv, EarlyIsUnwritten
<1>4. CloseFits'
  BY <1>1 DEF StartInv, CloseFits, Closing
<1>5. QED
  BY <1>2, <1>3, <1>4 DEF StartInv

LEMMA RunningStart ==
  ASSUME QInv, StartInv, NEW j \in Jobs, Running(j)
  PROVE  StartInv'
<1>1. UNCHANGED <<stopper, closer>>
  BY DEF Running, Begin, Prepare, WorkLocally, Answer, Matched, Save, WritePages, Built, Unwind, End, Leave, Tell
<1>2. ASSUME NEW s, EndAs(j, s), writing' = writing PROVE StartInv'
  BY <1>1, <1>2, RunStart DEF EndAs, Early
<1>3. CASE Begin(j) \/ Prepare(j)
  BY <1>1, <1>2, <1>3, RunStart DEF Begin, Prepare, Moves, Early
<1>4. CASE WorkLocally(j) \/ Answer(j) \/ Matched(j) \/ Save(j)
  BY <1>1, <1>2, <1>4, RunStart DEF WorkLocally, Answer, Matched, Save, Moves, Early
<1>5. CASE WritePages(j) \/ Built(j) \/ Unwind(j) \/ End(j) \/ Leave(j) \/ Tell(j)
  BY <1>1, <1>2, <1>5, RunStart DEF WritePages, Built, Unwind, End, Leave, Tell, Moves, Early
<1>6. QED
  BY <1>3, <1>4, <1>5 DEF Running

\* An interrupted engine belongs to a task that builds, and a claimed row has none.
LEMMA PumpStartStart ==
  ASSUME QInv, SInv, StartInv, NEW j \in Jobs, PumpStart(j)
  PROVE  StartInv'
<1>1. /\ ~Closing /\ at'[j] = "new" /\ \A k \in Jobs \ {j} : at'[k] = at[k]
      /\ writing' = writing \ {j} /\ kill' = kill \ {j} /\ UNCHANGED <<stopper, closer>>
  BY DEF PumpStart, QInv, TypeOK
<1>2. stopper[j] # "interrupting"
  BY <1>1 DEF PumpStart, SInv, InterruptIsStop, QInv, TaskInv, ClaimIsFresh, Claimed, Finished
<1>3. QED
  BY <1>1, <1>2 DEF StartInv, NewIsFresh, EarlyIsUnwritten, CloseFits, Closing, Early

LEMMA StopStart ==
  ASSUME QInv, StartInv, NEW j \in Jobs, StopRead(j) \/ Stopping(j)
  PROVE  StartInv'
<1>1. stopper \in [Jobs -> {"idle", "sawQueued", "sawStarted", "swap", "missed",
                            "interrupting", "answered", "refused", "finished"}]
  BY DEF QInv, TypeOK
<1>2. CASE StopRead(j) \/ StopSwap(j)
  BY <1>1, <1>2, QuietStart DEF StopRead, StopSwap, task
<1>3. CASE StopLook(j)
  <2>1. UNCHANGED <<at, writing, closer>> /\ kill \subseteq kill'
    BY <1>3 DEF StopLook, StopActive, task
  <2>2. \A k \in Jobs : at[k] = "new" => (k \in kill' => k \in kill)
    BY <1>3 DEF StopLook, StopActive, HasRun
  <2>3. \A k \in Jobs : at[k] = "new" => (stopper'[k] = "interrupting" => stopper[k] = "interrupting")
    BY <1>1, <1>3 DEF StopLook, StopActive, AtEngine
  <2>4. QED
    BY <2>1, <2>2, <2>3 DEF StartInv, NewIsFresh, EarlyIsUnwritten, CloseFits, Closing
<1>4. CASE StopInterrupted(j)
  <2>1. UNCHANGED <<at, writing, closer>> /\ kill \subseteq kill' /\ kill' \subseteq kill \cup {j}
    BY <1>4 DEF StopInterrupted, task
  <2>2. stopper[j] = "interrupting" /\ \A k \in Jobs : stopper'[k] = "interrupting" => stopper[k] = "interrupting"
    BY <1>1, <1>4 DEF StopInterrupted
  <2>3. QED
    BY <2>1, <2>2 DEF StartInv, NewIsFresh, EarlyIsUnwritten, CloseFits, Closing
<1>5. QED
  BY <1>2, <1>3, <1>4 DEF Stopping

LEMMA CloseStart ==
  ASSUME QInv, StartInv, Close \/ CloseInterrupted
  PROVE  StartInv'
<1>1. UNCHANGED <<at, writing, stopper>>
  BY DEF Close, CloseInterrupted, task
<1>2. ASSUME NEW todo \in SUBSET Jobs, NEW cancelled \in SUBSET Jobs, CloseFrom(todo, cancelled),
             \A j \in Jobs : at[j] \in Early => j \in cancelled \/ j \in todo
      PROVE  StartInv'
  <2>1. PICK quick \in SUBSET todo :
          /\ \A j \in quick : ~AtEngine(j)
          /\ kill' = cancelled \cup {j \in quick : at[j] # "none" /\ j \notin writing}
          /\ \/ /\ quick = todo
                /\ closer' = [at |-> "gather", todo |-> {}, job |-> None]
             \/ \E j \in todo \ quick :
                  /\ AtEngine(j)
                  /\ closer' = [at |-> "interrupt", todo |-> todo \ (quick \cup {j}), job |-> j]
    BY <1>2 DEF CloseFrom
  <2>2. Closing'
    BY <2>1 DEF Closing
  <2>3. ASSUME NEW j \in Jobs, at[j] \in Early
        PROVE  j \in kill' \/ (closer'.at = "interrupt" /\ j \in closer'.todo)
    <3>1. ~AtEngine(j) /\ j \notin writing /\ at[j] # "none"
      BY <2>3 DEF StartInv, EarlyIsUnwritten, Early, AtEngine
    <3>2. j \in cancelled \/ j \in todo
      BY <1>2, <2>3
    <3>3. QED
      BY <2>1, <3>1, <3>2
  <2>4. QED
    BY <1>1, <2>2, <2>3 DEF StartInv, NewIsFresh, EarlyIsUnwritten, CloseFits
<1>3. CASE Close
  <2>1. CloseFrom(Active, kill) /\ Active \in SUBSET Jobs /\ kill \in SUBSET Jobs
    BY <1>3 DEF Close, Active, QInv, TypeOK
  <2>2. \A j \in Jobs : at[j] \in Early => j \in Active
    BY DEF Early, Active
  <2>3. QED
    BY <1>2, <2>1, <2>2
<1>4. CASE CloseInterrupted
  <2> DEFINE cancelled == IF at[closer.job] = "none" THEN kill ELSE kill \cup {closer.job}
  <2>1. closer.at = "interrupt" /\ CloseFrom(closer.todo, cancelled)
    BY <1>4 DEF CloseInterrupted
  <2>2. closer.todo \in SUBSET Jobs /\ cancelled \in SUBSET Jobs /\ kill \subseteq cancelled
    BY <2>1 DEF QInv, TypeOK
  <2>3. \A j \in Jobs : at[j] \in Early => j \in cancelled \/ j \in closer.todo
    BY <2>1, <2>2 DEF StartInv, CloseFits, Closing
  <2> HIDE DEF cancelled
  <2>4. QED
    BY <1>2, <2>1, <2>2, <2>3
<1>5. QED
  BY <1>3, <1>4

LEMMA NextStart == QInv /\ SInv /\ StartInv /\ Next => StartInv'
<1> SUFFICES ASSUME QInv, SInv, StartInv, Next PROVE StartInv'
  OBVIOUS
<1>1. ASSUME NEW j \in Jobs, Request(j) \/ Asking(j)
      PROVE  StartInv'
  BY <1>1, QuietStart DEF Asking, Request, CheckPending, Create, Created, task
<1>2. CASE Pumping
  <2>1. CASE PumpFirst \/ PumpSlots \/ PumpClaim \/ PumpDone
    BY <2>1, QuietStart DEF PumpFirst, PumpSlots, PumpClaim, PumpDone, task
  <2>2. QED
    BY <1>2, <2>1, PumpStartStart DEF Pumping
<1>3. CASE Restart
  BY <1>3 DEF Restart, CloserOpen, StartInv, NewIsFresh, EarlyIsUnwritten, CloseFits, Closing, Early
<1>4. QED
  BY <1>1, <1>2, <1>3, RunningStart, StopStart, CloseStart DEF Next

LEMMA StartInvHolds == Spec => [](SInv /\ StartInv)
<1>1. SInv /\ UNCHANGED vars => SInv'
  BY FrameSInv DEF vars, store
<1>2. StartInv /\ UNCHANGED vars => StartInv'
  BY QuietStart DEF vars, task
<1>3. QED
  BY <1>1, <1>2, InitSInv, NextSInv, InitStart, NextStart, QInvHolds, PTL DEF Spec

\* While SKAZ is open, a row that says "running" has a task that will end it, not one that was
\* cancelled before its first step, or the pump that claimed it.
THEOREM RunningIsOwnedHolds == Spec => []RunningIsOwned
<1>1. QInv /\ StartInv => RunningIsOwned
  <2> SUFFICES ASSUME QInv, StartInv, ~Closing, NEW j \in Jobs, db[j] = "running"
               PROVE  \/ at[j] \notin {"none", "ended", "telling"} /\ ~(at[j] = "new" /\ j \in kill)
                      \/ pump.job = j
    BY DEF RunningIsOwned
  <2>1. at[j] \in Building \/ Claimed(j)
    BY DEF QInv, TaskInv, RunningIsHeld
  <2>2. QED
    BY <2>1 DEF Building, Claimed, StartInv, NewIsFresh
<1>2. QED
  BY <1>1, QInvHolds, StartInvHolds, PTL

\* The pump never starts more tasks than the engine has slots, and one task at a time builds a
\* material.
THEOREM SlotsRespectedHolds == Spec => []SlotsRespected
<1>1. QInv => SlotsRespected
  <2> SUFFICES ASSUME QInv PROVE SlotsRespected
    OBVIOUS
  <2>1. Cardinality(Active) <= Slots
    BY DEF QInv, RoomKept
  <2>2. ASSUME NEW j \in Active, NEW k \in Active, About[j] = About[k], at[j] # "ended", at[k] # "ended"
        PROVE  j = k
    <3>1. j \in Jobs /\ k \in Jobs /\ at[j] \in Building /\ at[k] \in Building
      BY <2>2 DEF Active, Building, QInv, TypeOK
    <3>2. QED
      BY <2>2, <3>1 DEF QInv, TaskInv, BuildingRuns, TableInv, OnePerMaterial, Pending
  <2>3. QED
    BY <2>1, <2>2 DEF SlotsRespected
<1>2. QED
  BY <1>1, QInvHolds, PTL

\* Once close() has begun the pump starts no job, and once it has visited every task nothing
\* goes to a model any more.
THEOREM NothingIsStarted == Spec => NothingStartsWhileClosing
<1> DEFINE Step == \A j \in Jobs :
       /\ Closing => ~(at[j] = "none" /\ at'[j] = "new")
       /\ (closer.at = "gather" /\ at[j] # "model") => at'[j] # "model"
<1>1. QInv /\ StartInv /\ [Next]_vars => Step \/ UNCHANGED vars
  <2> SUFFICES ASSUME QInv, StartInv, Next PROVE Step
    OBVIOUS
  <2>1. ASSUME NEW j \in Jobs, NEW k \in Jobs, Running(k)
        PROVE  /\ at'[j] = "new" => at[j] = "new"
               /\ closer.at = "gather" /\ at'[j] = "model" => at[j] = "model"
    <3>1. CASE WorkLocally(k)
      <4>1. closer.at = "gather" => FALSE
        BY <3>1 DEF WorkLocally, StartInv, CloseFits, Closing, Early
      <4>2. at'[j] = "new" => at[j] = "new"
        BY <3>1 DEF WorkLocally, Moves, EndAs, QInv, TypeOK
      <4>3. QED
        BY <4>1, <4>2
    <3>2. CASE \E to \in Places \ {"new", "model"} : at' = [at EXCEPT ![k] = to]
      BY <3>2 DEF QInv, TypeOK
    <3>3. CASE Begin(k) \/ Prepare(k) \/ Answer(k) \/ Matched(k) \/ Save(k)
      BY <3>2, <3>3 DEF Begin, Prepare, Answer, Matched, Save, Moves, EndAs, Places
    <3>4. CASE WritePages(k) \/ Built(k) \/ Unwind(k) \/ End(k) \/ Leave(k) \/ Tell(k)
      BY <3>2, <3>4 DEF WritePages, Built, Unwind, End, Leave, Tell, Moves, EndAs, Places
    <3>5. QED
      BY <2>1, <3>1, <3>3, <3>4 DEF Running
  <2>2. ASSUME NEW k \in Jobs, Request(k) \/ Asking(k) \/ StopRead(k) \/ Stopping(k)
        PROVE  at' = at
    BY <2>2 DEF Request, Asking, CheckPending, Create, Created, StopRead, Stopping, StopLook, StopSwap,
                StopInterrupted, task
  <2>3. CASE Pumping
    <3>1. CASE \E k \in Jobs : PumpStart(k)
      BY <3>1 DEF PumpStart, Closing, QInv, TypeOK
    <3>2. CASE PumpFirst \/ PumpSlots \/ PumpClaim \/ PumpDone
      BY <3>2 DEF PumpFirst, PumpSlots, PumpClaim, PumpDone, task
    <3>3. QED
      BY <2>3, <3>1, <3>2 DEF Pumping
  <2>4. CASE Close \/ CloseInterrupted \/ Restart
    BY <2>4 DEF Close, CloseInterrupted, Restart, task
  <2>5. QED
    BY <2>1, <2>2, <2>3, <2>4 DEF Next
<1>2. QED
  BY <1>1, QInvHolds, StartInvHolds, PTL DEF Spec, NothingStartsWhileClosing
================================================================================
