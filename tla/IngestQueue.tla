------------------------------ MODULE IngestQueue ------------------------------
(***************************************************************************)
(* The queue of wiki jobs (knowledge/ingest/service.py over the jobs table *)
(* of ingest/jobs.py): requests, the pump that starts queued jobs, one     *)
(* task per started job, the user's Stop, closing and the next start.      *)
(*                                                                         *)
(* The event loop runs one task at a time between two awaits, so one       *)
(* action is the stretch of one task from an await to its next await.  A   *)
(* disk call is two steps: the worker thread commits, and the task         *)
(* resumes later; everyone else may act in between.                        *)
(***************************************************************************)
EXTENDS Naturals, Sequences, FiniteSets

CONSTANTS
  Jobs,         \* each is a request for a material and the job it creates
  Materials,
  About,        \* the material a request names
  Slots,        \* ENGINE_SLOTS of the wiki engine
  MaxRestarts,  \* bound: starts of the application after the first
  Stoppable,    \* bound: the jobs the user stops
  MayClose,     \* bound: whether the application closes in order
  None

ASSUME AboutMaterials == About \in [Jobs -> Materials]
ASSUME JobsFinite == IsFiniteSet(Jobs)
ASSUME NoneIsNoJob == None \notin Jobs
ASSUME StoppableAreJobs == Stoppable \subseteq Jobs
ASSUME MaxRestartsNat == MaxRestarts \in Nat
ASSUME SlotsPositive == Slots \in Nat \ {0}

VARIABLES
  db,        \* state column of the jobs table ("none": no row)
  order,     \* the rows by age
  asking,    \* request_ingest: where each request is
  at,        \* the task of a job: where it is in _execute ("none": no task)
  ends,      \* the state its finally block writes ("none": not there yet)
  writing,   \* IngestRun.writing
  saved,     \* history: jobs whose latest run wrote its pages
  telling,   \* _telling
  pump,      \* _pump_task, what it read before its await, and _pump_again
  stopper,   \* cancel(): where a Stop of each job is
  stop,      \* _Active.cancel_requested (and IngestRun.cancel_requested)
  kill,      \* jobs whose task has a CancelledError on its way
  closer,    \* close(): where it is and the tasks it still has to visit
  restarts

store == <<db, order>>
task == <<at, ends, writing, saved, telling>>
vars == <<store, asking, task, pump, stopper, stop, kill, closer, restarts>>

Pending == {"queued", "running"}
Finished == {"done", "failed", "paused", "cancelled"}
Reserved == {"reserved", "clear", "created"}
Places == {"none", "new", "scope", "local", "model", "match", "saving", "write",
           "wrote", "ending", "ended", "telling"}

Closing == closer.at # "open"

\* The entries of _active that have a task.  A job leaves it before its
\* listeners are told.
Active == {j \in Jobs : at[j] \notin {"none", "telling"}}

HasRun(j) == j \in Active /\ at[j] \notin {"new", "scope"}

\* run.current_run is not None
AtEngine(j) == at[j] = "model"

PumpIdle == [at |-> "idle", room |-> FALSE, job |-> None, again |-> FALSE]
CloserOpen == [at |-> "open", todo |-> {}, job |-> None]

\* Mutant: one job too many.
LookPastSlots(p, tasks) ==
  IF Closing
  THEN PumpIdle
  ELSE [p EXCEPT !.at = "slots", !.room = Cardinality(tasks) <= Slots, !.job = None]

\* The top of _start_queued's loop: count what runs, then await slots().
Look(p, tasks) ==
  IF Closing
  THEN PumpIdle
  ELSE [p EXCEPT !.at = "slots", !.room = Cardinality(tasks) < Slots, !.job = None]

\* _start_queued returned: once more if a kick came meanwhile, or the pump ends.
Return(p, tasks) ==
  IF p.again THEN Look([p EXCEPT !.again = FALSE], tasks) ELSE PumpIdle

\* Mutant: a kick while the pump runs is dropped.
KickOnce ==
  pump' = IF Closing \/ pump.at # "idle" THEN pump ELSE [pump EXCEPT !.at = "fresh"]

\* _kick, inside the steps that call it.
Kick ==
  pump' = CASE Closing -> pump
            [] ~Closing /\ pump.at = "idle" -> [pump EXCEPT !.at = "fresh"]
            [] OTHER -> [pump EXCEPT !.again = TRUE]

Init ==
  /\ db = [j \in Jobs |-> "none"]
  /\ order = <<>>
  /\ asking = [j \in Jobs |-> "idle"]
  /\ at = [j \in Jobs |-> "none"]
  /\ ends = [j \in Jobs |-> "none"]
  /\ writing = {}
  /\ saved = {}
  /\ telling = {}
  /\ pump = [PumpIdle EXCEPT !.at = "fresh"]
  /\ stopper = [j \in Jobs |-> "idle"]
  /\ stop = {}
  /\ kill = {}
  /\ closer = CloserOpen
  /\ restarts = 0

(***************************************************************************)
(* request_ingest                                                          *)
(***************************************************************************)

\* In one stretch: refuse a material of _active, else reserve it.
Request(j) ==
  /\ asking[j] = "idle"
  /\ ~Closing
  /\ asking' = [asking EXCEPT ![j] =
       IF \E k \in Jobs : /\ About[k] = About[j]
                          /\ (asking[k] \in Reserved \/ k \in Active)
       THEN "answered" ELSE "reserved"]
  /\ UNCHANGED <<store, task, pump, stopper, stop, kill, closer, restarts>>

\* The reads of the material and of pending_for; a refusal frees the material.
CheckPending(j) ==
  /\ asking[j] = "reserved"
  /\ asking' = [asking EXCEPT ![j] =
       IF \E k \in Jobs : About[k] = About[j] /\ db[k] \in Pending
       THEN "answered" ELSE "clear"]
  /\ UNCHANGED <<store, task, pump, stopper, stop, kill, closer, restarts>>

\* The thread commits jobs.create(state="queued").
Create(j) ==
  /\ asking[j] = "clear"
  /\ asking' = [asking EXCEPT ![j] = "created"]
  /\ db' = [db EXCEPT ![j] = "queued"]
  /\ order' = Append(order, j)
  /\ UNCHANGED <<task, pump, stopper, stop, kill, closer, restarts>>

\* finally: the reservation goes; the queue is kicked.
Created(j) ==
  /\ asking[j] = "created"
  /\ asking' = [asking EXCEPT ![j] = "answered"]
  /\ Kick
  /\ UNCHANGED <<store, task, stopper, stop, kill, closer, restarts>>

(***************************************************************************)
(* _pump and _start_queued.  close() cancels the pump in the step that     *)
(* sets _closing, so once closing the pump goes no further than the commit *)
(* of a claim its thread has begun (the branch that requeues a claimed job *)
(* is never reached).                                                      *)
(***************************************************************************)
PumpFirst ==
  /\ pump.at = "fresh"
  /\ pump' = Look([pump EXCEPT !.again = FALSE], Active)
  /\ UNCHANGED <<store, asking, task, stopper, stop, kill, closer, restarts>>

PumpSlots ==
  /\ pump.at = "slots"
  /\ pump' = CASE Closing -> PumpIdle
               [] ~Closing /\ pump.room -> [pump EXCEPT !.at = "claiming"]
               [] OTHER -> Return(pump, Active)
  /\ UNCHANGED <<store, asking, task, stopper, stop, kill, closer, restarts>>

\* claim_next: the oldest queued row becomes running in one write.
OldestQueued(j) ==
  \E i \in DOMAIN order :
    /\ order[i] = j
    /\ db[j] = "queued"
    /\ \A h \in 1 .. i - 1 : db[order[h]] # "queued"

PumpClaim ==
  /\ pump.at = "claiming"
  /\ \/ \E j \in Jobs :
          /\ OldestQueued(j)
          /\ db' = [db EXCEPT ![j] = "running"]
          /\ pump' = [pump EXCEPT !.at = "claimed", !.job = j]
     \/ /\ \A j \in Jobs : ~OldestQueued(j)
        /\ pump' = [pump EXCEPT !.at = "claimed"]
        /\ UNCHANGED db
  /\ UNCHANGED <<order, asking, task, stopper, stop, kill, closer, restarts>>

\* Mutant: a job claimed while SKAZ closes is started.
PumpStartAlways(j) ==
  /\ pump.at = "claimed"
  /\ pump.job = j
  /\ at' = [at EXCEPT ![j] = "new"]
  /\ ends' = [ends EXCEPT ![j] = "none"]
  /\ writing' = writing \ {j}
  /\ saved' = saved \ {j}
  /\ stop' = stop \ {j}
  /\ kill' = kill \ {j}
  /\ pump' = Look(pump, Active \cup {j})
  /\ UNCHANGED <<store, asking, telling, stopper, closer, restarts>>

\* The pump resumes: register the claimed job with its task and look again.
PumpStart(j) ==
  /\ pump.at = "claimed"
  /\ pump.job = j
  /\ ~Closing
  /\ at' = [at EXCEPT ![j] = "new"]
  /\ ends' = [ends EXCEPT ![j] = "none"]
  /\ writing' = writing \ {j}
  /\ saved' = saved \ {j}
  /\ stop' = stop \ {j}
  /\ kill' = kill \ {j}
  /\ pump' = Look(pump, Active \cup {j})
  /\ UNCHANGED <<store, asking, telling, stopper, closer, restarts>>

PumpDone ==
  /\ pump.at = "claimed"
  /\ (pump.job = None \/ Closing)
  /\ pump' = IF Closing THEN PumpIdle ELSE Return(pump, Active)
  /\ UNCHANGED <<store, asking, task, stopper, stop, kill, closer, restarts>>

(***************************************************************************)
(* _run and _execute: one task per started job.  A CancelledError (kill)   *)
(* is raised at the await the task is in; a disk call commits first.       *)
(***************************************************************************)
Moves(j, from, to) ==
  /\ at[j] = from
  /\ at' = [at EXCEPT ![j] = to]

EndAs(j, s) ==
  /\ at' = [at EXCEPT ![j] = "ending"]
  /\ ends' = [ends EXCEPT ![j] = s]
  /\ kill' = kill \ {j}

\* _stopped: the user's Stop, or back in the queue while SKAZ closes.
Stopped(j) == IF j \in stop \/ ~Closing THEN "cancelled" ELSE "queued"

\* A task cancelled before its first step never runs: its entry stays as it is.
Begin(j) ==
  /\ j \notin kill
  /\ Moves(j, "new", "scope")
  /\ UNCHANGED <<store, asking, ends, writing, saved, telling, pump, stopper, stop, kill, closer, restarts>>

\* stored_scope was read: a Stop ends the job, a missing engine or detector
\* fails it, else it has a run and waits for its engine (holding) and its text.
Prepare(j) ==
  /\ at[j] = "scope"
  /\ j \notin kill
  /\ \/ j \in stop /\ EndAs(j, "cancelled")
     \/ j \notin stop /\ EndAs(j, "failed")
     \/ j \notin stop /\ Moves(j, "scope", "local") /\ UNCHANGED <<ends, kill>>
  /\ UNCHANGED <<store, asking, writing, saved, telling, pump, stopper, stop, closer, restarts>>

\* Work between model calls ends in a call, or past the last one (the answers
\* are checkpoints), or in a failure; _call refuses a stopped run.
WorkLocally(j) ==
  /\ at[j] = "local"
  /\ j \notin kill
  /\ \/ j \in stop /\ EndAs(j, "cancelled")
     \/ j \notin stop /\ Moves(j, "local", "model") /\ UNCHANGED <<ends, kill>>
     \/ j \notin stop /\ Moves(j, "local", "match") /\ UNCHANGED <<ends, kill>>
     \/ j \notin stop /\ EndAs(j, "failed")
  /\ UNCHANGED <<store, asking, writing, saved, telling, pump, stopper, stop, closer, restarts>>

Interrupted(j) ==
  \/ stopper[j] = "interrupting"
  \/ closer.at = "interrupt" /\ closer.job = j

\* The (last) model call ends: answered even though it is being interrupted,
\* "cancelled" because of that, failed, or the
\* budget is reached.
Answer(j) ==
  /\ at[j] = "model"
  /\ j \notin kill
  /\ \/ Moves(j, "model", "match") /\ UNCHANGED <<ends, kill>>
     \/ Interrupted(j) /\ EndAs(j, Stopped(j))
     \/ \E s \in {"failed", "paused"} : j \notin stop /\ EndAs(j, s)
  /\ UNCHANGED <<store, asking, writing, saved, telling, pump, stopper, stop, closer, restarts>>

\* Mutant: saving begins without a last look at cancel_requested.
MatchedUnchecked(j) ==
  /\ j \notin kill
  /\ Moves(j, "match", "saving")
  /\ UNCHANGED <<store, asking, ends, writing, saved, telling, pump, stopper, stop, kill, closer, restarts>>

\* Concepts matched: the last look at cancel_requested, then set_step("saving").
Matched(j) ==
  /\ at[j] = "match"
  /\ j \notin kill
  /\ IF j \in stop
     THEN EndAs(j, "cancelled")
     ELSE Moves(j, "match", "saving") /\ UNCHANGED <<ends, kill>>
  /\ UNCHANGED <<store, asking, writing, saved, telling, pump, stopper, stop, closer, restarts>>

Save(j) ==
  /\ j \notin kill
  /\ Moves(j, "saving", "write")
  /\ writing' = writing \cup {j}
  /\ UNCHANGED <<store, asking, ends, saved, telling, pump, stopper, stop, kill, closer, restarts>>

\* The writer's thread saves the pages, or it fails and saves nothing.
WritePages(j) ==
  /\ at[j] = "write"
  /\ \/ /\ Moves(j, "write", "wrote")
        /\ saved' = saved \cup {j}
        /\ UNCHANGED <<ends, kill>>
     \/ EndAs(j, "failed") /\ UNCHANGED saved
  /\ UNCHANGED <<store, asking, writing, telling, pump, stopper, stop, closer, restarts>>

\* Counters, the journal and the hooks are done: state = "done".
Built(j) ==
  /\ at[j] = "wrote"
  /\ j \notin kill
  /\ EndAs(j, "done")
  /\ telling' = telling \cup {About[j]}
  /\ UNCHANGED <<store, asking, writing, saved, pump, stopper, stop, closer, restarts>>

\* except asyncio.CancelledError
Unwind(j) ==
  /\ j \in kill
  /\ at[j] \in {"scope", "local", "model", "match", "saving", "wrote"}
  /\ EndAs(j, Stopped(j))
  /\ UNCHANGED <<store, asking, writing, saved, telling, pump, stopper, stop, closer, restarts>>

\* finally: the thread commits requeue (running rows only) or finish.
End(j) ==
  /\ Moves(j, "ending", "ended")
  /\ db' = [db EXCEPT ![j] =
       IF db[j] = "running" \/ (db[j] = "queued" /\ ends[j] # "queued") THEN ends[j] ELSE db[j]]
  /\ UNCHANGED <<order, asking, ends, writing, saved, telling, pump, stopper, stop, kill, closer, restarts>>

\* _active.pop; a done job reads its record for the listeners, any other task
\* is over, and its done callback kicks the queue.
Leave(j) ==
  /\ at[j] = "ended"
  /\ IF ends[j] = "done" /\ j \notin kill
     THEN at' = [at EXCEPT ![j] = "telling"] /\ UNCHANGED pump
     ELSE at' = [at EXCEPT ![j] = "none"] /\ Kick
  /\ kill' = kill \ {j}
  /\ UNCHANGED <<store, asking, ends, writing, saved, telling, stopper, stop, closer, restarts>>

\* _tell_finished, unless cancelled; in any case _telling.discard.
Tell(j) ==
  /\ Moves(j, "telling", "none")
  /\ telling' = telling \ {About[j]}
  /\ kill' = kill \ {j}
  /\ Kick
  /\ UNCHANGED <<store, asking, ends, writing, saved, stopper, stop, closer, restarts>>

(***************************************************************************)
(* cancel                                                                  *)
(***************************************************************************)

\* The record is read in a thread.
StopRead(j) ==
  /\ j \in Stoppable
  /\ stopper[j] = "idle"
  /\ db[j] # "none"
  /\ stopper' = [stopper EXCEPT ![j] = IF db[j] = "queued" THEN "sawQueued" ELSE "sawStarted"]
  /\ UNCHANGED <<store, asking, task, pump, stop, kill, closer, restarts>>

\* Mutant: the row is cancelled whatever its state is by now.
StopSwapBlindly(j) ==
  /\ stopper[j] = "swap"
  /\ db' = [db EXCEPT ![j] = "cancelled"]
  /\ stopper' = [stopper EXCEPT ![j] = "answered"]
  /\ UNCHANGED <<order, asking, task, pump, stop, kill, closer, restarts>>

\* Compare-and-set of a queued job, in a thread.
StopSwap(j) ==
  /\ stopper[j] = "swap"
  /\ IF db[j] = "queued"
     THEN db' = [db EXCEPT ![j] = "cancelled"] /\ stopper' = [stopper EXCEPT ![j] = "answered"]
     ELSE UNCHANGED db /\ stopper' = [stopper EXCEPT ![j] = "missed"]
  /\ UNCHANGED <<order, asking, task, pump, stop, kill, closer, restarts>>

\* Mutant: a task that has not begun is cancelled like any other.
StopActiveUnbegun(j) ==
  \/ /\ j \notin Active \/ j \in writing
     /\ stopper' = [stopper EXCEPT ![j] = "refused"]
     /\ UNCHANGED <<stop, kill>>
  \/ /\ j \in Active \ writing
     /\ stop' = stop \cup {j}
     /\ stopper' = [stopper EXCEPT ![j] = IF AtEngine(j) THEN "interrupting" ELSE "answered"]
     /\ kill' = IF AtEngine(j) THEN kill ELSE kill \cup {j}

\* The rest of cancel on the event loop, with the entry of _active as it is now.
StopActive(j) ==
  \/ /\ j \notin Active
     /\ stopper' = [stopper EXCEPT ![j] = "finished"]
     /\ UNCHANGED <<stop, kill>>
  \/ /\ j \in Active
     /\ j \in writing
     /\ stopper' = [stopper EXCEPT ![j] = "refused"]
     /\ UNCHANGED <<stop, kill>>
  \/ /\ j \in Active
     /\ j \notin writing
     /\ stop' = stop \cup {j}
     /\ stopper' = [stopper EXCEPT ![j] = IF AtEngine(j) THEN "interrupting" ELSE "answered"]
     /\ kill' = IF HasRun(j) /\ ~AtEngine(j) THEN kill \cup {j} ELSE kill

\* The record decides: a queued job with no entry is swapped, else stopped.  After
\* a lost swap the pump is awaited, which registers the job it claimed.
StopLook(j) ==
  /\ \/ /\ stopper[j] = "sawQueued"
        /\ j \notin Active
        /\ stopper' = [stopper EXCEPT ![j] = "swap"]
        /\ UNCHANGED <<stop, kill>>
     \/ /\ \/ stopper[j] = "sawStarted"
           \/ (stopper[j] = "sawQueued" /\ j \in Active)
           \/ (stopper[j] = "missed" /\ pump.job # j)
        /\ StopActive(j)
  /\ UNCHANGED <<store, asking, task, pump, closer, restarts>>

\* The engine answered the interrupt: now the task is cancelled as well.
StopInterrupted(j) ==
  /\ stopper[j] = "interrupting"
  /\ stopper' = [stopper EXCEPT ![j] = "answered"]
  /\ kill' = IF at[j] = "none" THEN kill ELSE kill \cup {j}
  /\ UNCHANGED <<store, asking, task, pump, stop, closer, restarts>>

(***************************************************************************)
(* close and the next start                                                *)
(***************************************************************************)

\* Visit tasks in some order until one has to be interrupted at its engine:
\* a task that saves is left alone, the others are cancelled.
CloseFrom(todo, cancelled) ==
  \E quick \in SUBSET todo :
    /\ \A j \in quick : ~AtEngine(j)
    /\ kill' = cancelled \cup {j \in quick : at[j] # "none" /\ j \notin writing}
    /\ \/ /\ quick = todo
          /\ closer' = [at |-> "gather", todo |-> {}, job |-> None]
       \/ \E j \in todo \ quick :
            /\ AtEngine(j)
            /\ closer' = [at |-> "interrupt", todo |-> todo \ (quick \cup {j}), job |-> j]

Close ==
  /\ MayClose
  /\ ~Closing
  /\ CloseFrom(Active, kill)
  /\ UNCHANGED <<store, asking, task, pump, stopper, stop, restarts>>

CloseInterrupted ==
  /\ closer.at = "interrupt"
  /\ CloseFrom(closer.todo, IF at[closer.job] = "none" THEN kill ELSE kill \cup {closer.job})
  /\ UNCHANGED <<store, asking, task, pump, stopper, stop, restarts>>

\* The process ends at any moment, closed or not, and starts again:
\* interrupt_running puts the running jobs back, resume() kicks the queue.
Restart ==
  /\ restarts < MaxRestarts
  /\ restarts' = restarts + 1
  /\ db' = [j \in Jobs |-> IF db[j] = "running" THEN "queued" ELSE db[j]]
  /\ asking' = [j \in Jobs |-> IF asking[j] = "idle" THEN "idle" ELSE "answered"]
  /\ at' = [j \in Jobs |-> "none"]
  /\ ends' = [j \in Jobs |-> "none"]
  /\ writing' = {}
  /\ telling' = {}
  /\ pump' = [PumpIdle EXCEPT !.at = "fresh"]
  /\ stopper' = [j \in Jobs |-> "idle"]
  /\ stop' = {}
  /\ kill' = {}
  /\ closer' = CloserOpen
  /\ UNCHANGED <<order, saved>>

(***************************************************************************)
(* The specification                                                       *)
(***************************************************************************)
Asking(j) == CheckPending(j) \/ Create(j) \/ Created(j)

Pumping == PumpFirst \/ PumpSlots \/ PumpClaim \/ (\E j \in Jobs : PumpStart(j)) \/ PumpDone

Running(j) ==
  \/ Begin(j) \/ Prepare(j) \/ WorkLocally(j) \/ Answer(j) \/ Matched(j) \/ Save(j)
  \/ WritePages(j) \/ Built(j) \/ Unwind(j) \/ End(j) \/ Leave(j) \/ Tell(j)

Stopping(j) == StopLook(j) \/ StopSwap(j) \/ StopInterrupted(j)

Next ==
  \/ \E j \in Jobs : Request(j) \/ Asking(j) \/ Running(j) \/ StopRead(j) \/ Stopping(j)
  \/ Pumping
  \/ Close \/ CloseInterrupted \/ Restart

Spec == Init /\ [][Next]_vars

\* The event loop runs every task that can go on, threads finish, and a model call
\* or an interrupt is answered (agents/engine.py's turns time out).
Fairness ==
  /\ \A j \in Jobs : WF_vars(Asking(j)) /\ WF_vars(Running(j)) /\ WF_vars(Stopping(j))
  /\ WF_vars(Pumping)
  /\ WF_vars(CloseInterrupted)

FairSpec == Spec /\ Fairness

(***************************************************************************)
(* Properties                                                              *)
(***************************************************************************)
TypeOK ==
  /\ db \in [Jobs -> {"none"} \cup Pending \cup Finished]
  /\ order \in Seq(Jobs)
  /\ asking \in [Jobs -> {"idle", "answered"} \cup Reserved]
  /\ at \in [Jobs -> Places]
  /\ ends \in [Jobs -> {"none", "queued"} \cup Finished]
  /\ writing \subseteq Jobs
  /\ saved \subseteq Jobs
  /\ telling \subseteq Materials
  /\ pump \in [at : {"idle", "fresh", "slots", "claiming", "claimed"}, room : BOOLEAN,
               job : Jobs \cup {None}, again : BOOLEAN]
  /\ stopper \in [Jobs -> {"idle", "sawQueued", "sawStarted", "swap", "missed",
                           "interrupting", "answered", "refused", "finished"}]
  /\ stop \subseteq Jobs
  /\ kill \subseteq {j \in Jobs : at[j] # "none"}
  /\ closer \in [at : {"open", "interrupt", "gather"}, todo : SUBSET Jobs, job : Jobs \cup {None}]
  /\ closer.at = "interrupt" => closer.job # None
  /\ restarts \in 0 .. MaxRestarts

\* "One material has at most one queued or running job", however requests,
\* claims, stops and restarts interleave.
OnePerMaterial ==
  \A j, k \in Jobs :
    (About[j] = About[k] /\ db[j] \in Pending /\ db[k] \in Pending) => j = k

\* The pump counts running jobs before an await and starts one after two more:
\* still no more tasks than slots, and one task builds a material at a time (the
\* next one may start once the row of the first has ended).
SlotsRespected ==
  /\ Cardinality(Active) <= Slots
  /\ \A j, k \in Active :
       (About[j] = About[k] /\ at[j] # "ended" /\ at[k] # "ended") => j = k

\* A running row has somebody who will end it: its task, which a Stop never
\* cancels before it ran, or the pump that claimed it.  (Closing loses claims: the next
\* start puts them back.)
RunningIsOwned ==
  ~Closing => \A j \in Jobs :
    db[j] = "running" =>
      \/ at[j] \notin {"none", "ended", "telling"} /\ ~(at[j] = "new" /\ j \in kill)
      \/ pump.job = j

\* "Stopped. Nothing from this run was saved."
StoppedSavedNothing ==
  \A j \in Jobs : ends[j] = "cancelled" => j \notin saved

\* While closing, a job that has begun to save its pages finishes ("a job
\* already saving pages finishes").
SavingFinishes ==
  [][\A j \in Jobs :
       (j \in writing /\ db[j] = "running" /\ Closing') => db'[j] # "queued"]_vars

\* Nothing new reaches an agent once closing has begun and the close has visited
\* every task, and no job is started.
NothingStartsWhileClosing ==
  [][\A j \in Jobs :
       /\ Closing => ~(at[j] = "none" /\ at'[j] = "new")
       /\ (closer.at = "gather" /\ at[j] # "model") => at'[j] # "model"]_vars

\* The jobs table behaves as promised.
Lifecycle == INSTANCE JobLifecycle WITH
  state <- db, Fitting <- {S \in SUBSET Jobs : Cardinality(S) <= Slots}
LifecycleKept == Lifecycle!Spec

\* A queued job is started: no kick is lost.
QueuedIsStarted ==
  \A j \in Jobs : (db[j] = "queued" /\ ~Closing) ~> (db[j] # "queued" \/ Closing)

\* A Stop that was accepted ends the job.
StopEnds ==
  \A j \in Jobs : (j \in stop /\ ~Closing) ~> (db[j] \in Finished \/ Closing \/ j \notin stop)
===============================================================================
