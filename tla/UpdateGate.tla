------------------------------ MODULE UpdateGate ------------------------------
(***************************************************************************)
(* Work of an agent waits while the agent is updated                       *)
(* (knowledge/agents/update_gate.py), and the updates that make it wait    *)
(* (AgentUpdates of agents/updates.py, run through install/tasks.py).      *)
(*                                                                         *)
(* A piece of work is a run of an engine (guard) or a whole job that holds *)
(* its agent (holding: a wiki build, a Codex search).  One action is the   *)
(* stretch of one asyncio task between two awaits.  Whoever waits in _wait *)
(* sleeps until the next signal and then looks again.                      *)
(***************************************************************************)
EXTENDS Naturals, FiniteSets

CONSTANTS
  Engines, Works,
  EngineOf,     \* the agent of a piece of work
  WholeJobs,    \* the works that hold their agent through holding()
  Outer,        \* the works a piece of work is started inside of
  Remote,       \* the works started by an agent's call over HTTP (MCP tools):
                \* their task does not inherit the context of the outer work
  MaxUpdates    \* bound: updates asked for, per agent

ASSUME EngineOfWorks == EngineOf \in [Works -> Engines]
ASSUME OuterWorks == Outer \in [Works -> SUBSET Works]
ASSUME WorksFinite == IsFiniteSet(Works)
ASSUME MaxUpdatesNat == MaxUpdates \in Nat

VARIABLES
  at,        \* where a piece of work is
  stop,      \* runs whose stop event is set
  reached,   \* history: runs the engine's own run was called for
  active,    \* UpdateGate._active
  blocked,   \* UpdateGate._blocked
  woken,     \* the works and agents whose _wait has been signalled
  update,    \* AgentUpdates._runs: the phase of an agent's update ("none": no entry)
  job,       \* agents whose update has a live task
  kill,      \* agents whose update task has a CancelledError on its way
  hand,      \* agents the user installs or repairs by hand
  asked

work == <<at, stop, reached>>
gate == <<active, blocked, woken>>
updates == <<update, job, kill, hand, asked>>
vars == <<work, gate, updates>>

Places == {"idle", "called", "waiting", "in", "free", "over", "stopped"}
Phases == {"none", "begun", "waiting", "installing", "after", "settling"}
Exclusive == {"waiting", "installing", "after"}

Inner(o) == {w \in Works : o \in Outer[w]}

Init ==
  /\ at = [w \in Works |-> "idle"]
  /\ stop = {}
  /\ reached = {}
  /\ active = [e \in Engines |-> 0]
  /\ blocked = {}
  /\ woken = {}
  /\ update = [e \in Engines |-> "none"]
  /\ job = {}
  /\ kill = {}
  /\ hand = {}
  /\ asked = [e \in Engines |-> 0]

(***************************************************************************)
(* The gate                                                                *)
(***************************************************************************)

\* Everyone who waits in _wait.
Sleepers == {w \in Works : at[w] = "waiting"} \cup {e \in Engines : update[e] = "waiting"}

\* Mutant: a change is not signalled.
SignalNobody == UNCHANGED woken

\* _signal
Signal == woken' = woken \cup Sleepers

\* _held: the context of w carries a live hold of its agent.
Held(w) ==
  /\ w \notin Remote
  /\ \E o \in Outer[w] : at[o] = "in" /\ EngineOf[o] = EngineOf[w]

\* An outer work is under way, so that w can be started inside of it.
CanStart(w) == \A o \in Outer[w] : at[o] \in {"in", "free"}

Count(e, n) == active' = [active EXCEPT ![e] = n]

\* enter returns True.  For a run the engine's own run is called in the same step.
GoIn(w) ==
  /\ at' = [at EXCEPT ![w] = "in"]
  /\ Count(EngineOf[w], active[EngineOf[w]] + 1)
  /\ reached' = IF w \in WholeJobs THEN reached ELSE reached \cup {w}

\* gated: the stop event of a run exists before anything reads its stream.
Call(w) ==
  /\ w \notin WholeJobs
  /\ at[w] = "idle"
  /\ CanStart(w)
  /\ at' = [at EXCEPT ![w] = "called"]
  /\ UNCHANGED <<stop, reached, gate, updates>>

\* The first step of counted or of holding().
Arrive(w) ==
  /\ at[w] = IF w \in WholeJobs THEN "idle" ELSE "called"
  /\ CanStart(w) \/ at[w] = "called"
  /\ \/ /\ w \in stop
        /\ at' = [at EXCEPT ![w] = "stopped"]
        /\ UNCHANGED <<active, reached>>
     \/ /\ w \in WholeJobs
        /\ Held(w)
        /\ at' = [at EXCEPT ![w] = "free"]
        /\ UNCHANGED <<active, reached>>
     \/ /\ w \notin stop
        /\ ~Held(w)
        /\ EngineOf[w] \in blocked
        /\ at' = [at EXCEPT ![w] = "waiting"]
        /\ UNCHANGED <<active, reached>>
     \/ /\ w \notin stop
        /\ ~(w \in WholeJobs /\ Held(w))
        /\ Held(w) \/ EngineOf[w] \notin blocked
        /\ GoIn(w)
  /\ UNCHANGED <<stop, blocked, woken, updates>>

\* Mutant: the stop event is not looked at after the wait.
WakeUnstopped(w) ==
  /\ at[w] = "waiting"
  /\ w \in woken
  /\ woken' = woken \ {w}
  /\ \/ /\ EngineOf[w] \in blocked
        /\ UNCHANGED <<at, active, reached>>
     \/ /\ EngineOf[w] \notin blocked
        /\ GoIn(w)
  /\ UNCHANGED <<stop, blocked, updates>>

\* _wait returned: stopped, or still blocked, or in.
Wake(w) ==
  /\ at[w] = "waiting"
  /\ w \in woken
  /\ woken' = woken \ {w}
  /\ \/ /\ w \in stop
        /\ at' = [at EXCEPT ![w] = "stopped"]
        /\ UNCHANGED <<active, reached>>
     \/ /\ w \notin stop
        /\ EngineOf[w] \in blocked
        /\ UNCHANGED <<at, active, reached>>
     \/ /\ w \notin stop
        /\ EngineOf[w] \notin blocked
        /\ GoIn(w)
  /\ UNCHANGED <<stop, blocked, updates>>

\* interrupted, of a run that is not in yet: its stop event is set.
Interrupt(w) ==
  /\ w \notin WholeJobs
  /\ at[w] \in {"called", "waiting"}
  /\ stop' = stop \cup {w}
  /\ woken' = IF at[w] = "waiting" THEN woken \cup {w} ELSE woken
  /\ UNCHANGED <<at, reached, active, blocked, updates>>

\* A run's terminal event (or its finally), or the end of a held job: leave.  An
\* engine ends the tools of a run before its terminal event, whether the run ends by itself,
\* is interrupted or reaches its deadline.
End(w) ==
  /\ at[w] \in {"in", "free"}
  /\ \A i \in Inner(w) \ Remote : at[i] \in {"idle", "over", "stopped"}
  /\ at' = [at EXCEPT ![w] = "over"]
  /\ IF at[w] = "in"
     THEN /\ Count(EngineOf[w], IF active[EngineOf[w]] = 0 THEN 0 ELSE active[EngineOf[w]] - 1)
          /\ Signal
     ELSE UNCHANGED <<active, woken>>
  /\ UNCHANGED <<stop, reached, blocked, updates>>

\* The task of a waiting work is cancelled: the outer run ends its tools, or a time limit.
Abandon(w) ==
  /\ at[w] \in {"called", "waiting"}
  /\ at' = [at EXCEPT ![w] = "over"]
  /\ woken' = woken \ {w}
  /\ UNCHANGED <<stop, reached, active, blocked, updates>>

(***************************************************************************)
(* Updates                                                                 *)
(***************************************************************************)

\* update, rollback: no update of the agent and no installation runs; _begin.
Ask(e) ==
  /\ update[e] = "none"
  /\ e \notin hand
  /\ asked[e] < MaxUpdates
  /\ asked' = [asked EXCEPT ![e] = @ + 1]
  /\ update' = [update EXCEPT ![e] = "begun"]
  /\ job' = job \cup {e}
  /\ UNCHANGED <<work, gate, kill, hand>>

\* The update is over: _runs.pop.
Gone(e) ==
  /\ update' = [update EXCEPT ![e] = "none"]
  /\ job' = job \ {e}

\* Work goes on in the agent: wait.  Else the agent's command starts; when somebody installs
\* the agent by hand (InstallBusy) the update is dropped.
Alone(e) ==
  \/ /\ active[e] > 0
     /\ update' = [update EXCEPT ![e] = "waiting"]
     /\ blocked' = blocked \cup {e}
     /\ UNCHANGED job
  \/ /\ active[e] = 0
     /\ e \notin hand
     /\ update' = [update EXCEPT ![e] = "installing"]
     /\ blocked' = blocked \cup {e}
     /\ UNCHANGED job
  \/ /\ active[e] = 0
     /\ e \in hand
     /\ Gone(e)
     /\ blocked' = blocked \ {e}

\* The first step of _drive: exclusive blocks the agent and signals.
Drive(e) ==
  /\ update[e] = "begun"
  /\ e \in job \ kill
  /\ Alone(e)
  /\ Signal
  /\ UNCHANGED <<work, active, kill, hand, asked>>

\* _wait of exclusive returned.
DriveOn(e) ==
  /\ update[e] = "waiting"
  /\ e \in woken
  /\ e \notin kill
  /\ Alone(e)
  /\ woken' = IF e \in blocked' THEN woken \ {e} ELSE (woken \cup Sleepers) \ {e}
  /\ UNCHANGED <<work, active, kill, hand, asked>>

\* Mutant: nobody is signalled when the agent is free again.
UnblockQuietly(e) ==
  /\ blocked' = blocked \ {e}
  /\ UNCHANGED woken

\* The finally of exclusive.
Unblock(e) ==
  /\ blocked' = blocked \ {e}
  /\ woken' = (woken \cup Sleepers) \ {e}

\* Mutant: the agent is free as soon as its command has ended.
InstallEndsFree(e) ==
  /\ update[e] = "installing"
  /\ update' = [update EXCEPT ![e] = "after"]
  /\ Unblock(e)
  /\ UNCHANGED <<work, active, job, kill, hand, asked>>

\* The command ended: after success the agent is restarted (after_update) while it is still
\* exclusive, after a failure or a cancellation the agent is free.
InstallEnds(e) ==
  /\ update[e] = "installing"
  /\ \/ /\ update' = [update EXCEPT ![e] = "after"]
        /\ UNCHANGED <<blocked, woken>>
     \/ /\ update' = [update EXCEPT ![e] = "settling"]
        /\ Unblock(e)
  /\ UNCHANGED <<work, active, job, kill, hand, asked>>

AfterUpdate(e) ==
  /\ update[e] = "after"
  /\ update' = [update EXCEPT ![e] = "settling"]
  /\ Unblock(e)
  /\ UNCHANGED <<work, active, job, kill, hand, asked>>

\* _settle wrote the outcome; finally.
Settle(e) ==
  /\ update[e] = "settling"
  /\ Gone(e)
  /\ UNCHANGED <<work, gate, kill, hand, asked>>

\* cancel, before the command has started: the task is cancelled.  (Later the installation
\* is: InstallEnds.)
Cancel(e) ==
  /\ update[e] \in {"begun", "waiting"}
  /\ e \in job
  /\ kill' = kill \cup {e}
  /\ UNCHANGED <<work, gate, update, job, hand, asked>>

\* Mutant: exclusive has no finally.
CancelledBlocked(e) ==
  /\ e \in kill
  /\ kill' = kill \ {e}
  /\ Gone(e)
  /\ UNCHANGED <<work, gate, hand, asked>>

\* The CancelledError is raised at the wait; a task that never ran has no finally.
Cancelled(e) ==
  /\ e \in kill
  /\ kill' = kill \ {e}
  /\ IF update[e] = "waiting"
     THEN Gone(e) /\ Unblock(e)
     ELSE job' = job \ {e} /\ UNCHANGED <<update, blocked, woken>>
  /\ UNCHANGED <<work, active, hand, asked>>

\* InstallManager.start from Settings or Health, and the end of that task.
HandInstall(e) ==
  /\ update[e] # "installing"
  /\ hand' = IF e \in hand THEN hand \ {e} ELSE hand \cup {e}
  /\ UNCHANGED <<work, gate, update, job, kill, asked>>

(***************************************************************************)
(* The specification                                                       *)
(***************************************************************************)
Working(w) == Arrive(w) \/ Wake(w) \/ End(w)

Updating(e) ==
  \/ Drive(e) \/ DriveOn(e) \/ InstallEnds(e) \/ AfterUpdate(e) \/ Settle(e) \/ Cancelled(e)

Next ==
  \/ \E w \in Works : Call(w) \/ Working(w) \/ Interrupt(w) \/ Abandon(w)
  \/ \E e \in Engines : Ask(e) \/ Updating(e) \/ Cancel(e) \/ HandInstall(e)

Spec == Init /\ [][Next]_vars

\* The event loop runs every task that can go on, installations have a time limit, and work
\* ends: an answer or a build step at its deadline, which cancels the tools that wait inside of it.
Fairness ==
  /\ \A w \in Works : WF_vars(at[w] # "idle" /\ Working(w))
  /\ \A w \in Works : WF_vars(Outer[w] # {} /\ Abandon(w))
  /\ \A e \in Engines : WF_vars(Updating(e))

FairSpec == Spec /\ Fairness

(***************************************************************************)
(* Properties                                                              *)
(***************************************************************************)
TypeOK ==
  /\ at \in [Works -> Places]
  /\ stop \subseteq Works
  /\ reached \subseteq Works
  /\ active \in [Engines -> Nat]
  /\ blocked \subseteq Engines
  /\ woken \subseteq Works \cup Engines
  /\ update \in [Engines -> Phases]
  /\ job \subseteq Engines
  /\ kill \subseteq Engines
  /\ hand \subseteq Engines
  /\ asked \in [Engines -> 0 .. MaxUpdates]

\* The works that are in, and the agents under update.
Inside == {w \in Works : at[w] \in {"in", "free"}}
UnderUpdate == {e \in Engines : update[e] \in {"installing", "after"}}

\* "An update never lands between two steps": while the command of an update runs
\* or the agent is restarted, no work of the agent is in, counted or not.
UpdateIsAlone ==
  \A w \in Inside : EngineOf[w] \notin UnderUpdate

\* The gate keeps the promise of UpdateExclusion.
Exclusion == INSTANCE UpdateExclusion WITH inside <- Inside, updating <- UnderUpdate
ExclusionKept == Exclusion!Spec

\* _active counts exactly the work that is in, and an agent is blocked exactly by its
\* update: no path of stops, cancellations and failures leaks either.
NothingLeaks ==
  \A e \in Engines :
    /\ active[e] = Cardinality({w \in Works : at[w] = "in" /\ EngineOf[w] = e})
    /\ e \in blocked <=> update[e] \in Exclusive

\* A run that was stopped before it was let in never reaches the engine.
StoppedStaysOut == stop \cap reached = {}

\* "Work started from inside running work of the same agent never waits for an
\* update that itself waits for the outer work."
InsideNeverWaits ==
  \A w \in Works : \A o \in Outer[w] :
    (at[o] = "in" /\ EngineOf[o] = EngineOf[w]) => at[w] # "waiting"

\* A queued update gets its turn (or is cancelled), and work that waits goes on: no
\* signal is lost, and no two agents wait for each other.
UpdateGetsItsTurn == \A e \in Engines : update[e] = "waiting" ~> update[e] # "waiting"
WaitingWorkGoesOn == \A w \in Works : at[w] = "waiting" ~> at[w] # "waiting"
===============================================================================
