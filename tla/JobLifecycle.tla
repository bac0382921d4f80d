----------------------------- MODULE JobLifecycle -----------------------------
(***************************************************************************)
(* What the wiki queue promises about its jobs, whoever asks, stops,       *)
(* closes or restarts it: a material has at most one queued or running     *)
(* job, jobs start oldest first and no more of them at once than there are *)
(* slots, and a finished job never changes again.                          *)
(*                                                                         *)
(* IngestQueue implements this specification with its jobs table.          *)
(***************************************************************************)
EXTENDS Naturals, Sequences

CONSTANTS
  Jobs, Materials, About,
  Fitting        \* the sets of jobs that the slots hold together

VARIABLES state, order

Pending == {"queued", "running"}
Finished == {"done", "failed", "paused", "cancelled"}

InState(s) == {j \in Jobs : state[j] = s}

\* The job that waits longest.
Oldest(j) ==
  /\ state[j] = "queued"
  /\ \E i \in DOMAIN order :
       /\ order[i] = j
       /\ \A h \in 1 .. i - 1 : state[order[h]] # "queued"

Init ==
  /\ state = [j \in Jobs |-> "none"]
  /\ order = <<>>

Enqueue(j) ==
  /\ state[j] = "none"
  /\ \A k \in Jobs : About[k] = About[j] => state[k] \notin Pending
  /\ state' = [state EXCEPT ![j] = "queued"]
  /\ order' = Append(order, j)

Start(j) ==
  /\ Oldest(j)
  /\ InState("running") \cup {j} \in Fitting
  /\ state' = [state EXCEPT ![j] = "running"]
  /\ UNCHANGED order

Finish(j) ==
  /\ state[j] = "running"
  /\ \E s \in Finished : state' = [state EXCEPT ![j] = s]
  /\ UNCHANGED order

StopQueued(j) ==
  /\ state[j] = "queued"
  /\ state' = [state EXCEPT ![j] = "cancelled"]
  /\ UNCHANGED order

\* The application closes or starts again: work under way waits for another run.
GoBack(jobs) ==
  /\ jobs # {}
  /\ jobs \subseteq InState("running")
  /\ state' = [j \in Jobs |-> IF j \in jobs THEN "queued" ELSE state[j]]
  /\ UNCHANGED order

Next ==
  \/ \E j \in Jobs : Enqueue(j) \/ Start(j) \/ Finish(j) \/ StopQueued(j)
  \/ \E jobs \in SUBSET Jobs : GoBack(jobs)

Spec == Init /\ [][Next]_<<state, order>>
===============================================================================
