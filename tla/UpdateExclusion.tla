--------------------------- MODULE UpdateExclusion ---------------------------
(***************************************************************************)
(* What the update gate promises about each agent: an update has the agent *)
(* for itself.  Work goes in only while no update has the agent, and an     *)
(* update begins only when no work of the agent is in.                     *)
(*                                                                         *)
(* UpdateGate implements this specification.                               *)
(***************************************************************************)
CONSTANTS
  Engines, Works,
  EngineOf       \* the agent of a piece of work

VARIABLES
  inside,        \* the works that are in
  updating       \* the agents that are being updated

Of(e) == {w \in inside : EngineOf[w] = e}

Init == inside = {} /\ updating = {}

Enter(w) ==
  /\ w \notin inside
  /\ EngineOf[w] \notin updating
  /\ inside' = inside \cup {w}
  /\ UNCHANGED updating

Leave(out) ==
  /\ out \subseteq inside
  /\ inside' = inside \ out
  /\ UNCHANGED updating

Update(e) ==
  /\ Of(e) = {}
  /\ updating' = updating \cup {e}
  /\ UNCHANGED inside

Updated(e) ==
  /\ updating' = updating \ {e}
  /\ UNCHANGED inside

Next ==
  \/ \E w \in Works : Enter(w)
  \/ \E out \in SUBSET Works : Leave(out)
  \/ \E e \in Engines : Update(e) \/ Updated(e)

Spec == Init /\ [][Next]_<<inside, updating>>
==============================================================================
