------------------------------ MODULE QuitGuard ------------------------------
(***************************************************************************)
(* Quitting SKAZ around a recording: main asks the window whether the      *)
(* sound is saved (electron/quitController.ts, rendererSaveBarrier.ts) and *)
(* the window answers with prepareQuit (kb/recording/recordingStore.ts).   *)
(* Main quits on "saved", and asks the user on anything else: who stays    *)
(* goes on (quit is "no" again), who discards ends the behaviour here.     *)
(*                                                                         *)
(* One request at a time: a second prepareQuit while one still waits after *)
(* a time-out of main is not modelled.                                     *)
(***************************************************************************)
EXTENDS LiveRecording

VARIABLE quit      \* QuitController: "no", "saving", or "gone" without a question to the user

quitVars == <<vars, quit>>

QuitInit == Init /\ quit = "no"

Running == quit # "gone"

\* Mutant: a finishing recording counts as finished.
LookedAway == "yes"

\* prepareQuit looks at the recording: a finished one is saved, a finishing one is waited for.
Looked == IF phase = "idle" THEN "yes" ELSE "wait"

\* before-quit, or the window is closed.  What was kept as unsaved is tried again first; a running
\* recording is stopped.
Ask ==
  /\ quit = "no" /\ pc["quit"] = "off"
  /\ quit' = "saving"
  /\ IF unsaved
     THEN Retry("quit", "drain") /\ UNCHANGED <<phase, byUser>>
     ELSE /\ IF phase = "recording"
             THEN /\ phase' = "finishing" /\ byUser' = TRUE
                  /\ pc' = [pc EXCEPT !["stop"] = "flush", !["quit"] = "stopping"]
             ELSE pc' = [pc EXCEPT !["quit"] = Looked] /\ UNCHANGED <<phase, byUser>>
          /\ UNCHANGED <<keeping, op, writer, wire, backend, faults>>
  /\ UNCHANGED <<unsaved, retries>>

Retried ==
  /\ pc["quit"] \in {"no", "saved"}
  /\ unsaved' = StillUnsaved("quit")
  /\ pc' = [pc EXCEPT !["quit"] = IF @ = "no" THEN "refused" ELSE Looked]
  /\ UNCHANGED <<keeping, op, writer, wire, backend, phase, byUser, retries, faults, quit>>

\* The recording has finished, or 15 seconds are over.
Waited ==
  /\ pc["quit"] = "wait"
  /\ pc' = [pc EXCEPT !["quit"] = IF phase = "idle" THEN "waited" ELSE "refused"]
  /\ UNCHANGED <<keeping, op, writer, wire, backend, screen, faults, quit>>

\* The answer reaches main, which may no longer wait for it.
Answered ==
  /\ pc["quit"] \in {"yes", "waited", "refused"}
  /\ pc' = [pc EXCEPT !["quit"] = "off"]
  /\ quit' = IF quit = "saving" /\ pc["quit"] # "refused" THEN "gone" ELSE "no"
  /\ UNCHANGED <<keeping, op, writer, wire, backend, screen, faults>>

\* 30 seconds without an answer count as not saved.
Late ==
  /\ quit = "saving"
  /\ quit' = "no"
  /\ UNCHANGED vars

QuitNext ==
  /\ Running
  /\ (Next /\ UNCHANGED quit) \/ Ask \/ Retried \/ Waited \/ Answered \/ Late

QuitSpec == QuitInit /\ [][QuitNext]_quitVars

\* Each process of the window, the messages on the wire and the backend's loop go on; faults, new
\* sound, the limits of a wait and what the user does need not happen.
Fairness ==
  /\ WF_quitVars(Running /\ Delivery /\ UNCHANGED quit)
  /\ WF_quitVars(Running /\ Stopping /\ UNCHANGED quit)
  /\ WF_quitVars(Running /\ Keeping /\ UNCHANGED quit)
  /\ WF_quitVars(Running /\ Hellos /\ UNCHANGED quit)
  /\ WF_quitVars(Running /\ Routing /\ UNCHANGED quit)
  /\ WF_quitVars(Running /\ (Retried \/ Answered \/ (Finish("quit") /\ UNCHANGED quit)))

QuitFairSpec == QuitSpec /\ Fairness

(***************************************************************************)
(* Properties                                                              *)
(***************************************************************************)

QuitTypeOK == TypeOK /\ quit \in {"no", "saving", "gone"}

\* An answer that does not come out of waiting for a finishing recording is only "saved" when the
\* window holds no sound any more (recordingStore.ts prepareQuit).
SavedIsSaved == pc["quit"] = "yes" => queue = <<>>

\* SKAZ does not quit on its own while the window holds sound the backend does not have
\* (recordingStore.ts: "SKAZ keeps it, keeps trying to save it, and will not quit silently").
NoSilentLoss == quit = "gone" => queue = <<>>

\* A stop of the recording returns, whatever the connection does meanwhile (unless SKAZ quits first).
StopReturns == phase = "finishing" ~> (phase = "idle" \/ ~Running)

Sound == INSTANCE AudioLog WITH heard <- made, refused <- dropped
\* The queue, the writer, the wire and the route together are the log of AudioLog.
KeepsTheLog == Sound!Spec
=============================================================================
