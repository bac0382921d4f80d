------------------------------ MODULE AudioLog ------------------------------
(***************************************************************************)
(* What the way of the sound from the microphone to the backend promises:  *)
(* the backend has the windows of a recording in the order they were       *)
(* recorded, each once.  A window may be refused when memory is full; from *)
(* then on every later window is refused as well, so that the sound that   *)
(* is there has no hole.                                                   *)
(*                                                                         *)
(* LiveRecording implements this specification.                            *)
(***************************************************************************)
EXTENDS Naturals, Sequences

VARIABLES
  heard,      \* windows recorded so far: 0 .. heard - 1
  refused,    \* how many of them were refused
  log         \* the windows the backend has

Init == heard = 0 /\ refused = 0 /\ log = <<>>

Hear ==
  /\ refused = 0
  /\ heard' = heard + 1
  /\ UNCHANGED <<refused, log>>

Refuse ==
  /\ heard' = heard + 1
  /\ refused' = refused + 1
  /\ UNCHANGED log

Keep ==
  /\ Len(log) < heard - refused
  /\ log' = Append(log, Len(log))
  /\ UNCHANGED <<heard, refused>>

Next == Hear \/ Refuse \/ Keep

Spec == Init /\ [][Next]_<<heard, refused, log>>
=============================================================================
