---------------------------- MODULE LiveRecording ----------------------------
(***************************************************************************)
(* The sound of one recording on its way from the window to the backend:   *)
(* the queue of recorded windows (audio/persistenceQueue.ts), the writer   *)
(* with its clock (audio/nativeWriter.ts), the connection Electron's main  *)
(* process holds (electron/nativeLive.ts), the route and the transport     *)
(* clock of the store (routes/live.py, live_store.py), and the part of the *)
(* window that stops a recording and keeps what is not saved yet           *)
(* (kb/recording/capture.ts, recordingStore.ts).                           *)
(*                                                                         *)
(* Windows are numbers.  All of them have the same length here, so that    *)
(* the clock in samples and the number of the next window are one counter. *)
(* One action is what the window, main or the backend does until it waits. *)
(***************************************************************************)
EXTENDS Naturals, Sequences

CONSTANTS
  MaxPending,    \* windows the queue takes before it asks the recorder to stop
  MaxAttempts,   \* attempts to store a window before the queue blocks
  SaveRetries,   \* retries in the background after a recording has stopped
  Windows,       \* bound: windows recorded
  Faults         \* bound: time-outs, broken sockets, failed writes and crashes

ASSUME PendingPositive == MaxPending \in Nat \ {0}
ASSUME AttemptsPositive == MaxAttempts \in Nat \ {0}
ASSUME RetriesPositive == SaveRetries \in Nat \ {0}
ASSUME BoundsNat == Windows \in Nat /\ Faults \in Nat

VARIABLES
  made,        \* recorder: the number of the next window
  queue,       \* PersistenceQueue: current and items, oldest first
  tries,       \* attempts of the current item
  blocked,     \* it gave up until a retry
  over,        \* protectedOverflow (overflow is over > 0)
  dropped,
  op,          \* what the current attempt or finish() waits for
  seq,         \* NativeAudioWriter: number of the next window
  attempted,   \* window seq was sent
  recovered,   \* the backend has window seq, its acknowledgement was lost
  link,        \* the connection, as writer and main see it
  hello,       \* open messages on the wire: of the connection, or of one given up
  inbox,       \* what lies in the socket of the route: an audio frame, the end message or nothing
  reply,       \* what lies in the socket of the connection
  route,       \* receive_live_audio
  here,        \* its socket is the one of the connection
  log,         \* LiveStore: the windows accepted
  active,      \* the recording has an asr_connections row with status active
  phase,       \* recordingStore.phase
  byUser,      \* the stop is the user's, not a failure's
  unsaved,     \* the capture is kept as unsaved
  retries,     \* background retries spent
  pc,          \* where a stop, the retry in the background and a quit wait
  faults

keeping == <<made, queue, tries, blocked, over, dropped>>
writer == <<seq, attempted, recovered, link>>
wire == <<hello, inbox, reply>>
backend == <<route, here, log, active>>
screen == <<phase, byUser, unsaved, retries>>
vars == <<keeping, op, writer, wire, backend, screen, pc, faults>>

Savers == {"stop", "keep", "quit"}

Message(type, n, window) == [type |-> type, seq |-> n, window |-> window]
Nothing == Message("none", 0, 0)

Reply(type, next) == [type |-> type, next |-> next]   \* next: next_sequence of "opened"
Silence == Reply("none", 0)

\* A recording has just begun: recorder.start has opened the connection.
Init ==
  /\ made = 0 /\ queue = <<>> /\ tries = 0 /\ blocked = FALSE
  /\ over = 0 /\ dropped = 0 /\ op = "none"
  /\ seq = 0 /\ attempted = FALSE /\ recovered = FALSE /\ link = "connected"
  /\ hello = {} /\ inbox = Nothing /\ reply = Silence
  /\ route = "ready" /\ here = TRUE /\ log = <<>> /\ active = TRUE
  /\ phase = "recording" /\ byUser = FALSE /\ unsaved = FALSE /\ retries = 0
  /\ pc = [s \in Savers |-> "off"]
  /\ faults = 0

(***************************************************************************)
(* The queue                                                               *)
(***************************************************************************)

\* run() holds a window.
Busy == op \in {"call", "sleep", "open", "audio"}

\* fail(): the failure of a running recording stops it; recorder.stop() first flushes the tail.
Alarm == phase' = IF phase = "recording" THEN "finishing" ELSE phase
Alarmed(p) == IF phase = "recording" THEN [p EXCEPT !["stop"] = "flush"] ELSE p

\* settle(saved): every drain() that waits is answered.
Settled(p, saved) ==
  [s \in Savers |-> IF p[s] \in {"drain", "redrain"}
                    THEN (IF saved THEN "end" ELSE IF p[s] = "drain" THEN "no" ELSE "lost")
                    ELSE p[s]]

\* run() has its window stored: it goes on with the next one, or ends.
Stored ==
  /\ queue' = Tail(queue)
  /\ seq' = seq + 1 /\ attempted' = FALSE /\ recovered' = FALSE
  /\ IF Len(queue) = 1
     THEN /\ op' = "none" /\ tries' = 0
          /\ over' = IF dropped = 0 THEN 0 ELSE over
          /\ pc' = Settled(pc, TRUE)
     ELSE op' = "call" /\ tries' = 1 /\ UNCHANGED <<over, pc>>

\* An attempt failed: another one after a pause, or run() ends blocked and calls onBlocked.
NotStored ==
  IF tries < MaxAttempts
  THEN op' = "sleep" /\ UNCHANGED <<blocked, phase, pc>>
  ELSE op' = "none" /\ blocked' = TRUE /\ Alarm /\ pc' = Settled(Alarmed(pc), FALSE)

\* Mutant: a full queue refuses, an emptied one takes again.
RefusesWhenFull == Len(queue) >= MaxPending

Refuses == dropped > 0 \/ (Len(queue) >= MaxPending /\ over >= 2)

\* enqueue: the recorder hands over a window.  At the limit two more are taken, the first of which
\* stops the recording; past them a window is refused, and so is every later one.
Enqueue ==
  /\ made < Windows
  /\ phase = "recording" \/ pc["stop"] = "flush"
  /\ made' = made + 1
  /\ IF Refuses
     THEN dropped' = dropped + 1 /\ UNCHANGED <<queue, tries, op, over, phase, pc>>
     ELSE /\ queue' = Append(queue, made)
          /\ IF Len(queue) >= MaxPending
             THEN /\ over' = over + 1
                  /\ IF over = 0 THEN Alarm /\ pc' = Alarmed(pc) ELSE UNCHANGED <<phase, pc>>
                  /\ UNCHANGED <<tries, op>>
             ELSE /\ IF Busy \/ blocked THEN UNCHANGED <<tries, op>> ELSE tries' = 1 /\ op' = "call"
                  /\ UNCHANGED <<over, phase, pc>>
          /\ UNCHANGED dropped
  /\ UNCHANGED <<blocked, writer, wire, backend, byUser, unsaved, retries, faults>>

\* The pause between two attempts is over.
Wake ==
  /\ op = "sleep"
  /\ op' = "call" /\ tries' = tries + 1
  /\ UNCHANGED <<made, queue, blocked, over, dropped, writer, wire, backend, screen, pc, faults>>

(***************************************************************************)
(* One attempt: open a connection when the last one failed, then send.     *)
(***************************************************************************)

\* NativeLiveClient.open: main takes no second connection while it believes in one.
Reopen ==
  /\ op = "call" /\ link \in {"failed", "differs"}
  /\ IF link = "failed"
     THEN hello' = hello \cup {"new"} /\ op' = "open" /\ UNCHANGED <<blocked, phase, pc>>
     ELSE NotStored /\ UNCHANGED hello
  /\ UNCHANGED <<made, queue, tries, over, dropped, writer, inbox, reply, backend,
                 byUser, unsaved, retries, faults>>

\* Mutant: whatever was attempted counts as arrived.
ArrivedIfAttempted == attempted

\* The backend's clock has to be the writer's, or one window ahead of it when the last window sent
\* had arrived.
ClockFits == reply.next = seq \/ (attempted /\ reply.next = seq + 1)
Arrived == reply.next # seq

\* The connection is open.
Opened ==
  /\ reply.type = "opened" /\ op = "open"
  /\ reply' = Silence
  /\ IF ClockFits
     THEN /\ link' = "connected" /\ recovered' = Arrived /\ op' = "call"
          /\ UNCHANGED <<blocked, phase, pc>>
     ELSE /\ link' = "differs" /\ NotStored /\ UNCHANGED recovered
  /\ UNCHANGED <<made, queue, tries, over, dropped, seq, attempted, hello, inbox, backend,
                 byUser, unsaved, retries, faults>>

\* store(): the window goes out, unless the new connection has shown that it had arrived.
Send ==
  /\ op = "call" /\ link = "connected" /\ ~recovered
  /\ attempted' = TRUE /\ op' = "audio"
  /\ inbox' = IF here THEN Message("audio", seq, Head(queue)) ELSE inbox
  /\ UNCHANGED <<keeping, seq, recovered, link, hello, reply, backend, screen, pc, faults>>

Recovered ==
  /\ op = "call" /\ link = "connected" /\ recovered
  /\ Stored
  /\ UNCHANGED <<made, blocked, dropped, link, wire, backend, screen, faults>>

Acknowledged ==
  /\ reply.type = "saved" /\ op = "audio"
  /\ reply' = Silence
  /\ Stored
  /\ UNCHANGED <<made, blocked, dropped, link, hello, inbox, backend, screen, faults>>

\* NativeConnection.fail and the writer's disconnect(): the attempt fails, a running recording
\* stops.  What was on its way to the backend may still arrive.
Broken ==
  /\ link' = "failed" /\ reply' = Silence /\ here' = FALSE
  /\ hello' \in {hello \ {"new"}} \cup (IF "new" \in hello THEN {(hello \ {"new"}) \cup {"old"}} ELSE {})
  /\ inbox' \in IF here THEN {inbox, Nothing} ELSE {inbox}
  /\ Alarm
  /\ IF op \in {"open", "audio"} /\ tries >= MaxAttempts
     THEN op' = "none" /\ blocked' = TRUE /\ pc' = Settled(Alarmed(pc), FALSE)
     ELSE /\ op' = IF op \in {"open", "audio"} THEN "sleep" ELSE IF op = "end" THEN "none" ELSE op
          /\ pc' = Alarmed(pc)
          /\ UNCHANGED blocked
  /\ UNCHANGED <<made, queue, tries, over, dropped, seq, attempted, recovered,
                 route, log, active, byUser, unsaved, retries>>

\* Main holds a connection that is opening, open or ending.
Connected == link = "connected" \/ op = "open"

\* A time-out or a broken socket.
Break == Connected /\ faults < Faults /\ Broken /\ faults' = faults + 1

\* The backend answers stream.error, or closes the socket.
Closed ==
  /\ Connected
  /\ reply.type = "error" \/ (reply = Silence /\ ~here /\ "new" \notin hello)
  /\ Broken
  /\ UNCHANGED faults

(***************************************************************************)
(* The route and the store                                                 *)
(***************************************************************************)

\* The open message: native_tasks reserves the session before the first await.
Hello(h) ==
  /\ h \in hello
  /\ hello' = hello \ {h}
  /\ IF route = "none"
     THEN route' = "opening" /\ here' = (h = "new") /\ UNCHANGED reply
     ELSE reply' = (IF h = "new" THEN Reply("error", 0) ELSE reply) /\ UNCHANGED <<route, here>>
  /\ UNCHANGED <<keeping, op, writer, inbox, log, active, screen, pc, faults>>

Answer(type, next) == reply' = IF here THEN Reply(type, next) ELSE reply

\* LiveStore.open: one active connection; the answer tells the clock.
Accept ==
  /\ route = "opening"
  /\ IF active
     THEN route' = "refused" /\ Answer("error", 0) /\ UNCHANGED active
     ELSE route' = "ready" /\ active' = TRUE /\ Answer("opened", Len(log))
  /\ UNCHANGED <<keeping, op, writer, hello, inbox, here, log, screen, pc, faults>>

\* LiveStore.append_audio: the next window, or the last one again; anything else ends the stream.
AppendAudio ==
  /\ route = "ready" /\ inbox.type = "audio"
  /\ inbox' = Nothing
  /\ LET next == Len(log)
         again == next > 0 /\ inbox.seq = next - 1 /\ inbox.window = log[next]
     IN  /\ log' = IF inbox.seq = next THEN Append(log, inbox.window) ELSE log
         /\ IF inbox.seq = next \/ again
            THEN Answer("saved", 0) /\ UNCHANGED route
            ELSE Answer("error", 0) /\ route' = "closing"
  /\ UNCHANGED <<keeping, op, writer, hello, here, active, screen, pc, faults>>

\* The end message: the stream is finished, or a background task keeps the session for a while.
End ==
  /\ route = "ready" /\ inbox.type = "end"
  /\ inbox' = Nothing
  /\ Answer("stopped", 0)
  /\ \/ route' = "none" /\ here' = FALSE /\ active' = FALSE
     \/ route' = "closing" /\ UNCHANGED <<here, active>>
  /\ UNCHANGED <<keeping, op, writer, hello, log, screen, pc, faults>>

\* A write fails: nothing is stored.
StorageFails ==
  /\ faults < Faults
  /\ route = "opening" \/ (route = "ready" /\ inbox # Nothing)
  /\ faults' = faults + 1
  /\ route' = IF route = "opening" THEN "refused" ELSE "closing"
  /\ inbox' = Nothing
  /\ Answer("error", 0)
  /\ UNCHANGED <<keeping, op, writer, hello, here, log, active, screen, pc>>

\* The route reads the disconnect behind what its socket still held.
Leave ==
  /\ route = "ready" /\ ~here /\ inbox = Nothing
  /\ route' = "closing"
  /\ UNCHANGED <<keeping, op, writer, wire, here, log, active, screen, pc, faults>>

\* cleanup(), or the end of the background task: the row of a connection that was opened is closed,
\* unless that write fails too, and the session is free.  What its socket still held is gone.
Cleanup ==
  /\ route \in {"closing", "refused"}
  /\ route' = "none" /\ here' = FALSE /\ inbox' = Nothing
  /\ \/ active' = (active /\ route = "refused") /\ UNCHANGED faults
     \/ faults < Faults /\ faults' = faults + 1 /\ UNCHANGED active
  /\ UNCHANGED <<keeping, op, writer, hello, reply, log, screen, pc>>

\* The backend dies and starts again: recover_interrupted.  Its answers may be lost with it.
Crash ==
  /\ faults < Faults
  /\ faults' = faults + 1
  /\ route' = "none" /\ here' = FALSE /\ inbox' = Nothing /\ hello' = {}
  /\ active' = FALSE
  /\ reply' \in {reply, Silence}
  /\ UNCHANGED <<keeping, op, writer, log, screen, pc>>

(***************************************************************************)
(* The window stops a recording                                            *)
(***************************************************************************)

\* What a call of stop() by a quit is answered with.
Told(p, saved) == [p EXCEPT !["quit"] = IF @ = "stopping" THEN (IF saved THEN "yes" ELSE "refused") ELSE @]

\* stop() of the user, or fail() for a microphone that went or a recognition that stopped.
Stop ==
  /\ phase = "recording"
  /\ phase' = "finishing" /\ byUser' \in BOOLEAN
  /\ pc' = [pc EXCEPT !["stop"] = "flush"]
  /\ UNCHANGED <<keeping, op, writer, wire, backend, unsaved, retries, faults>>

\* Mutant: a blocked queue lets drain() wait.
DrainedUnblocked == IF queue = <<>> THEN "end" ELSE "drain"

\* What drain() answers at once, or that it waits.
Drained == IF blocked THEN "no" ELSE IF queue = <<>> THEN "end" ELSE "drain"

\* recorder.stop() has emitted the tail, then queue.drain().
Flushed ==
  /\ pc["stop"] = "flush"
  /\ pc' = [pc EXCEPT !["stop"] = Drained]
  /\ UNCHANGED <<keeping, op, writer, wire, backend, screen, faults>>

\* retry(): retryFailed, then drain.
Retry(s, wait) ==
  /\ pc' = [pc EXCEPT ![s] = IF queue = <<>> THEN "end" ELSE wait]
  /\ IF blocked
     THEN blocked' = FALSE /\ op' = "call" /\ tries' = 1
     ELSE UNCHANGED <<blocked, op, tries>>
  /\ UNCHANGED <<made, queue, over, dropped, writer, wire, backend, faults>>

\* stop() retries once at once.
RetryAtOnce ==
  /\ pc["stop"] = "no" /\ byUser
  /\ Retry("stop", "redrain")
  /\ UNCHANGED screen

\* It could not save everything: keepSaving.
Keep ==
  /\ pc["stop"] = "lost" \/ (pc["stop"] = "no" /\ ~byUser)
  /\ unsaved' = TRUE /\ phase' = "idle"
  /\ pc' = Told([pc EXCEPT !["stop"] = "off", !["keep"] = "sleep"], FALSE)
  /\ UNCHANGED <<keeping, op, writer, wire, backend, byUser, retries, faults>>

\* Everything the queue took is saved: writer.finish('stop').
Finish(s) ==
  /\ pc[s] = "end"
  /\ IF link = "connected" /\ op = "none"
     THEN /\ op' = "end" /\ inbox' = (IF here THEN Message("end", 0, 0) ELSE inbox)
          /\ UNCHANGED pc
     ELSE op # "end" /\ pc' = [pc EXCEPT ![s] = "saved"] /\ UNCHANGED <<op, inbox>>
  /\ UNCHANGED <<keeping, writer, hello, reply, backend, screen, faults>>

Ended ==
  /\ reply.type = "stopped" /\ op = "end"
  /\ reply' = Silence /\ op' = "none" /\ link' = "stopped"
  /\ UNCHANGED <<keeping, seq, attempted, recovered, hello, inbox, backend, screen, pc, faults>>

\* ... and the material is settled.  A stop whose capture never confirmed its last flush is not
\* answered as saved, nor is one that refused sound.
StopDone ==
  /\ pc["stop"] = "saved"
  /\ phase' = "idle"
  /\ \E confirmed \in BOOLEAN :
       pc' = Told([pc EXCEPT !["stop"] = "off"], confirmed /\ dropped = 0)
  /\ UNCHANGED <<keeping, op, writer, wire, backend, byUser, unsaved, retries, faults>>

\* keepSaving: one retry after each pause, until it is saved or the retries are spent.
KeepSaving ==
  /\ pc["keep"] = "sleep"
  /\ IF unsaved
     THEN Retry("keep", "drain") /\ retries' = retries + 1
     ELSE /\ pc' = [pc EXCEPT !["keep"] = "off"]
          /\ UNCHANGED <<keeping, op, writer, wire, backend, retries, faults>>
  /\ UNCHANGED <<phase, byUser, unsaved>>

\* Only a retry that saved everything lets the capture go.
StillUnsaved(s) == unsaved /\ pc[s] = "no"
MoreRetries == retries < SaveRetries

Kept ==
  /\ pc["keep"] \in {"no", "saved"}
  /\ unsaved' = StillUnsaved("keep")
  /\ pc' = [pc EXCEPT !["keep"] = IF @ = "no" /\ MoreRetries THEN "sleep" ELSE "off"]
  /\ UNCHANGED <<keeping, op, writer, wire, backend, phase, byUser, retries, faults>>

\* The steps of the one attempt, or of finish(), that runs.
Delivery == Wake \/ Reopen \/ Opened \/ Send \/ Recovered \/ Acknowledged \/ Ended \/ Closed

Stopping == Flushed \/ RetryAtOnce \/ Keep \/ Finish("stop") \/ StopDone

Keeping == KeepSaving \/ Kept \/ Finish("keep")

Routing == Accept \/ AppendAudio \/ End \/ Leave \/ Cleanup

Hellos == \E h \in hello : Hello(h)

Trouble == Break \/ StorageFails \/ Crash

Next == Enqueue \/ Stop \/ Delivery \/ Stopping \/ Keeping \/ Finish("quit") \/ Hellos \/ Routing \/ Trouble

Spec == Init /\ [][Next]_vars

(***************************************************************************)
(* Properties                                                              *)
(***************************************************************************)

TypeOK ==
  /\ made \in 0..Windows /\ dropped \in 0..Windows /\ seq \in 0..Windows
  /\ queue \in Seq(0..Windows - 1) /\ log \in Seq(0..Windows - 1)
  /\ tries \in 0..MaxAttempts /\ over \in 0..2 /\ blocked \in BOOLEAN
  /\ op \in {"none", "call", "sleep", "open", "audio", "end"}
  /\ attempted \in BOOLEAN /\ recovered \in BOOLEAN
  /\ link \in {"connected", "failed", "differs", "stopped"}
  /\ hello \subseteq {"new", "old"}
  /\ inbox \in [type : {"none", "audio", "end"}, seq : 0..Windows, window : 0..Windows]
  /\ reply \in [type : {"none", "opened", "saved", "stopped", "error"}, next : 0..Windows]
  /\ route \in {"none", "opening", "ready", "closing", "refused"}
  /\ here \in BOOLEAN /\ active \in BOOLEAN
  /\ phase \in {"recording", "finishing", "idle"}
  /\ byUser \in BOOLEAN /\ unsaved \in BOOLEAN /\ retries \in 0..SaveRetries
  /\ pc \in [Savers -> {"off", "flush", "drain", "redrain", "no", "lost", "end", "saved", "sleep",
                        "wait", "stopping", "yes", "waited", "refused"}]
  /\ faults \in 0..Faults

\* Every window that was not refused is with the backend or still held by the window, whatever was
\* lost, repeated or late on the way (persistenceQueue.ts: bytes leave after a validated receipt).
NothingForgotten ==
  \A w \in 0..(made - dropped) - 1 :
    \/ w < Len(log) /\ log[w + 1] = w
    \/ \E i \in 1..Len(queue) : queue[i] = w

\* A reconnect finds the backend's clock at the writer's, or one window ahead with that window sent
\* before: the writer never has to give up on "clock differs from retained audio".
ClockAgrees == link # "differs"

\* The window holds at most two windows past the limit.
Bounded == Len(queue) <= MaxPending + 2

\* While a stopped recording still holds sound it is kept as unsaved, which is what the guard of a
\* quit and the retries in the background go by (recordingStore.ts keepSaving, report).
GuardCounts == phase = "idle" /\ queue # <<>> => unsaved
=============================================================================
