------------------------------ MODULE ChatAnswers ------------------------------
(***************************************************************************)
(* One chat of ChatService (knowledge/chats/service.py) and the questions  *)
(* its agent asks the user (QuestionBroker, permissions/questions.py).     *)
(*                                                                         *)
(* An answer has a run: the asyncio task _drive, and its entry in _runs.   *)
(* Every request of the user is a task as well; one action is the stretch  *)
(* of a task from one await to the next.  Chats share nothing here.        *)
(***************************************************************************)
EXTENDS Naturals, FiniteSets, Sequences

CONSTANTS
  Answers,     \* ids of answers, given out in order
  Requests,    \* bound: places for requests under way; each changes a part of its own
  MaxRequests, \* bound: requests altogether, a close is one
  Asking,      \* bound: the answers whose agent asks the user a question
  MayClose,    \* bound: SKAZ may be closed
  MaxRestarts  \* bound

None == 0

ASSUME AnswersNumbered == Answers \subseteq Nat \ {None}
ASSUME RequestsNumbered == Requests \subseteq Nat /\ IsFiniteSet(Requests)
ASSUME BoundsNat == MaxRequests \in Nat /\ MaxRestarts \in Nat

VARIABLES
  exists,    \* the row of the chat
  thread,    \* its stored answers in order
  to,        \* reply_to: a question has the id of the first answer it got
  kept,      \* the stored state and parts of an answer
  asked,     \* agent_questions.status of the question an answer's agent asked ("late" is an
             \* "answered" by a message of its own)
  runs,      \* _runs[chat]
  reserved,  \* chat in _reserved
  run,       \* the _Run of an answer and where its task is; kill: a CancelledError on its way to
             \* the task; cut: an exception left the save of its end
  future,    \* _futures of its question: what the waiting agent got
  req,       \* what a request does
  acked,     \* history: parts a request was told are changed
  unheard,   \* history: requests whose own words nobody got yet
  closer,    \* close()
  begun,     \* requests so far
  restarts

store == <<exists, thread, to, kept>>
question == <<asked, future>>
answering == <<runs, reserved, run>>
users == <<req, acked, unheard>>
bounds == <<begun, restarts>>
vars == <<store, question, answering, users, closer, bounds>>

Ended == {"done", "failed", "cancelled", "interrupted"}
States == {"streaming"} \cup Ended
Shown == {thread[i] : i \in DOMAIN thread}
Closing == closer.at # "open"

NoRow == [state |-> "streaming", parts |-> {}]
NoRun == [at |-> "none", parts |-> {}, saved |-> {}, state |-> "streaming",
          stopping |-> FALSE, closing |-> FALSE, deleted |-> FALSE, kill |-> FALSE, cut |-> FALSE]
NoRequest == [at |-> "idle", kind |-> "none", on |-> None, list |-> {}, seen |-> NoRow]
CloserOpen == [at |-> "open", on |-> None, seen |-> {}]

Init ==
  /\ exists = TRUE
  /\ thread = <<>>
  /\ to = [a \in Answers |-> None]
  /\ kept = [a \in Answers |-> NoRow]
  /\ asked = [a \in Answers |-> "none"]
  /\ runs = None
  /\ reserved = FALSE
  /\ run = [a \in Answers |-> NoRun]
  /\ future = [a \in Answers |-> "none"]
  /\ req = [c \in Requests |-> NoRequest]
  /\ acked = [a \in Answers |-> {}]
  /\ unheard = {}
  /\ closer = CloserOpen
  /\ begun = 0
  /\ restarts = 0

Idle(c) == req[c].at = "idle"
\* A request begins, in the first free place.
Begin(c) ==
  /\ Idle(c) /\ \A d \in Requests : Idle(d) => c <= d
  /\ begun < MaxRequests
  /\ begun' = begun + 1
Go(c, place) == req' = [req EXCEPT ![c].at = place]
Over(c) == req' = [req EXCEPT ![c] = NoRequest]

\* A row of agent_questions that still waits becomes status.
RowBecomes(a, status) == IF asked[a] = "pending" THEN [asked EXCEPT ![a] = status] ELSE asked
\* set_result unless the future is done; the one of a call dropped too early has nobody to hear it.
Resolve(a, reply) == IF future[a] = "waits" THEN [future EXCEPT ![a] = reply] ELSE future
\* Its first question, where supersede is in its list.
First(list) == CHOOSE x \in list : \A y \in list : x <= y

(***************************************************************************)
(* Asking: send, regenerate, resume and edit                               *)
(***************************************************************************)

\* Mutant: a chat between "send accepted" and "run started" is not answering.
FreeButForReserved == ~Closing /\ runs = None

\* _reserve: not while closing, nor while the chat is answering (state_of).
Free == ~Closing /\ runs = None /\ ~reserved

\* A request with this target reserves the chat, or is refused.
Reserve(c, kind, a) ==
  IF Free
  THEN /\ reserved' = TRUE
       /\ req' = [req EXCEPT ![c] = [NoRequest EXCEPT !.at = "asking", !.kind = kind, !.on = a]]
  ELSE /\ Over(c)
       /\ UNCHANGED reserved

\* send: during a run it first looks for a waiting question.
SendFrom(c, kind, a) ==
  IF runs # None
  THEN /\ req' = [req EXCEPT ![c] = [NoRequest EXCEPT !.at = "look", !.kind = kind, !.on = a]]
       /\ UNCHANGED reserved
  ELSE Reserve(c, kind, a)

Send(c) ==
  /\ Begin(c)
  /\ exists
  /\ SendFrom(c, "send", None)
  /\ UNCHANGED <<store, question, runs, run, acked, unheard, closer, restarts>>

\* waiting_in: a pending row whose future some run still holds.
WaitingIn == \E a \in Answers : asked[a] = "pending" /\ future[a] \in {"waits", "leaked"}

Looked(c) ==
  /\ req[c].at = "look"
  /\ IF WaitingIn
     THEN Go(c, "words") /\ UNCHANGED reserved
     ELSE Reserve(c, req[c].kind, req[c].on)
  /\ UNCHANGED <<store, question, runs, run, acked, unheard, closer, bounds>>

\* regenerate, resume or edit of the question of a shown answer.
AskAgain(c, kind, a) ==
  /\ Begin(c)
  /\ exists
  /\ a \in Shown
  /\ kind \in {"regenerate", "resume", "edit"}
  /\ Reserve(c, kind, a)
  /\ UNCHANGED <<store, question, runs, run, acked, unheard, closer, restarts>>

\* The thread with the new answer n in it.
Asked(kind, a, n) ==
  LET at == CHOOSE i \in DOMAIN thread : thread[i] = a
      first == CHOOSE i \in DOMAIN thread :
                 to[thread[i]] = to[a] /\ \A k \in 1 .. i - 1 : to[thread[k]] # to[a]
  IN CASE kind = "resume" -> [thread EXCEPT ![at] = n]                  \* replace_answer
       [] kind = "edit"   -> Append(SubSeq(thread, 1, first - 1), n)    \* rewrite_from
       [] OTHER           -> Append(thread, n)                          \* add_messages

\* Only an answer that ended is asked again, only an interrupted one is resumed.
MayAsk(kind, a) ==
  CASE kind = "resume"     -> a \in Shown /\ kept[a].state \in {"interrupted", "failed"}
    [] kind = "regenerate" -> a \in Shown /\ kept[a].state \in Ended
    [] kind = "edit"       -> a \in Shown
    [] OTHER               -> TRUE

\* The id the next answer gets.
Fresh(n) == to[n] = None /\ \A m \in Answers : to[m] = None => n <= m

\* One transaction stores the new answer; nothing else changes what was read for it, but the
\* chat may be gone.
Insert(c) ==
  /\ req[c].at = "asking"
  /\ exists
  /\ MayAsk(req[c].kind, req[c].on)
  /\ \E n \in Answers :
       /\ Fresh(n)
       /\ thread' = Asked(req[c].kind, req[c].on, n)
       /\ to' = [to EXCEPT ![n] = IF req[c].kind \in {"send", "late"} THEN n ELSE to[req[c].on]]
       /\ req' = [req EXCEPT ![c].at = "inserted", ![c].list = {n}]
  /\ UNCHANGED <<exists, kept, question, answering, acked, unheard, closer, bounds>>

\* It is refused: the answer to ask again is not the right one, the agent or what was selected
\* is not known, the chat is gone.
Refused(c) ==
  /\ req[c].at = "asking"
  /\ reserved' = FALSE
  /\ Over(c)
  /\ UNCHANGED <<store, question, runs, run, acked, unheard, closer, bounds>>

\* _start: the run takes over the reservation.
Start(c) ==
  /\ req[c].at = "inserted"
  /\ \E n \in req[c].list :
       /\ runs' = n
       /\ run' = [run EXCEPT ![n].at = "turn"]
  /\ reserved' = FALSE
  /\ IF req[c].kind = "late" THEN Go(c, "late") ELSE Over(c)
  /\ UNCHANGED <<store, question, acked, unheard, closer, bounds>>

(***************************************************************************)
(* Questions of the agent                                                  *)
(***************************************************************************)

\* ask: the tool finds its run (run_ref) and its future waits before the row is there.
Ask(a) ==
  /\ a \in Asking
  /\ runs = a
  /\ run[a].at # "ended"
  /\ future[a] = "none"
  /\ future' = [future EXCEPT ![a] = "adding"]
  /\ UNCHANGED <<store, asked, answering, users, closer, bounds>>

AskAdded(a) ==
  /\ future[a] = "adding"
  /\ IF exists
     THEN /\ asked' = [asked EXCEPT ![a] = "pending"]
          /\ future' = [future EXCEPT ![a] = "waits"]
     ELSE /\ future' = [future EXCEPT ![a] = "leaked"]
          /\ UNCHANGED asked
  /\ UNCHANGED <<store, answering, users, closer, bounds>>

\* The agent drops the call.  While its row is being added, the row is kept and the future stays.
AskDropped(a) ==
  /\ \/ /\ future[a] = "adding"
        /\ asked' = IF exists THEN [asked EXCEPT ![a] = "pending"] ELSE asked
        /\ future' = [future EXCEPT ![a] = "leaked"]
     \/ /\ future[a] = "waits"
        /\ asked' = RowBecomes(a, "cancelled")
        /\ future' = [future EXCEPT ![a] = "gone"]
  /\ UNCHANGED <<store, answering, users, closer, bounds>>

\* answer: an option is picked.  While somebody waits the row is compared and set first.
Pick(c, a) ==
  /\ Begin(c)
  /\ exists
  /\ asked[a] \in {"pending", "superseded", "cancelled"}
  /\ IF asked[a] = "pending" /\ future[a] \in {"waits", "leaked"}
     THEN /\ req' = [req EXCEPT ![c] = [NoRequest EXCEPT !.at = "pick", !.on = a]]
          /\ UNCHANGED reserved
     ELSE SendFrom(c, "late", a)
  /\ UNCHANGED <<store, question, runs, run, acked, unheard, closer, restarts>>

\* Mutant: the row is written whatever its status has become.
PickedAnyway(c) ==
  /\ req[c].at = "pick"
  /\ asked' = [asked EXCEPT ![req[c].on] = "answered"]
  /\ Go(c, "picked")
  /\ UNCHANGED <<store, future, answering, acked, unheard, closer, bounds>>

Picked(c) ==
  /\ req[c].at = "pick"
  /\ asked' = RowBecomes(req[c].on, "answered")
  /\ IF asked[req[c].on] = "pending" THEN Go(c, "picked") ELSE Over(c)
  /\ UNCHANGED <<store, future, answering, acked, unheard, closer, bounds>>

\* set_result without another look at done(): with an agent that has dropped its call meanwhile
\* it raises InvalidStateError, though the row is written.
PickTold(c) ==
  /\ req[c].at = "picked"
  /\ future' = Resolve(req[c].on, "option")
  /\ IF future[req[c].on] \in {"waits", "leaked"} THEN Over(c) ELSE Go(c, "failed")
  /\ UNCHANGED <<store, asked, answering, acked, unheard, closer, bounds>>

\* The user gets the error.
PickFails(c) ==
  /\ req[c].at = "failed"
  /\ Over(c)
  /\ UNCHANGED <<store, question, answering, acked, unheard, closer, bounds>>

\* Nobody waited: the option was sent as a message, now the row says so, if nobody else's does.
LateAnswered(c) ==
  /\ req[c].at = "late"
  /\ asked' = [asked EXCEPT ![req[c].on] = IF @ \in {"pending", "superseded", "cancelled"} THEN "late" ELSE @]
  /\ Over(c)
  /\ UNCHANGED <<store, future, answering, acked, unheard, closer, bounds>>

\* _answer_question: the user's own words are stored, then supersede reads what waits.
Words(c) ==
  /\ req[c].at = "words"
  /\ IF exists
     THEN Go(c, "closing") /\ unheard' = unheard \cup {c}
     ELSE Over(c) /\ UNCHANGED unheard
  /\ UNCHANGED <<store, question, answering, acked, closer, bounds>>

AfterWords(c) == IF req[c].kind = "late" THEN Go(c, "late") ELSE Over(c)

SupersedeReads(c) ==
  /\ req[c].at = "closing"
  /\ LET waiting == {a \in Answers : asked[a] = "pending"}
     IN IF waiting = {}
        THEN AfterWords(c)
        ELSE req' = [req EXCEPT ![c].at = "close", ![c].list = waiting]
  /\ UNCHANGED <<store, question, answering, acked, unheard, closer, bounds>>

\* Each row of the list in turn; one that was taken meanwhile is passed over.
Supersede(c) ==
  /\ req[c].at = "close"
  /\ IF req[c].list = {}
     THEN AfterWords(c) /\ UNCHANGED asked
     ELSE LET a == First(req[c].list)
          IN /\ asked' = RowBecomes(a, "superseded")
             /\ IF asked[a] = "pending"
                THEN Go(c, "closed")
                ELSE req' = [req EXCEPT ![c].list = @ \ {a}]
  /\ UNCHANGED <<store, future, answering, acked, unheard, closer, bounds>>

SupersedeTold(c) ==
  /\ req[c].at = "closed"
  /\ LET a == First(req[c].list)
     IN /\ future' = Resolve(a, "words")
        /\ unheard' = IF future[a] = "waits" THEN unheard \ {c} ELSE unheard
        /\ req' = [req EXCEPT ![c].at = "close", ![c].list = @ \ {a}]
  /\ UNCHANGED <<store, asked, answering, acked, closer, bounds>>

(***************************************************************************)
(* A run: _drive and _finish                                               *)
(***************************************************************************)

\* The agent's turn ends; an agent waits for its own calls unless it failed or was stopped.  A
\* CancelledError that arrives while the stream is closed is suppressed there.
TurnEnds(a) ==
  /\ run[a].at = "turn"
  /\ \E s \in Ended :
       /\ s = "done" => future[a] \notin {"adding", "waits"}
       /\ s = "cancelled" => run[a].stopping
       /\ run' = [run EXCEPT ![a].at = "cancels", ![a].state = s, ![a].kill = FALSE]
  /\ UNCHANGED <<store, question, runs, reserved, users, closer, bounds>>

\* The end is decided, and the message as it is now is the one to save.
Decided(r) ==
  [r EXCEPT !.at = "logs", !.saved = r.parts,
            !.state = IF @ = "cancelled" /\ r.closing THEN "interrupted" ELSE @]

\* _cancel_waits of the answer's own end.
FinishCancels(a) ==
  /\ run[a].at = "cancels" /\ ~run[a].kill
  /\ asked' = RowBecomes(a, "cancelled")
  /\ run' = [run EXCEPT ![a] = IF asked[a] = "pending" THEN [@ EXCEPT !.at = "tells"] ELSE Decided(@)]
  /\ UNCHANGED <<store, future, runs, reserved, users, closer, bounds>>

FinishTells(a) ==
  /\ run[a].at = "tells" /\ ~run[a].kill
  /\ future' = Resolve(a, "stopped")
  /\ run' = [run EXCEPT ![a] = Decided(@)]
  /\ UNCHANGED <<store, asked, runs, reserved, users, closer, bounds>>

\* The task is over, and so is its entry in _runs.
Left(a, cut) ==
  /\ run' = [run EXCEPT ![a] = [NoRun EXCEPT !.at = "ended", !.cut = cut,
                                 !.deleted = run[a].deleted, !.kill = run[a].kill]]
  /\ runs' = IF runs = a THEN None ELSE runs

\* _log_usage and _record are behind it; a deleted chat's answer is not saved.
FinishLogs(a) ==
  /\ run[a].at = "logs" /\ ~run[a].kill
  /\ IF run[a].deleted
     THEN Left(a, FALSE)
     ELSE run' = [run EXCEPT ![a].at = "reads"] /\ UNCHANGED runs
  /\ UNCHANGED <<store, question, reserved, users, closer, bounds>>

Stored(a, row) == IF a \in Shown THEN [kept EXCEPT ![a] = row] ELSE kept

\* The chat and the folders of what is cited are read for the save; the chat may be gone.
FinishReads(a) ==
  /\ run[a].at = "reads" /\ ~run[a].kill
  /\ run' = [run EXCEPT ![a].at = "saves"]
  /\ UNCHANGED <<store, question, runs, reserved, users, closer, bounds>>

FinishSaves(a) ==
  /\ run[a].at = "saves" /\ ~run[a].kill
  /\ kept' = Stored(a, [state |-> run[a].state, parts |-> run[a].saved])
  /\ run' = [run EXCEPT ![a].at = "saved"]
  /\ UNCHANGED <<exists, thread, to, question, runs, reserved, users, closer, bounds>>

\* Mutant: a part changed during the save is not saved again.
FinishEndsOnce(a) ==
  /\ run[a].at = "saved" /\ ~run[a].kill
  /\ Left(a, FALSE)
  /\ UNCHANGED <<store, question, reserved, users, closer, bounds>>

\* A part changed during the save: once more.  No await between this look and dropping the run.
FinishEnds(a) ==
  /\ run[a].at = "saved" /\ ~run[a].kill
  /\ IF run[a].parts # run[a].saved
     THEN run' = [run EXCEPT ![a].at = "saves", ![a].saved = run[a].parts] /\ UNCHANGED runs
     ELSE Left(a, FALSE)
  /\ UNCHANGED <<store, question, reserved, users, closer, bounds>>

\* The CancelledError of a Stop that timed out arrives in the turn: the answer ends as cancelled.
KilledInTurn(a) ==
  /\ run[a].at = "turn" /\ run[a].kill
  /\ run' = [run EXCEPT ![a].at = "cancels", ![a].state = "cancelled", ![a].kill = FALSE]
  /\ UNCHANGED <<store, question, runs, reserved, users, closer, bounds>>

\* It arrives before the save (its "finally" is not reached): the entry of _runs stays.
KilledInFinish(a) ==
  /\ run[a].at \in {"cancels", "tells", "logs"} /\ run[a].kill
  /\ asked' \in {asked, IF run[a].at = "cancels" THEN RowBecomes(a, "cancelled") ELSE asked}
  /\ run' = [run EXCEPT ![a].at = "ended"]
  /\ UNCHANGED <<store, future, runs, reserved, users, closer, bounds>>

\* A read or a write of the save fails: what is stored stays as it is.
SaveFails(a) ==
  /\ run[a].at \in {"reads", "saves"} /\ ~run[a].kill
  /\ Left(a, TRUE)
  /\ UNCHANGED <<store, question, reserved, users, closer, bounds>>

\* The CancelledError arrives in the reads: nothing is saved, and the "finally" drops the run.
KilledInReads(a) ==
  /\ run[a].at = "reads" /\ run[a].kill
  /\ Left(a, TRUE)
  /\ UNCHANGED <<store, question, reserved, users, closer, bounds>>

\* It arrives in the save: the thread's write is done, the message is not looked at again.
KilledInSave(a) ==
  /\ run[a].at \in {"saves", "saved"} /\ run[a].kill
  /\ kept' = IF run[a].at = "saves"
             THEN Stored(a, [state |-> run[a].state, parts |-> run[a].saved]) ELSE kept
  /\ Left(a, TRUE)
  /\ UNCHANGED <<exists, thread, to, question, reserved, users, closer, bounds>>

(***************************************************************************)
(* Stop and delete                                                         *)
(***************************************************************************)

StopRun(c, kind, a) == req' = [req EXCEPT ![c] = [NoRequest EXCEPT !.at = "stops", !.kind = kind, !.on = a]]

Stop(c) ==
  /\ Begin(c)
  /\ exists /\ runs # None
  /\ StopRun(c, "stop", runs)
  /\ run' = [run EXCEPT ![runs].stopping = TRUE]
  /\ UNCHANGED <<store, question, runs, reserved, acked, unheard, closer, restarts>>

Delete(c) ==
  /\ Begin(c)
  /\ exists
  /\ IF runs = None
     THEN /\ req' = [req EXCEPT ![c] = [NoRequest EXCEPT !.at = "removes", !.kind = "delete"]]
          /\ UNCHANGED run
     ELSE /\ StopRun(c, "delete", runs)
          /\ run' = [run EXCEPT ![runs].stopping = TRUE, ![runs].deleted = TRUE]
  /\ UNCHANGED <<store, question, runs, reserved, acked, unheard, closer, restarts>>

StopCancels(c) ==
  /\ req[c].at = "stops"
  /\ asked' = RowBecomes(req[c].on, "cancelled")
  /\ Go(c, IF asked[req[c].on] = "pending" THEN "stopTells" ELSE "waits")
  /\ UNCHANGED <<store, future, answering, acked, unheard, closer, bounds>>

StopTells(c) ==
  /\ req[c].at = "stopTells"
  /\ future' = Resolve(req[c].on, "stopped")
  /\ Go(c, "waits")
  /\ UNCHANGED <<store, asked, answering, acked, unheard, closer, bounds>>

\* The task has ended, in time or after it was cancelled.  A task that somebody else cancelled
\* passes its CancelledError on to who waits for it, and a delete ends there.
StopEnds(c) ==
  /\ req[c].at \in {"waits", "gathers"}
  /\ run[req[c].on].at = "ended"
  /\ IF req[c].kind = "delete" /\ (req[c].at = "gathers" \/ ~run[req[c].on].kill)
     THEN Go(c, "removes") ELSE Over(c)
  /\ UNCHANGED <<store, question, answering, acked, unheard, closer, bounds>>

\* Mutant: after the timeout the task is waited for without being cancelled.
StopGathers(c) ==
  /\ req[c].at = "waits"
  /\ run[req[c].on].at # "ended"
  /\ Go(c, "gathers")
  /\ UNCHANGED <<store, question, answering, acked, unheard, closer, bounds>>

\* The engine ignored the interrupt for stop_timeout_s.
StopTimesOut(c) ==
  /\ req[c].at = "waits"
  /\ run[req[c].on].at # "ended"
  /\ run' = [run EXCEPT ![req[c].on].kill = TRUE]
  /\ Go(c, "gathers")
  /\ UNCHANGED <<store, question, runs, reserved, acked, unheard, closer, bounds>>

\* The rows of the chat go: messages and questions.
Remove(c) ==
  /\ req[c].at = "removes"
  /\ exists' = FALSE
  /\ thread' = <<>>
  /\ asked' = [a \in Answers |-> "none"]
  /\ Over(c)
  /\ UNCHANGED <<to, kept, future, answering, acked, unheard, closer, bounds>>

(***************************************************************************)
(* Parts that change: add_part and update_part                             *)
(***************************************************************************)

\* _parts.hold(message_id).
PartsFree(a) == \A d \in Requests : ~(req[d].at = "changes" /\ req[d].on = a)

\* While the run has its entry its message is changed, otherwise the stored one is read.
ChangePart(c, a) ==
  /\ Begin(c)
  /\ a \in Shown
  /\ run[a].at # "none"   \* parts to change are there, or added, once it has had a run
  /\ PartsFree(a)
  /\ IF runs = a
     THEN /\ run' = [run EXCEPT ![a].parts = @ \cup {c}]
          /\ acked' = [acked EXCEPT ![a] = @ \cup {c}]
          /\ UNCHANGED req
     ELSE /\ req' = [req EXCEPT ![c] = [NoRequest EXCEPT !.at = "changes", !.on = a, !.seen = kept[a]]]
          /\ UNCHANGED <<run, acked>>
  /\ UNCHANGED <<store, question, runs, reserved, unheard, closer, restarts>>

PartChanged(c) ==
  /\ req[c].at = "changes"
  /\ kept' = Stored(req[c].on, [req[c].seen EXCEPT !.parts = @ \cup {c}])
  /\ acked' = [acked EXCEPT ![req[c].on] = @ \cup {c}]
  /\ Over(c)
  /\ UNCHANGED <<exists, thread, to, question, answering, unheard, closer, bounds>>

\* Mutant: a checkpoint that was begun in the turn arrives when it likes.
CheckpointLate(a) ==
  /\ run[a].at # "none"
  /\ kept' = Stored(a, [state |-> "streaming", parts |-> run[a].parts])
  /\ UNCHANGED <<exists, thread, to, question, answering, users, closer, bounds>>

\* _checkpoint: what has streamed so far (a thread that writes also when the task is cancelled).
Checkpoint(a) ==
  /\ run[a].at = "turn"
  /\ kept' = Stored(a, [state |-> "streaming", parts |-> run[a].parts])
  /\ UNCHANGED <<exists, thread, to, question, answering, users, closer, bounds>>

(***************************************************************************)
(* close and the next start                                                *)
(***************************************************************************)

CloserGo(place) == closer' = [closer EXCEPT !.at = place]

Close ==
  /\ MayClose
  /\ closer.at = "open"
  /\ begun < MaxRequests /\ begun' = begun + 1
  /\ closer' = [CloserOpen EXCEPT !.at = IF runs = None THEN "over" ELSE "cancels", !.on = runs]
  /\ run' = [a \in Answers |-> IF a = runs THEN [run[a] EXCEPT !.closing = TRUE, !.stopping = TRUE] ELSE run[a]]
  /\ UNCHANGED <<store, question, runs, reserved, users, restarts>>

CloseCancels ==
  /\ closer.at = "cancels"
  /\ asked' = RowBecomes(closer.on, "cancelled")
  /\ CloserGo(IF asked[closer.on] = "pending" THEN "tells" ELSE "waits")
  /\ UNCHANGED <<store, future, answering, users, bounds>>

CloseTells ==
  /\ closer.at = "tells"
  /\ future' = Resolve(closer.on, "stopped")
  /\ CloserGo("waits")
  /\ UNCHANGED <<store, asked, answering, users, bounds>>

\* In time, or it was cancelled and its end is waited for, or no longer.
CloseEnds ==
  /\ \/ closer.at = "waits" /\ run[closer.on].at = "ended"
     \/ closer.at = "killed"
  /\ CloserGo("over")
  /\ UNCHANGED <<store, question, answering, users, bounds>>

\* Not in time: what was streamed is taken, saved as interrupted, and only then the task is cancelled.
CloseTimesOut ==
  /\ closer.at = "waits"
  /\ run[closer.on].at # "ended"
  /\ closer' = [closer EXCEPT !.at = "saves", !.seen = run[closer.on].parts]
  /\ UNCHANGED <<store, question, answering, users, bounds>>

CloseSaves ==
  /\ closer.at = "saves"
  /\ kept' = Stored(closer.on, [state |-> "interrupted", parts |-> closer.seen])
  /\ run' = [run EXCEPT ![closer.on].kill = @ \/ run[closer.on].at # "ended"]
  /\ closer' = [closer EXCEPT !.at = "killed", !.seen = {}]
  /\ UNCHANGED <<exists, thread, to, question, runs, reserved, users, bounds>>

\* Mutant: the next start leaves streaming answers as they are.
RecoveredAsKept == kept

\* interrupt_streaming.
Recovered == [a \in Answers |-> IF a \in Shown /\ kept[a].state = "streaming"
                                THEN [kept[a] EXCEPT !.state = "interrupted"] ELSE kept[a]]

\* The process ends at any moment, closed or not, and starts again.
Restart ==
  /\ restarts < MaxRestarts
  /\ restarts' = restarts + 1
  /\ kept' = Recovered
  /\ asked' = [a \in Answers |-> IF asked[a] = "pending" THEN "cancelled" ELSE asked[a]]
  /\ future' = [a \in Answers |-> IF asked[a] = "none" THEN "none" ELSE "gone"]
  /\ runs' = None
  /\ reserved' = FALSE
  /\ run' = [a \in Answers |-> IF to[a] = None THEN NoRun ELSE [NoRun EXCEPT !.at = "ended"]]
  /\ req' = [c \in Requests |-> NoRequest]
  /\ acked' = [a \in Answers |-> kept[a].parts]
  /\ unheard' = {}
  /\ closer' = CloserOpen
  /\ UNCHANGED <<exists, thread, to, begun>>

(***************************************************************************)
(* The specification                                                       *)
(***************************************************************************)
Sending(c) == Looked(c) \/ Insert(c) \/ Refused(c) \/ Start(c) \/ LateAnswered(c)

Answering(c) ==
  \/ Words(c) \/ SupersedeReads(c) \/ Supersede(c) \/ SupersedeTold(c)
  \/ Picked(c) \/ PickTold(c) \/ PickFails(c)

Stopping(c) == StopCancels(c) \/ StopTells(c) \/ StopEnds(c) \/ StopTimesOut(c) \/ Remove(c)

Finishing(a) ==
  \/ FinishCancels(a) \/ FinishTells(a) \/ FinishLogs(a) \/ FinishReads(a) \/ FinishSaves(a)
  \/ FinishEnds(a) \/ SaveFails(a)
  \/ KilledInTurn(a) \/ KilledInFinish(a) \/ KilledInReads(a) \/ KilledInSave(a)

AgentAsks(a) == Ask(a) \/ AskAdded(a) \/ AskDropped(a)

CloseGoesOn == CloseCancels \/ CloseTells \/ CloseEnds \/ CloseTimesOut \/ CloseSaves

Next ==
  \/ \E c \in Requests :
       \/ Send(c) \/ Stop(c) \/ Delete(c)
       \/ Sending(c) \/ Answering(c) \/ Stopping(c) \/ PartChanged(c)
       \/ \E a \in Answers :
            \/ Pick(c, a) \/ ChangePart(c, a)
            \/ \E kind \in {"regenerate", "resume", "edit"} : AskAgain(c, kind, a)
  \/ \E a \in Answers : TurnEnds(a) \/ Finishing(a) \/ AgentAsks(a) \/ Checkpoint(a)
  \/ Close \/ CloseGoesOn \/ Restart

Spec == Init /\ [][Next]_vars

\* The event loop runs every task that can go on, threads finish and timeouts run out; the
\* agent owes nothing, but that an interrupt, which a Stop awaits without a limit, returns.
Fairness ==
  /\ \A c \in Requests : WF_vars(Sending(c) \/ Answering(c) \/ Stopping(c) \/ PartChanged(c))
  /\ \A a \in Answers : WF_vars(Finishing(a))

FairSpec == Spec /\ Fairness

(***************************************************************************)
(* Properties                                                              *)
(***************************************************************************)
Alive == {a \in Answers : run[a].at \notin {"none", "ended"}}

\* "Chats between send accepted and run started (also answer ANSWERING)": a chat has one
\* answer at work, and nobody else on the way to starting one, however requests interleave;
\* a chat is reserved while, and only while, somebody is on that way.
OneAnswerAtATime ==
  /\ Cardinality(Alive) + Cardinality({c \in Requests : req[c].at \in {"asking", "inserted"}}) <= 1
  /\ \A a \in Alive : runs = a
  /\ reserved <=> \E c \in Requests : req[c].at \in {"asking", "inserted"}

\* Nothing ends the row of this answer any more in this life of SKAZ: its chat is being deleted,
\* or an exception (a disk error, or the CancelledError of a Stop or a close that ran out of time)
\* left the save of its end.
GivenUp(a) == run[a].deleted \/ run[a].cut

\* A stored answer that says "streaming" has a chat that says "answering": no answer is left
\* for the user to wait for in an idle chat, where it could not be asked again, but one whose
\* save was cut off; and that one too has left its chat free and been ended by the next start.
StreamingIsAnswering ==
  \A a \in Shown : (kept[a].state = "streaming" /\ ~GivenUp(a)) =>
    runs = a \/ \E c \in Requests : req[c].at = "inserted" /\ a \in req[c].list

\* "_finish saves the run's latest message (again if a change landed during its own save)
\* before the run is dropped", and later changes are one at a time: a change a request was told
\* of is stored.  Not while closing, nor when the save was cut off or the chat is being deleted.
ChangesAreKept ==
  ~Closing => \A a \in Shown : (runs # a /\ ~GivenUp(a)) => acked[a] \subseteq kept[a].parts

\* Somebody has taken the row of a's question and is about to tell its agent.
Telling(c, a) ==
  \/ req[c].at \in {"picked", "stopTells"} /\ req[c].on = a
  \/ req[c].at = "closed" /\ First(req[c].list) = a
AboutToTell(a) ==
  \/ \E c \in Requests : Telling(c, a)
  \/ run[a].at = "tells"
  \/ closer.at = "tells" /\ closer.on = a

\* The agent and the row of its question agree, whoever of an option, the user's own words, Stop,
\* close and the answer's own end was first: what the agent got is what the row says ...
HeardIsShown(a) ==
  /\ future[a] = "option" => asked[a] = "answered"
  /\ future[a] = "words" => asked[a] \in {"superseded", "late"}
  /\ future[a] = "stopped" => asked[a] \in {"cancelled", "late"}
\* ... an option the user sees as taken is the agent's, unless the agent has dropped its call ...
ShownIsHeard(a) ==
  asked[a] = "answered" => \/ future[a] \in {"option", "gone", "leaked"}
                           \/ \E c \in Requests : req[c].at = "picked" /\ req[c].on = a
\* ... and no agent waits for a row that is taken and nobody tells it of, unless its own run was
\* cancelled on the way to telling it.
NobodyWaitsInVain(a) ==
  future[a] = "waits" => \/ asked[a] = "pending" \/ AboutToTell(a)
                         \/ run[a].at = "ended" /\ run[a].kill
\* An error that the user gets for an option means that the agent dropped its call.
AgentHearsTheAnswer ==
  exists => /\ \A a \in Answers : HeardIsShown(a) /\ ShownIsHeard(a) /\ NobodyWaitsInVain(a)
            /\ \A c \in Requests, a \in Answers : req[c].at = "failed" /\ req[c].on = a => future[a] = "gone"

\* The user's own message while the agent waits for an answer: "the agent gets [it] and
\* answers that message".
OwnWordsAreHeard ==
  \A c \in unheard : req[c].at \in {"closing", "close", "closed"}

\* The stored answers of a chat behave as promised.
Thread == INSTANCE ChatThread WITH
  state <- [a \in Answers |-> IF a \in Shown THEN kept[a].state ELSE "absent"],
  doomed <- {a \in Answers : GivenUp(a)},
  closed <- {a \in Answers : Closing /\ a = closer.on}
ThreadKept == Thread!Spec

\* Every request returns: a Stop and a delete though the agent ignores them, a send, an option
\* and a changed part whatever they meet.
RequestsEnd == \A c \in Requests : ~Idle(c) ~> Idle(c)
===============================================================================
