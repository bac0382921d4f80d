------------------------------- MODULE WikiRun -------------------------------
(***************************************************************************)
(* One material on its way into the wiki: the job that writes it, the      *)
(* answers kept in its checkpoints, and its budget                         *)
(* (knowledge/ingest/: runner.py, checkpoints.py, execution.py, budget.py).*)
(*                                                                         *)
(* A run checks the recognition, asks the model for the Notes and for the  *)
(* Concepts, matches them with the wiki and writes the pages.  Every item  *)
(* of a streamed answer is kept at once; a later run of the same text      *)
(* takes the kept answers instead of asking.  Each call is paid from the   *)
(* portion of the budget that Add, Retry or Continue gave the job.         *)
(*                                                                         *)
(* How jobs are queued, started and stopped is IngestQueue's; here a job   *)
(* may be stopped, put back or killed between any two steps of its run.    *)
(***************************************************************************)
EXTENDS Integers, Sequences, FiniteSets

CONSTANTS
  Choices,       \* agent, model and reasoning, as chosen in Settings
  Unnamed,       \* the choices of an agent's default model
  Nobody,        \* no choice
  Ops,           \* what a run writes: the Notes, then the Concepts
  Budget,        \* characters of one portion; a request and an item are one each
  MaxAnswers,    \* limits.max_answers
  MaxBusy,       \* limits.transient_retries
  MaxItems,      \* bound: items of one operation
  MaxCalls,      \* bound: calls of a recognition check, and of a matching
  MaxTexts,      \* bound: versions of the text
  MaxPortions,   \* bound: Add, Retry and Continue
  MaxBreaks      \* bound: closes and crashes

ASSUME ChoicesNamed == Unnamed \subseteq Choices /\ Nobody \notin Choices
ASSUME SizesNat == {Budget, MaxAnswers, MaxBusy, MaxItems, MaxCalls, MaxTexts} \subseteq Nat
ASSUME OpsListed == Len(Ops) \in Nat \ {0}   \* there is something to write

VARIABLES
  material,   \* its text's version; whether its recognition is checked; is it there?
  row,        \* its row of wiki_checkpoints; no text: no row
  kept,       \* its rows of wiki_checkpoint_answers
  job,        \* its latest job, with the totals of that job's execution root
  run,        \* the run of the job, in memory
  page,       \* the text its page was written for, and the texts of the answers in it
  done,       \* history: the named choice that finished it last, with these answers
  portions,   \* portions given so far
  breaks      \* closes and crashes so far

store == <<row, kept>>
wiki == <<page, done>>
runVars == <<material, store, job, run, wiki, portions, breaks>>

NoRow == [text |-> 0, by |-> Nobody]
NoJob == [state |-> "none", choice |-> Nobody, spent |-> 0, completed |-> FALSE, told |-> 0,
          lost |-> FALSE]
NoPage == [text |-> 0, from |-> {}]
NotDone == [by |-> Nobody, answers |-> {}]

\* An answer: its items, numbered through the operation, and whether more will come.
Answer(items, more) ==
  [items |-> items, more |-> more, by |-> job.choice, text |-> run.text, portion |-> portions]
Kept(answer) == [op |-> run.op, after |-> run.taken, answer |-> answer]

NoRun == [stage |-> "none", at |-> "none", text |-> 0, op |-> 1, taken |-> <<>>, drafts |-> {},
          items |-> <<>>, saved |-> 0, attempt |-> 1, answers |-> 0, failures |-> 0, unsent |-> 0,
          changed |-> FALSE, more |-> FALSE, left |-> 0]

ItemsIn(answers) == UNION {{<<i, n>> : n \in 1 .. Len(answers[i].items)} : i \in DOMAIN answers}
TakenItems == Cardinality(ItemsIn(run.taken))   \* operation.kept

\* The number of the operation's last item.
Last ==
  LET shown == run.items \o
               IF run.taken = <<>> THEN <<>> ELSE run.taken[Len(run.taken)].items
      numbers == {shown[i] : i \in DOMAIN shown} \cup {0}
  IN  CHOOSE n \in numbers : \A m \in numbers : m <= n

RunInit ==
  /\ material \in [text : {1}, checked : BOOLEAN, at : {"here"}]
  /\ row = NoRow /\ kept = {}
  /\ job = NoJob
  /\ run = NoRun /\ page = NoPage /\ done = NotDone
  /\ portions = 0 /\ breaks = 0

-----------------------------------------------------------------------------
(* The job *)

Pending == job.state \in {"queued", "running"}
Running == job.state = "running"
Keeps == job.choice \notin Unnamed   \* self.checkpoints is there: the model has a name

\* The call that is open ends, and its item pieces are charged (ExecutionScope.finish).
Streamed == IF run.at = "open" THEN Len(run.items) ELSE 0
Charged(extra) == [job EXCEPT !.spent = @ + Streamed + extra]

EndJob(charged, state, told) ==
  /\ job' = [charged EXCEPT !.state = state, !.told = told]
  /\ run' = NoRun
Fail(told) == EndJob(Charged(0), "failed", told)

\* Add to wiki, Retry or Continue: a new job, which is its own root.
Add(c) ==
  /\ ~Pending /\ material.at = "here" /\ portions < MaxPortions
  /\ job' = [NoJob EXCEPT !.state = "queued", !.choice = c, !.lost = c \in Unnamed]
  /\ portions' = portions + 1
  /\ UNCHANGED <<material, store, run, wiki, breaks>>

\* The queue claims the job; execute() looks at the material.
Begin ==
  /\ job.state = "queued"
  /\ IF material.at = "gone"
       THEN EndJob(job, "failed", 0)
       ELSE \E n \in 1 .. MaxCalls :
              /\ job' = [job EXCEPT !.state = "running"]
              /\ run' = IF material.checked
                          THEN [NoRun EXCEPT !.stage = "read"]
                          ELSE [NoRun EXCEPT !.stage = "check", !.at = "ask", !.left = n]
  /\ UNCHANGED <<material, store, wiki, portions, breaks>>

\* The first step of an operation.
Step(r, op) == [r EXCEPT !.stage = "write", !.at = "look", !.op = op, !.taken = <<>>,
                         !.items = <<>>, !.saved = 0, !.answers = 0]

\* Mutant: another text does not clear the answers.
PreparedForAnyText(text, by) ==
  IF row.by \notin {Nobody, by} THEN [row |-> [text |-> text, by |-> Nobody], kept |-> {}]
  ELSE [row |-> [row EXCEPT !.text = text], kept |-> kept]

\* Mutant: who has finished the material is not looked at.
PreparedForAnyone(text, by) ==
  IF row.text \notin {0, text} THEN [row |-> [text |-> text, by |-> Nobody], kept |-> {}]
  ELSE [row |-> [row EXCEPT !.text = text], kept |-> kept]

\* Checkpoints.prepare: answers of another text go, and so do those of a material that
\* another choice has finished.
Prepared(text, by) ==
  IF row.text \notin {0, text}
    THEN [row |-> [text |-> text, by |-> Nobody], kept |-> {}]
  ELSE IF row.by \notin {Nobody, by}
    THEN [row |-> [row EXCEPT !.by = Nobody], kept |-> {}]
  ELSE [row |-> [row EXCEPT !.text = text], kept |-> kept]

\* The text is read (the code reads it before the check, and again if that corrected it: an edit
\* during any other check comes after Read here), and the checkpoints are prepared for it.
Read ==
  /\ Running /\ run.stage = "read"
  /\ IF material.at = "gone"
       THEN Fail(0) /\ UNCHANGED <<store, done>>
       ELSE LET now == Prepared(material.text, job.choice)
            IN  /\ run' = Step([run EXCEPT !.text = material.text], 1)
                /\ IF Keeps
                     THEN /\ row' = now.row /\ kept' = now.kept
                          /\ done' = IF now.kept = {} THEN NotDone ELSE done
                          /\ job' = IF now.kept = kept THEN job
                                    ELSE [job EXCEPT !.lost = @ \/ job.spent > 0]
                     ELSE UNCHANGED <<store, job, done>>
  /\ UNCHANGED <<material, page, portions, breaks>>

-----------------------------------------------------------------------------
(* Notes and Concepts (_answers) *)

\* Mutant: a missing row is no reason to raise.
CanPutAnew == row.text \in {0, run.text}

\* Checkpoints.put.  The row is gone with its material, or belongs to another text: it raises.
CanPut == row.text = run.text

Put(answer) ==
  /\ kept' = {k \in kept : <<k.op, k.after>> # <<run.op, run.taken>>} \cup {Kept(answer)}
  /\ row' = IF run.changed THEN row ELSE [row EXCEPT !.by = Nobody]

\* Mutant: a repeated answer clears every answer.
DiscardAll == kept' = {} /\ UNCHANGED row

\* Checkpoints.discard: what this step has in the checkpoints.
Discard == kept' = {k \in kept : <<k.op, k.after>> # <<run.op, run.taken>>} /\ UNCHANGED row

\* The answer after that is the same again.
Repeats(answer) ==
  run.taken # <<>> /\ LET before == run.taken[Len(run.taken)]
                      IN  answer.items = before.items /\ answer.more = before.more

\* After the last answer of an operation: the next one, or the matching and the writing.
Onward(r, calls) ==
  IF r.op < Len(Ops) THEN Step(r, r.op + 1)
  ELSE [r EXCEPT !.stage = IF calls = 0 THEN "save" ELSE "match", !.at = "ask", !.left = calls]

\* The answer belongs to the draft; what comes after it.
Took(answer, count, calls) ==
  LET r == [run EXCEPT !.taken = Append(@, answer), !.drafts = @ \cup {answer}, !.at = "look",
                       !.items = <<>>, !.saved = 0, !.attempt = 1, !.answers = @ + count]
  IN  IF answer.more THEN r ELSE Onward(r, calls)

\* The checkpoint of this step, if it has one: taken as if the model had answered it.
Reusable == {k \in kept : Keeps /\ CanPut /\ <<k.op, k.after>> = <<run.op, run.taken>>}

Reuse ==
  /\ Running /\ run.at = "look"
  /\ \E k \in Reusable, calls \in 0 .. MaxCalls :
       IF run.answers = MaxAnswers
         THEN Fail(0) /\ UNCHANGED store
       ELSE IF Repeats(k.answer)
         THEN Fail(0) /\ Discard
       ELSE /\ run' = Took(k.answer, 1, calls)
            /\ UNCHANGED <<store, job>>
  /\ UNCHANGED <<material, wiki, portions, breaks>>

\* Nothing is kept for this step: the model is asked.
Look ==
  /\ Running /\ run.at = "look" /\ Reusable = {}
  /\ IF run.answers = MaxAnswers
       THEN Fail(0)
       ELSE run' = [run EXCEPT !.at = "ask", !.answers = @ + 1] /\ UNCHANGED job
  /\ UNCHANGED <<material, store, wiki, portions, breaks>>

\* What the job's end says is kept, of items that are.
Told(items) == IF Keeps /\ run.stage = "write" THEN items ELSE 0

\* Mutant: a step that is too big for a whole portion pauses too.
PauseAlways ==
  EndJob(Charged(0), "paused", Told(TakenItems + IF run.at = "open" THEN Len(run.items) ELSE 0))

\* IngestRun._budget: a pause when some call of the portion was completed, or an item came.
OutOfBudget ==
  LET shown == IF run.at = "open" THEN Len(run.items) ELSE 0
  IN  IF job.completed \/ shown > 0
        THEN EndJob(Charged(0), "paused", Told(TakenItems + shown))
        ELSE Fail(0)

\* run_wiki_turn: a request the portion cannot pay is not sent; another is charged at once.
Ask ==
  /\ Running /\ run.at = "ask" /\ run.stage # "save"
  /\ IF job.spent + 1 > Budget
       THEN OutOfBudget
       ELSE job' = [job EXCEPT !.spent = @ + 1] /\ run' = [run EXCEPT !.at = "open"]
  /\ UNCHANGED <<material, store, wiki, portions, breaks>>

Streaming == Running /\ run.at = "open" /\ run.stage = "write"

\* _Live.feed: an item is complete, and kept at once under the key of its step.
Item(n) ==
  /\ Streaming /\ n \in {Last, Last + 1} \ {0} /\ Len(run.items) < MaxItems
  /\ IF job.spent + Len(run.items) > Budget
       THEN OutOfBudget /\ UNCHANGED store
     ELSE IF Keeps /\ ~CanPut
       THEN EndJob(Charged(1), "failed", 0) /\ UNCHANGED store
     ELSE LET items == Append(run.items, n)
          IN  /\ run' = [run EXCEPT !.items = items, !.changed = Keeps,
                                    !.saved = IF Keeps THEN Len(items) ELSE 0]
              /\ IF Keeps THEN Put(Answer(items, TRUE)) ELSE UNCHANGED store
              /\ UNCHANGED job
  /\ UNCHANGED <<material, wiki, portions, breaks>>

\* RepeatGuard: the answer goes round in circles.
Circles ==
  /\ Streaming /\ Last > 0 /\ job.spent + Len(run.items) <= Budget
  /\ EndJob(Charged(1), "failed", Told(TakenItems + Len(run.items)))
  /\ UNCHANGED <<material, store, wiki, portions, breaks>>

\* The answer is there: it is taken, unless it is the one before over again.
Take(answer, charged, failures) ==
  IF Repeats(answer)
    THEN /\ EndJob(charged, "failed", Told(TakenItems))
         /\ IF Keeps THEN Discard ELSE UNCHANGED store
    ELSE /\ job' = charged
         /\ run' = [run EXCEPT !.at = "keep", !.more = answer.more, !.failures = failures, !.unsent = 0]
         /\ UNCHANGED store

Completed == [Charged(0) EXCEPT !.completed = TRUE]

Answered(more) ==
  /\ Streaming
  /\ Take(Answer(run.items, more), Completed, 0)
  /\ UNCHANGED <<material, wiki, portions, breaks>>

\* Not in the expected format: one repair is asked for.
Malformed ==
  /\ Streaming
  /\ LET paid == [Completed EXCEPT !.lost = TRUE]
     IN  IF run.attempt = 2
           THEN EndJob(paid, "failed", Told(TakenItems + run.saved))
         ELSE IF run.answers = MaxAnswers
           THEN EndJob(paid, "failed", 0)
         ELSE /\ job' = paid
              /\ run' = [run EXCEPT !.at = "ask", !.items = <<>>, !.attempt = 2, !.answers = @ + 1,
                                    !.failures = 0, !.unsent = 0]
  /\ UNCHANGED <<material, store, wiki, portions, breaks>>

\* The call breaks after it may have been sent: once the run goes on by itself, from the
\* finished items if there are any.
Breaks ==
  /\ Running /\ run.at = "open"
  /\ IF run.failures = 1
       THEN EndJob(Charged(0), "failed", Told(TakenItems + Len(run.items))) /\ UNCHANGED store
     ELSE IF run.items # <<>>
       THEN Take(Answer(run.items, TRUE), Charged(0), 1)
     ELSE /\ run' = [run EXCEPT !.at = "ask", !.failures = 1]
          /\ UNCHANGED <<store, job>>
  /\ UNCHANGED <<material, wiki, portions, breaks>>

\* The agent is busy, nothing was sent: asked again a few times.
Busy ==
  /\ Running /\ run.at = "open" /\ run.items = <<>>
  /\ IF run.unsent < MaxBusy
       THEN run' = [run EXCEPT !.at = "ask", !.unsent = @ + 1] /\ UNCHANGED job
       ELSE Fail(0)
  /\ UNCHANGED <<material, store, wiki, portions, breaks>>

\* A limit, a sign-in, an agent that is not compatible (STOP_KINDS).
Refused ==
  /\ Running /\ run.at = "open"
  /\ Fail(0)
  /\ UNCHANGED <<material, store, wiki, portions, breaks>>

\* The consumer has checked the answer; it is kept whole.
Keep ==
  /\ Running /\ run.at = "keep"
  /\ IF Keeps /\ ~CanPut
       THEN Fail(0) /\ UNCHANGED store
       ELSE LET answer == Answer(run.items, run.more)
            IN  \E calls \in 0 .. MaxCalls :
                  /\ run' = [Took(answer, 0, calls) EXCEPT !.changed = Keeps]
                  /\ IF Keeps THEN Put(answer) ELSE UNCHANGED store
                  /\ UNCHANGED job
  /\ UNCHANGED <<material, wiki, portions, breaks>>

\* No statement of the Notes passed the source check (Checkpoints.clear).
NothingPasses ==
  /\ Running /\ run.stage = "write" /\ run.at = "look" /\ run.op = 2 /\ run.taken = <<>>
  /\ Fail(0)
  /\ kept' = IF Keeps THEN {} ELSE kept
  /\ UNCHANGED <<material, row, wiki, portions, breaks>>

-----------------------------------------------------------------------------
(* Recognition check, matching and writing *)

\* An answer of the recognition check or of the matching: used, but kept nowhere before the
\* last one.  After the check the text may be a corrected one.
PlainAnswered ==
  /\ Running /\ run.at = "open" /\ run.stage \in {"check", "match"}
  /\ job' = [Completed EXCEPT !.lost = TRUE]
  /\ IF run.left > 1
       THEN /\ run' = [run EXCEPT !.at = "ask", !.left = @ - 1, !.failures = 0, !.unsent = 0]
            /\ UNCHANGED material
     ELSE IF run.stage = "match"
       THEN run' = [run EXCEPT !.stage = "save"] /\ UNCHANGED material
     ELSE /\ run' = [run EXCEPT !.stage = "read", !.failures = 0]
          /\ \E text \in {material.text, material.text + 1} \cap 1 .. MaxTexts :
               material' = [material EXCEPT !.checked = TRUE, !.text = text]
  /\ UNCHANGED <<store, wiki, portions, breaks>>

\* WikiWriter.write, under the library's write lock.
Save ==
  /\ Running /\ run.stage = "save"
  /\ IF material.at = "gone"
       THEN Fail(0) /\ UNCHANGED page
       ELSE /\ page' = [text |-> run.text, from |-> {a.text : a \in run.drafts}]
            /\ run' = [run EXCEPT !.stage = "saved", !.at = "none"]
            /\ UNCHANGED job
  /\ UNCHANGED <<material, store, done, portions, breaks>>

\* Checkpoints.finished, and the end of the job.
Finish ==
  /\ Running /\ run.stage = "saved"
  /\ row' = IF Keeps /\ CanPut THEN [row EXCEPT !.by = job.choice] ELSE row
  /\ done' = IF Keeps THEN [by |-> job.choice, answers |-> run.drafts] ELSE done
  /\ EndJob(job, "done", 0)
  /\ UNCHANGED <<material, kept, page, portions, breaks>>

-----------------------------------------------------------------------------
(* Around the run *)

Stop ==
  /\ Pending /\ run.stage # "saved"
  /\ EndJob(Charged(0), "cancelled", 0)
  /\ UNCHANGED <<material, store, wiki, portions, breaks>>

\* What the run was paid for and has not kept is asked again.
PutBack(charged) ==
  /\ breaks < MaxBreaks /\ breaks' = breaks + 1
  /\ EndJob([charged EXCEPT !.lost = @ \/ run.at = "keep"], "queued", 0)
  /\ UNCHANGED <<material, store, wiki, portions>>

\* close(): the job goes back to the queue, the open call is charged.
Close == Running /\ run.stage # "saved" /\ PutBack(Charged(0))

\* A crash: what the open call has streamed is charged to nobody; the next start requeues.
Crash == Running /\ PutBack(job)

\* The user corrects the text, leaves fragments out or renames the material.
Edit ==
  /\ material.at = "here" /\ material.text < MaxTexts
  /\ material' = [material EXCEPT !.text = @ + 1]
  /\ UNCHANGED <<store, job, run, wiki, portions, breaks>>

\* A material is deleted when no job of it runs; its rows and its page go with it.  A queued
\* job may start between the look and the deletion (the user meanwhile waits for the latter).
AskDelete ==
  /\ material.at = "here" /\ ~Running
  /\ material' = [material EXCEPT !.at = "deleting"]
  /\ UNCHANGED <<store, job, run, wiki, portions, breaks>>

Delete ==
  /\ material.at = "deleting"
  /\ material' = [material EXCEPT !.at = "gone"]
  /\ row' = NoRow /\ kept' = {} /\ page' = NoPage /\ done' = NotDone
  /\ UNCHANGED <<job, run, portions, breaks>>

Next ==
  \/ \E c \in Choices : Add(c)
  \/ Begin \/ Read
  \/ Reuse \/ Look \/ Ask
  \/ \E n \in 1 .. MaxItems : Item(n)
  \/ Circles \/ (\E more \in BOOLEAN : Answered(more))
  \/ Malformed \/ Breaks \/ Busy \/ Refused \/ Keep \/ NothingPasses
  \/ PlainAnswered \/ Save \/ Finish
  \/ Stop \/ Close \/ Crash
  \/ Edit \/ AskDelete \/ Delete

Spec == RunInit /\ [][Next]_runVars

-----------------------------------------------------------------------------
(* Properties *)

\* A page is made of answers about one text, the one its run has read: what was kept of an
\* older text of the material never gets into it (checkpoints.py, prepare and entry).
OneText == page.from \subseteq {page.text}

\* The page of a deleted material does not come back, and nothing of it stays kept, though
\* its job may run when it is deleted (put, the writer).
GoneIsGone == material.at = "gone" => page = NoPage /\ kept = {} /\ row = NoRow

\* The material was finished with another choice, and nothing was kept since.
StartsOver == done.by \notin {Nobody, job.choice} /\ {k.answer : k \in kept} \subseteq done.answers

\* A run of an unchanged text starts over exactly when the material was finished with
\* another choice and nothing was kept since; the work of a stopped run stays, whoever goes
\* on (checkpoints.py:10, "after a stop, another choice continues from the finished answers
\* ... Once a material finished, another choice starts it over").
NewWorkDecides ==
  [][Read /\ Keeps /\ row.text = material.text => kept' = IF StartsOver THEN {} ELSE kept]_runVars

\* The items a run of this step would find in the checkpoints.
Found(answers) ==
  LET at(k) == k.op = run.op /\ \/ k.after = run.taken
                                \/ \E i \in DOMAIN run.taken : /\ k.after = SubSeq(run.taken, 1, i - 1)
                                                               /\ k.answer = run.taken[i]
  IN  Cardinality(UNION {{<<Len(k.after), n>> : n \in DOMAIN k.answer.items} : k \in {k \in answers : at(k)}})

\* A job that ends with "n items are kept: Retry continues from them" has kept them, in
\* rows that a next run of the same text finds (runner.py, _kept_note and _repeating).
ToldIsKept ==
  [][Running /\ job'.state \in {"failed", "paused"} /\ material.at # "gone" => job'.told <= Found(kept')]_runVars

\* A pause moves the material forward: the portion has paid for work that is now kept
\* (budget.py:45), unless some answer it paid is kept nowhere.
PausesMoveOn ==
  [][Running /\ job'.state = "paused" /\ ~job.lost /\ material.at # "gone"
     => \E k \in kept' : k.answer.portion = portions]_runVars
==============================================================================
