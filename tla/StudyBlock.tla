----------------------------- MODULE StudyBlock -----------------------------
(***************************************************************************)
(* A study block of a chat, a deck of cards or a test, and the calls that  *)
(* change it at the same time (knowledge/study/service.py).                *)
(*                                                                         *)
(* Each call runs in a worker thread and holds the block's lock            *)
(* (KeyedThreadLocks) while it reads, changes and writes the block's rows; *)
(* each read and each write is a step of its own.  The check of an open    *)
(* answer by the agent, and the recheck of a key idea, are tasks of the    *)
(* event loop that hand their writes to such threads.  The other keys of   *)
(* the locks stand for the other users of that class, one of which may     *)
(* time out (speech/projector.py).                                         *)
(*                                                                         *)
(* A card's state is the set of the calls it has taken in; an open         *)
(* question has one key idea, which the review finds covered or not.       *)
(***************************************************************************)
EXTENDS KeyedThreadLocks, Sequences

CONSTANTS
  Block,         \* the block: a key of the locks
  Workers,       \* threads that run the block's calls
  Open, Closed,  \* questions the agent checks, and questions the code checks
  Cards,
  Nothing,       \* no job, nothing read, no item
  MaxCalls,      \* bound: calls of the user, for a deck and for a test
  MaxAttempts    \* bound: attempts of a test

ASSUME BlockIsKey == Block \in Keys /\ Workers \subseteq Threads

VARIABLES
  kind,      \* "deck" or "test"
  attempts,  \* study_attempts, oldest first
  current,   \* state["attempt"]
  over,      \* state["finished"]
  pending,   \* state["pending"]: what the cards of an unsaved deck have taken in
  saved,     \* save_status is "saved", and there is a page_id
  pages,     \* pages written for the block
  cards,     \* study_cards
  judging,   \* _judging
  tasks,     \* checks and rechecks under way
  job,       \* the call a thread runs
  step,      \* how far it is
  saw,       \* what it has read
  calls      \* calls of the user so far, which number them

locks == <<entry, owner, pc, key, ref>>
test == <<attempts, current, over>>
deck == <<pending, saved, pages, cards>>
loop == <<judging, tasks>>
work == <<job, step, saw>>
studyVars == <<locks, kind, test, deck, loop, work, calls>>

Questions == Open \cup Closed
ASSUME QuestionsFinite == IsFiniteSet(Questions)

\* of: the attempt it was given in.  again: its idea is being rechecked.
Entry(at, of, right) == [at |-> at, of |-> of, right |-> right, byUser |-> FALSE, again |-> FALSE]
NoAnswer == Entry("none", 0, FALSE)

\* An idea counts when the agent or the user says that it was said.
Right(e) == e.at \in {"closed", "reviewed"} /\ (e.right \/ e.byUser)
SumOf(a) == Cardinality({q \in a.order : Right(a.answers[q])})
Mistakes(a) == {q \in a.order : ~Right(a.answers[q])}

\* _total: a finished attempt's total follows its answers.
Totalled(a) == IF a.finished THEN [a EXCEPT !.correct = SumOf(a)] ELSE a

Attempt(order) == [order |-> order, answers |-> [q \in Questions |-> NoAnswer],
                   finished |-> FALSE, correct |-> 0]

StudyInit ==
  /\ Init
  /\ kind \in {"deck", "test"}
  /\ attempts = <<Attempt(Questions)>> /\ current = 1 /\ over = FALSE
  /\ saved \in {FALSE, kind = "deck"}           \* a deck opened from its page is saved
  /\ pages = IF saved THEN 1 ELSE 0
  /\ pending = [c \in Cards |-> {}] /\ cards = pending
  /\ judging = {} /\ tasks = {}
  /\ job = [t \in Threads |-> Nothing] /\ step = job /\ saw = job
  /\ calls = 0

(***************************************************************************)
(* The calls                                                               *)
(***************************************************************************)

Job(op, item, of, right, id) == [op |-> op, item |-> item, of |-> of, right |-> right, id |-> id]

\* A worker thread enters the call and asks for the block's lock.
Enter(t, j) ==
  /\ t \in Workers /\ job[t] = Nothing
  /\ Register(t, Block)
  /\ job' = [job EXCEPT ![t] = j] /\ step' = [step EXCEPT ![t] = "look"]
  /\ UNCHANGED <<kind, test, deck, saw>>

Called == calls < MaxCalls[kind] /\ calls' = calls + 1

\* What the window offers: a question has not been answered, or not being checked, in an attempt
\* that is not finished; an idea has a review; the result offers a retake.
Offered(q, at) ==
  kind = "test" /\ ~over /\ q \in attempts[current].order /\ attempts[current].answers[q].at \in at
Reviewed(q) == kind = "test" /\ attempts[current].answers[q].at = "reviewed"

\* answer() of a question the code checks.
AnswerClosed(t) ==
  /\ Called /\ UNCHANGED loop
  /\ \E q \in Closed, right \in BOOLEAN : Offered(q, {"none"}) /\ Enter(t, Job("answer", q, 0, right, 0))

\* The user counts a key idea as said, or takes that back.
CountIdea(t) ==
  /\ Called /\ UNCHANGED loop
  /\ \E q \in Open, counted \in BOOLEAN : Reviewed(q) /\ Enter(t, Job("count", q, 0, counted, 0))

\* finish(), and retake() of all questions or of the mistakes only.
Finish(t) ==
  /\ kind = "test" /\ ~over /\ Called /\ UNCHANGED loop
  /\ Enter(t, Job("finish", Nothing, 0, TRUE, 0))

Retake(t) ==
  /\ kind = "test" /\ over /\ Called /\ UNCHANGED loop
  /\ LET retakes == {u \in Threads : job[u] # Nothing /\ job[u].op = "retake"}
     IN  Len(attempts) + Cardinality(retakes) < MaxAttempts
  /\ \E mistakes \in BOOLEAN : Enter(t, Job("retake", Nothing, 0, mistakes, 0))

\* A grade, alone or in a pass; a mark; the user allows to save.
Study(t) ==
  /\ kind = "deck" /\ Called /\ UNCHANGED loop
  /\ \E op \in {"grade", "mark"}, c \in Cards : Enter(t, Job(op, c, 0, TRUE, calls'))

Save(t) ==
  /\ kind = "deck" /\ ~saved /\ Called /\ UNCHANGED loop
  /\ Enter(t, Job("save", Nothing, 0, TRUE, 0))

\* check_open and recheck_idea begin on the loop.
Task(what, q, of, at) ==
  [kind |-> what, item |-> q, of |-> of, at |-> at, right |-> FALSE, id |-> calls']
KeyOf(w) == <<w.kind, w.of, w.item>>

CheckOpen(q) ==
  /\ Offered(q, {"none", "said", "reviewed", "failed"}) /\ Called
  /\ tasks' = tasks \cup {Task("check", q, 0, "say")}
  /\ UNCHANGED <<locks, kind, test, deck, judging, work>>

RecheckIdea(q) ==
  /\ Reviewed(q) /\ Called
  /\ LET w == Task("recheck", q, current, "flag")
     IN  KeyOf(w) \notin judging /\ judging' = judging \cup {KeyOf(w)} /\ tasks' = tasks \cup {w}
  /\ UNCHANGED <<locks, kind, test, deck, work>>

(***************************************************************************)
(* A call in its thread                                                    *)
(***************************************************************************)

\* Mutant: the call does not wait for the lock.
Unlocked(t) == pc[t] \in {"acquire", "taken"} /\ job[t] # Nothing

Holds(t) == pc[t] = "taken" /\ job[t] # Nothing

At(t, s) == Holds(t) /\ step[t] = s
Goes(t, s) == step' = [step EXCEPT ![t] = s]

\* The attempt the call is for is an earlier one; there is no review to change; nothing to retake.
Late(j) == j.of # 0 /\ j.of # current
NoReview(j) == j.op \in {"count", "reflag", "idea"} /\ attempts[current].answers[j.item].at # "reviewed"
NoMistakes(j) == j.op = "retake" /\ j.right /\ Mistakes(attempts[current]) = {}

\* Mutants: a late review is kept; a saved deck is saved again.
LateIsKept(j) == NoReview(j) \/ NoMistakes(j) \/ (j.op = "save" /\ saved)
SavedAgain(j) == Late(j) \/ NoReview(j) \/ NoMistakes(j)

Refused(j) == Late(j) \/ NoReview(j) \/ NoMistakes(j) \/ (j.op = "save" /\ saved)

FirstWrite(op) ==
  CASE op = "retake" -> "clear"
    [] op = "save" -> "page"
    [] op \in {"grade", "mark"} -> IF saved THEN "cards" ELSE "show"
    [] OTHER -> "put"

\* The block, its current attempt and the cards are read.
Look(t) ==
  /\ At(t, "look")
  /\ saw' = [saw EXCEPT ![t] = IF kind = "test" THEN [n |-> current, attempt |-> attempts[current]]
                                               ELSE [pending |-> pending, cards |-> cards]]
  /\ Goes(t, IF Refused(job[t]) THEN "refused" ELSE FirstWrite(job[t].op))
  /\ UNCHANGED <<locks, kind, test, deck, loop, job, calls>>

\* retake: the block is no longer finished.
Clear(t) ==
  /\ At(t, "clear") /\ Goes(t, "put")
  /\ over' = FALSE
  /\ UNCHANGED <<locks, kind, attempts, current, deck, loop, job, saw, calls>>

\* What a call makes of the answer e of attempt n.
Changed(j, e, n) ==
  CASE j.op = "answer" -> Entry("closed", n, j.right)
    [] j.op = "say"    -> Entry("said", n, FALSE)
    [] j.op = "flag"   -> Entry("checking", n, FALSE)
    [] j.op = "review" -> Entry("reviewed", j.of, j.right)
    [] j.op = "fail"   -> Entry("failed", j.of, FALSE)
    [] j.op = "count"  -> [e EXCEPT !.byUser = j.right]
    [] j.op = "reflag" -> [e EXCEPT !.again = TRUE]
    [] j.op = "idea"   -> [e EXCEPT !.again = FALSE, !.right = @ \/ j.right]

\* put_attempt: the whole attempt is written.
Put(t) ==
  /\ At(t, "put")
  /\ LET j == job[t]
         n == saw[t].n
         a == saw[t].attempt
     IN  /\ attempts' =
              CASE j.op = "finish" -> [attempts EXCEPT ![n] = Totalled([a EXCEPT !.finished = TRUE])]
                [] j.op = "retake" ->
                     Append(attempts, Attempt(IF j.right THEN Mistakes(a) ELSE Questions))
                [] OTHER -> [attempts EXCEPT ![n] =
                               Totalled([a EXCEPT !.answers[j.item] = Changed(j, @, n)])]
         /\ Goes(t, IF j.op \in {"finish", "retake"} THEN "show" ELSE "done")
  /\ UNCHANGED <<locks, kind, current, over, deck, loop, job, saw, calls>>

\* save: the page is written.
WritePage(t) ==
  /\ At(t, "page") /\ Goes(t, "cards")
  /\ pages' = pages + 1
  /\ UNCHANGED <<locks, kind, test, pending, saved, cards, loop, job, saw, calls>>

Taken(t, held) == [held EXCEPT ![job[t].item] = @ \cup {job[t].id}]

\* put_cards: a grade or a mark of a saved card, or what waited for the deck to be saved.
PutCards(t) ==
  /\ At(t, "cards")
  /\ LET c == job[t].item
     IN  cards' = IF job[t].op = "save"
                  THEN [d \in Cards |-> IF saw[t].pending[d] = {} THEN cards[d] ELSE saw[t].pending[d]]
                  ELSE [cards EXCEPT ![c] = Taken(t, saw[t].cards)[c]]
  /\ Goes(t, IF job[t].op = "mark" THEN "done" ELSE "show")
  /\ UNCHANGED <<locks, kind, test, pending, saved, pages, loop, job, saw, calls>>

\* update_block: the whole state is written, or the page of a saved deck.
Show(t) ==
  /\ At(t, "show") /\ Goes(t, "done")
  /\ LET op == job[t].op
     IN  /\ over' = IF op \in {"finish", "retake"} THEN op = "finish" ELSE over
         /\ current' = IF op = "retake" THEN Len(attempts) ELSE current
         /\ saved' = (op = "save" \/ saved)
         /\ pending' = IF op \in {"grade", "mark"} /\ ~saved THEN Taken(t, saw[t].pending) ELSE pending
  /\ UNCHANGED <<locks, kind, attempts, pages, cards, loop, job, saw, calls>>

\* The lock is released.
Free(t) ==
  /\ Holds(t) /\ step[t] \in {"done", "refused"}
  /\ Release(t)
  /\ UNCHANGED <<kind, test, deck, loop, work, calls>>

(***************************************************************************)
(* The tasks of the loop                                                   *)
(***************************************************************************)

\* What is left of a task when its call returns: what it does next, or nothing.
After(w, t) ==
  CASE job[t].op = "say" -> {[w EXCEPT !.at = "said", !.of = saw[t].n]}
    [] job[t].op \in {"flag", "reflag"} /\ step[t] = "done" -> {[w EXCEPT !.at = "agent"]}
    [] OTHER -> {}

\* The call returns; a task that could not flag its question gives it up.
Return(t) ==
  /\ job[t] # Nothing /\ Leave(t)
  /\ LET mine == {w \in tasks : w.id = job[t].id}
     IN  /\ tasks' = (tasks \ mine) \cup UNION {After(w, t) : w \in mine}
         /\ judging' = judging \ {KeyOf(w) : w \in {v \in mine : v.at = "flag" /\ step[t] = "refused"}}
  /\ job' = [job EXCEPT ![t] = Nothing] /\ step' = [step EXCEPT ![t] = Nothing]
  /\ saw' = [saw EXCEPT ![t] = Nothing]
  /\ UNCHANGED <<kind, test, deck, calls>>

\* The write a task waits for.
OpOf(w) ==
  CASE w.at = "say" -> "say"
    [] w.at = "flag" -> IF w.kind = "check" THEN "flag" ELSE "reflag"
    [] w.at = "put" -> IF w.kind = "check" THEN "review" ELSE "idea"
    [] w.at = "failed" -> IF w.kind = "check" THEN "fail" ELSE "idea"

\* disk_call: a thread takes the write of a task.
Hand(t, w) ==
  /\ w.at \notin {"said", "agent"}
  /\ \A u \in Threads : job[u] # Nothing => job[u].id # w.id
  /\ Enter(t, Job(OpOf(w), w.item, w.of, w.right, w.id))
  /\ UNCHANGED <<loop, calls>>

\* check_open goes on unless this answer is being checked already.
Said(w) ==
  /\ w.at = "said"
  /\ tasks' = (tasks \ {w}) \cup IF KeyOf(w) \in judging THEN {} ELSE {[w EXCEPT !.at = "flag"]}
  /\ judging' = judging \cup {KeyOf(w)}
  /\ UNCHANGED <<locks, kind, test, deck, work, calls>>

\* Mutant: a failed check writes nothing.
JudgedOnly(w) ==
  /\ w.at = "agent"
  /\ \E right \in BOOLEAN, at \in {"put", "failed"} :
       tasks' = (tasks \ {w}) \cup IF at = "put" THEN {[w EXCEPT !.at = at, !.right = right]} ELSE {}
  /\ judging' = judging \ {KeyOf(w)}
  /\ UNCHANGED <<locks, kind, test, deck, work, calls>>

\* The agent's review, or its failure.
Judged(w) ==
  /\ w.at = "agent"
  /\ \E right \in BOOLEAN, at \in {"put", "failed"} :
       /\ right => at = "put"
       /\ tasks' = (tasks \ {w}) \cup {[w EXCEPT !.at = at, !.right = right]}
  /\ judging' = judging \ {KeyOf(w)}
  /\ UNCHANGED <<locks, kind, test, deck, work, calls>>

(***************************************************************************)
(* Calls without the block's lock                                          *)
(***************************************************************************)

\* The number of a mark on a deck's page.
OnPage == 0

\* A mark on the deck's page goes to the saved cards and holds nothing.
MarkOnPage(t) ==
  /\ t \in Workers /\ pc[t] = "idle" /\ job[t] = Nothing
  /\ kind = "deck" /\ pages > 0 /\ Called
  /\ \E c \in Cards : job' = [job EXCEPT ![t] = Job("outside", c, 0, TRUE, OnPage)]
  /\ saw' = [saw EXCEPT ![t] = [cards |-> cards]]
  /\ UNCHANGED <<locks, kind, test, deck, loop, step>>

MarkPut(t) ==
  /\ job[t] # Nothing /\ job[t].op = "outside"
  /\ cards' = [cards EXCEPT ![job[t].item] = Taken(t, saw[t].cards)[job[t].item]]
  /\ job' = [job EXCEPT ![t] = Nothing] /\ saw' = [saw EXCEPT ![t] = Nothing]
  /\ UNCHANGED <<locks, kind, test, pending, saved, pages, loop, step, calls>>

\* Another user of the locks.
Other(t) ==
  /\ job[t] = Nothing
  /\ (\E k \in Keys \ {Block} : Register(t, k)) \/ TimeOut(t) \/ Release(t) \/ Leave(t)
  /\ UNCHANGED <<kind, test, deck, loop, work, calls>>

Take(t) == Acquire(t) /\ UNCHANGED <<kind, test, deck, loop, work, calls>>

Ask(t) ==
  \/ AnswerClosed(t) \/ CountIdea(t) \/ Finish(t) \/ Retake(t)
  \/ Study(t) \/ Save(t) \/ MarkOnPage(t)
Run(t) == Look(t) \/ Clear(t) \/ Put(t) \/ WritePage(t) \/ PutCards(t) \/ Show(t) \/ Free(t) \/ Return(t)
Loop(w) == Said(w) \/ Judged(w) \/ \E t \in Workers : Hand(t, w)

StudyNext ==
  \/ \E t \in Threads : Ask(t) \/ Run(t) \/ MarkPut(t) \/ Take(t) \/ Other(t)
  \/ \E q \in Open : CheckOpen(q) \/ RecheckIdea(q)
  \/ \E w \in tasks : Loop(w)

StudySpec == StudyInit /\ [][StudyNext]_studyVars

(***************************************************************************)
(* Properties                                                              *)
(***************************************************************************)

Fresh == {Attempt(order) : order \in SUBSET Questions}

\* The rows of a test keep TestBook's promise: a change is to one answer of the attempt it was made
\* for, a finished attempt's total follows, and an earlier attempt stays as it was (C-04, M1, M7).
Book == INSTANCE TestBook WITH Total <- SumOf
BookKept == Book!Spec

Held(c) == IF saved THEN cards[c] ELSE pending[c]

\* No grade and no mark of the block is lost by another of its calls: before the deck is saved
\* it waits in the block, afterwards it is in the cards (C-04).  Only a mark on the deck's page,
\* which holds nothing, can overwrite it.
GradesStay ==
  [][\A c \in Cards : Held(c) \subseteq Held(c)' \cup {OnPage} \/ OnPage \in cards'[c]]_studyVars

\* A deck is saved to one page, however often and whenever Save is pressed (C-04).
SavedOnce == pages <= 1 /\ (saved => pages = 1)

\* An answer that shows it is being checked, or whose idea is being rechecked, has a task that
\* will write the result.
FlagsHaveTasks ==
  \A q \in Open :
    LET e == attempts[current].answers[q]
        Due(what) == \E w \in tasks :
          w.kind = what /\ w.item = q /\ w.of = current /\ w.at \notin {"say", "said"}
    IN  (e.at = "checking" => Due("check")) /\ (e.again => Due("recheck"))
=============================================================================
