-------------------------- MODULE StudyBlockProofs --------------------------
(***************************************************************************)
(* Theorems about StudyBlock, for any number of threads, calls, attempts,  *)
(* questions and cards.                                                    *)
(*                                                                         *)
(* The locks give one call at a time in the block.  What that call has     *)
(* read is therefore still so when it writes, but for the cards, which a   *)
(* mark on the deck's page may change at any moment: there the invariant   *)
(* says that whatever such a mark overwrites, it leaves its own number.    *)
(***************************************************************************)
EXTENDS StudyBlock, KeyedThreadLocksProofs

AnswerOps == {"answer", "say", "flag", "review", "fail", "count", "reflag", "idea"}
TestOps == AnswerOps \cup {"finish", "retake"}
DeckOps == {"grade", "mark", "save"}
Steps == {"look", "clear", "put", "page", "cards", "show", "done", "refused"}

Places == {"none", "closed", "said", "checking", "reviewed", "failed"}
Entries == [at : Places, of : Nat, right : BOOLEAN, byUser : BOOLEAN, again : BOOLEAN]
AttemptSet == [order : SUBSET Questions, answers : [Questions -> Entries],
               finished : BOOLEAN, correct : Nat]
Jobs == [op : TestOps \cup DeckOps \cup {"outside"}, item : Questions \cup Cards \cup {Nothing},
         of : Nat, right : BOOLEAN, id : Nat]
TaskSet == [kind : {"check", "recheck"}, item : Open, of : Nat,
            at : {"say", "said", "flag", "agent", "put", "failed"}, right : BOOLEAN, id : Nat]

Inside(t) == job[t] # Nothing /\ job[t].op # "outside"
Outside(t) == job[t] # Nothing /\ job[t].op = "outside"

Types ==
  /\ kind \in {"deck", "test"}
  /\ attempts \in Seq(AttemptSet) /\ current \in 1..Len(attempts)
  /\ pending \in [Cards -> SUBSET Nat] /\ cards \in [Cards -> SUBSET Nat]
  /\ saved \in BOOLEAN /\ calls \in Nat
  /\ tasks \subseteq TaskSet
  /\ job \in [Threads -> Jobs \cup {Nothing}]
  /\ step \in [Threads -> Steps \cup {Nothing}]
  /\ saw = [t \in Threads |-> saw[t]]

\* A call belongs to the kind of its block, and names what it is about.
JobFits(j) ==
  /\ j \in Jobs
  /\ j.op \in AnswerOps => j.item \in Questions
  /\ j.op \in {"grade", "mark", "outside"} => j.item \in Cards
  /\ j.op \in TestOps <=> kind = "test"
  /\ j.op \in {"review", "fail"} => j.of # 0
  /\ j.op = "outside" => j.id = OnPage
  /\ j.id <= calls

StepFits(op, s) ==
  /\ s \in Steps
  /\ s = "put" => op \in TestOps
  /\ s = "clear" => op = "retake"
  /\ s = "page" => op = "save"
  /\ s = "cards" => op \in DeckOps
  /\ s = "show" => op \in DeckOps \cup {"finish", "retake"}

JobsFit ==
  \A t \in Threads :
    /\ Outside(t) => pc[t] = "idle" /\ JobFits(job[t])
    /\ Inside(t) => /\ pc[t] \in {"acquire", "taken", "leave"} /\ key[t] = Block
                    /\ JobFits(job[t]) /\ StepFits(job[t].op, step[t])
                    /\ pc[t] = "acquire" => step[t] = "look"
                    /\ pc[t] = "leave" => step[t] # "look"

\* The number of the attempt a call of a test has read.
SawFits ==
  \A t \in Threads : Inside(t) /\ kind = "test" /\ step[t] # "look" => saw[t].n \in Nat \ {0}

\* A task has a number of its own, and knows its attempt once its answer is stored.
TasksFit ==
  /\ tasks # {} => kind = "test"
  /\ \A w \in tasks : w.id <= calls /\ (w.at # "say" => w.of # 0)
  /\ \A v, w \in tasks : v.id = w.id => v = w
  /\ \A t \in Threads, w \in tasks :
       job[t] # Nothing /\ job[t].id = w.id /\ job[t].op \in {"flag", "reflag"} => w.of # 0

\* The call in the block wrote nothing yet: its attempt is as it read it, and it was not refused.
BookFits ==
  /\ \A n \in 1..Len(attempts), q \in Questions :
       attempts[n].answers[q].at = "reviewed" => attempts[n].answers[q].of = n
  /\ \A t \in Threads : Holds(t) /\ kind = "test" /\ step[t] \in {"clear", "put"} =>
       /\ saw[t].n = current /\ saw[t].attempt = attempts[current]
       /\ job[t].of \in {0, current}
       /\ job[t].op \in {"count", "reflag", "idea"} =>
            attempts[current].answers[job[t].item].at = "reviewed"

Saving(t, s) == Holds(t) /\ job[t].op = "save" /\ step[t] \in s

PagesFit ==
  /\ pages = IF saved \/ \E t \in Threads : Saving(t, {"cards", "show"}) THEN 1 ELSE 0
  /\ \A t \in Threads : Saving(t, {"page", "cards", "show"}) => ~saved

\* Nothing is lost from a to b, or a mark on the page tells.
Safe(a, b) == a \subseteq b \cup {OnPage} \/ OnPage \in b

Marking(t) == Holds(t) /\ job[t].op \in {"grade", "mark"}

\* What is not saved yet is as the call in the block read it.
PendingRead ==
  \A t \in Threads : Holds(t) /\ kind = "deck" /\ step[t] \in {"page", "cards", "show"} =>
    saw[t].pending = pending

CardsRead ==
  \A t \in Threads : Outside(t) \/ (Marking(t) /\ step[t] = "cards") =>
    saw[t].cards \in [Cards -> SUBSET Nat]

\* What a mark on the page has read is still there.
MarksSafe == \A t \in Threads, c \in Cards : Outside(t) => Safe(saw[t].cards[c], cards[c])

\* What is there, or such a mark has read, the call in the block has read.
CallSafe ==
  \A t \in Threads : Marking(t) /\ step[t] = "cards" =>
    /\ saved
    /\ \A c \in Cards : Safe(cards[c], saw[t].cards[c])
    /\ \A u \in Threads, c \in Cards : Outside(u) => Safe(saw[u].cards[c], saw[t].cards[c])

\* A deck that is not saved has no cards but for marks on its page.
UnsavedBare ==
  ~saved /\ (\A t \in Threads : ~Saving(t, {"show"})) =>
    \A c \in Cards : /\ cards[c] \subseteq {OnPage}
                     /\ \A u \in Threads : Outside(u) => saw[u].cards[c] \subseteq {OnPage}

\* What waited in the block is in the cards before the block says that it is saved.
SavedSafe ==
  \A t \in Threads, c \in Cards : Saving(t, {"show"}) => Safe(pending[c], cards[c])

CardsFit == PendingRead /\ CardsRead /\ MarksSafe /\ CallSafe /\ UnsavedBare /\ SavedSafe

StudyInv == Types /\ JobsFit /\ SawFits /\ TasksFit /\ BookFits /\ PagesFit /\ CardsFit

(***************************************************************************)
(* The locks                                                               *)
(***************************************************************************)

\* The calls use the locks as KeyedThreadLocks says.
LEMMA LocksStep == [StudyNext]_studyVars => [Next]_vars
<1> SUFFICES ASSUME [StudyNext]_studyVars PROVE [Next]_vars
  OBVIOUS
<1>1. CASE UNCHANGED studyVars
  BY <1>1 DEF studyVars, locks, vars
<1>2. ASSUME NEW t \in Threads, Ask(t) \/ Run(t) \/ MarkPut(t) \/ Take(t) \/ Other(t)
      PROVE  [Next]_vars
  <2>1. CASE \E j : Enter(t, j)
    BY <2>1, BlockIsKey DEF Enter, Next
  <2>2. CASE Free(t) \/ Return(t) \/ Take(t)
    BY <2>2 DEF Free, Return, Take, Next
  <2>3. CASE Other(t)
    BY <2>3 DEF Other, Next
  <2>4. CASE UNCHANGED locks
    BY <2>4 DEF locks, vars
  <2>5. \/ \E j : Enter(t, j)
        \/ Free(t) \/ Return(t) \/ Take(t) \/ Other(t) \/ UNCHANGED locks
    BY <1>2 DEF Ask, Run, AnswerClosed, CountIdea, Finish, Retake, Study, Save, MarkOnPage,
                Look, Clear, Put, WritePage, PutCards, Show, MarkPut
  <2>6. QED
    BY <2>1, <2>2, <2>3, <2>4, <2>5
<1>3. ASSUME NEW q \in Open, CheckOpen(q) \/ RecheckIdea(q)
      PROVE  [Next]_vars
  BY <1>3 DEF CheckOpen, RecheckIdea, locks, vars
<1>4. ASSUME NEW w \in tasks, Loop(w)
      PROVE  [Next]_vars
  <2>1. CASE Said(w) \/ Judged(w)
    BY <2>1 DEF Said, Judged, locks, vars
  <2>2. ASSUME NEW t \in Workers, Hand(t, w)
        PROVE  [Next]_vars
    BY <2>2, BlockIsKey DEF Hand, Enter, Next
  <2>3. QED
    BY <1>4, <2>1, <2>2 DEF Loop
<1>5. QED
  BY <1>1, <1>2, <1>3, <1>4 DEF StudyNext

LEMMA LocksHold == StudySpec => []IInv
<1>1. StudyInit => IInv
  BY InitIInv DEF StudyInit
<1>2. IInv /\ [StudyNext]_studyVars => IInv'
  BY LocksStep, NextIInv
<1>3. QED
  BY <1>1, <1>2, PTL DEF StudySpec

\* One call at a time is in the block.
LEMMA OneHolds ==
  ASSUME IInv, JobsFit, NEW t \in Threads, NEW u \in Threads, Holds(t), Holds(u)
  PROVE  t = u
<1>1. Inside(t) /\ Inside(u)
  BY DEF JobsFit, Holds, Inside, Outside
<1>2. key[t] = Block /\ key[u] = Block /\ pc[t] = "taken" /\ pc[u] = "taken"
  BY <1>1 DEF JobsFit, Holds
<1>3. MutualExclusion
  BY DEF IInv, Linked, MutualExclusion
<1>4. QED
  BY <1>2, <1>3 DEF MutualExclusion

(***************************************************************************)
(* Steps that leave the block alone                                        *)
(***************************************************************************)
Middle == {"clear", "put", "page", "cards", "show"}
Amid(t) == Holds(t) /\ step[t] \in Middle

\* No call is where it reads or writes that was not, and none of those has moved.
Quiet ==
  /\ UNCHANGED <<kind, test, deck>>
  /\ \A t \in Threads :
       /\ Amid(t)' => Amid(t)
       /\ Amid(t) => Amid(t)' /\ job'[t] = job[t] /\ step'[t] = step[t] /\ saw'[t] = saw[t]
       /\ Outside(t)' => Outside(t) /\ saw'[t] = saw[t]

LEMMA QuietKeeps ==
  ASSUME BookFits, PagesFit, CardsFit, Quiet
  PROVE  BookFits' /\ PagesFit' /\ CardsFit'
<1> USE DEF Quiet, Amid, Middle, test, deck
<1>1. BookFits'
  BY DEF BookFits
<1>2. \A t \in Threads : \A s \in {{"cards", "show"}, {"page", "cards", "show"}, {"show"}} :
        Saving(t, s)' <=> Saving(t, s)
  BY DEF Saving
<1>3. PagesFit'
  BY <1>2 DEF PagesFit
<1>4. PendingRead'
  BY DEF CardsFit, PendingRead
<1>5. \A t \in Threads : /\ (Marking(t) /\ step[t] = "cards")' => Marking(t) /\ step[t] = "cards"
                         /\ (Marking(t) /\ step[t] = "cards")' => saw'[t] = saw[t]
  BY DEF Marking
<1>6. CardsRead'
  BY <1>5 DEF CardsFit, CardsRead
<1>7. MarksSafe'
  BY DEF CardsFit, MarksSafe, Safe
<1>8. CallSafe'
  BY <1>5 DEF CardsFit, CallSafe, Safe
<1>9. UnsavedBare'
  BY <1>2 DEF CardsFit, UnsavedBare
<1>10. SavedSafe'
  BY <1>2 DEF CardsFit, SavedSafe, Safe
<1>11. QED
  BY <1>1, <1>3, <1>4, <1>6, <1>7, <1>8, <1>9, <1>10 DEF CardsFit

LEMMA EnterKeeps ==
  ASSUME IInv, StudyInv, NEW t \in Threads, NEW j, Enter(t, j), JobFits(j)', j.op # "outside",
         calls' \in Nat, calls <= calls', tasks' = tasks,
         \A w \in tasks : j.id = w.id /\ j.op \in {"flag", "reflag"} => w.of # 0
  PROVE  StudyInv'
<1> USE DEF StudyInv
<1>1. /\ job' = [job EXCEPT ![t] = j] /\ step' = [step EXCEPT ![t] = "look"] /\ saw' = saw
      /\ UNCHANGED <<kind, test, deck>> /\ job[t] = Nothing
      /\ pc[t] = "idle" /\ pc' = [pc EXCEPT ![t] = "acquire"] /\ key' = [key EXCEPT ![t] = Block]
  BY DEF Enter, Register
<1>2. Types'
  BY <1>1 DEF Types, JobFits, Steps, test, deck
<1>3. \A u \in Threads : u # t => job'[u] = job[u] /\ step'[u] = step[u] /\ pc'[u] = pc[u] /\ key'[u] = key[u]
  BY <1>1
<1>4. pc'[t] = "acquire" /\ key'[t] = Block /\ job'[t] = j /\ step'[t] = "look"
  BY <1>1 DEF Types, IInv, TypeOK
<1>5. \A i : JobFits(i) => JobFits(i)'
  BY <1>1 DEF JobFits, Jobs, Types
<1>6. JobsFit'
  BY <1>3, <1>4, <1>5 DEF JobsFit, Inside, Outside, StepFits, Steps
<1>7. SawFits'
  BY <1>1, <1>3, <1>4 DEF SawFits, Inside
<1>8. TasksFit'
  BY <1>1, <1>3, <1>4 DEF TasksFit, Types, TaskSet
<1>9. Quiet
  BY <1>1, <1>3, <1>4 DEF Quiet, Amid, Middle, Holds, Outside
<1>10. QED
  BY <1>2, <1>6, <1>7, <1>8, <1>9, QuietKeeps

\* A call of the user: it belongs to the block's kind.
LEMMA AskEnters ==
  ASSUME Types, NEW t \in Threads,
         \/ AnswerClosed(t) \/ CountIdea(t) \/ Finish(t) \/ Retake(t) \/ Study(t) \/ Save(t)
  PROVE  \E j : /\ Enter(t, j) /\ j \in Jobs
                /\ \/ kind = "test" /\ j.op \in {"answer", "count"} /\ j.item \in Questions /\ j.id = 0
                   \/ kind = "test" /\ j.op \in {"finish", "retake"} /\ j.id = 0
                   \/ kind = "deck" /\ j.op \in {"grade", "mark"} /\ j.item \in Cards /\ j.id = calls'
                   \/ kind = "deck" /\ j.op = "save" /\ j.id = 0
<1>0. Called => calls' \in Nat
  BY DEF Called, Types
<1>1. CASE AnswerClosed(t)
  <2>1. PICK q \in Closed, right \in BOOLEAN :
          Offered(q, {"none"}) /\ Enter(t, Job("answer", q, 0, right, 0))
    BY <1>1 DEF AnswerClosed
  <2>2. Job("answer", q, 0, right, 0) \in Jobs
    BY DEF Job, Jobs, TestOps, AnswerOps, Questions
  <2>3. QED
    BY <2>1, <2>2 DEF Offered, Job, Questions
<1>2. CASE CountIdea(t)
  <2>1. PICK q \in Open, counted \in BOOLEAN :
          Reviewed(q) /\ Enter(t, Job("count", q, 0, counted, 0))
    BY <1>2 DEF CountIdea
  <2>2. Job("count", q, 0, counted, 0) \in Jobs
    BY DEF Job, Jobs, TestOps, AnswerOps, Questions
  <2>3. QED
    BY <2>1, <2>2 DEF Reviewed, Job, Questions
<1>3. CASE Finish(t)
  <2>1. Job("finish", Nothing, 0, TRUE, 0) \in Jobs
    BY DEF Job, Jobs, TestOps
  <2>2. QED
    BY <1>3, <2>1 DEF Finish, Job
<1>4. CASE Retake(t)
  <2>1. PICK mistakes \in BOOLEAN : Enter(t, Job("retake", Nothing, 0, mistakes, 0))
    BY <1>4 DEF Retake
  <2>2. Job("retake", Nothing, 0, mistakes, 0) \in Jobs
    BY DEF Job, Jobs, TestOps
  <2>3. QED
    BY <1>4, <2>1, <2>2 DEF Retake, Job
<1>5. CASE Study(t)
  <2>1. PICK op \in {"grade", "mark"}, c \in Cards : Enter(t, Job(op, c, 0, TRUE, calls'))
    BY <1>5 DEF Study
  <2>2. Job(op, c, 0, TRUE, calls') \in Jobs
    BY <1>0, <1>5 DEF Study, Job, Jobs, DeckOps
  <2>3. QED
    BY <1>5, <2>1, <2>2 DEF Study, Job
<1>6. CASE Save(t)
  <2>1. Job("save", Nothing, 0, TRUE, 0) \in Jobs
    BY DEF Job, Jobs, DeckOps
  <2>2. QED
    BY <1>6, <2>1 DEF Save, Job
<1>7. QED
  BY <1>1, <1>2, <1>3, <1>4, <1>5, <1>6

LEMMA AskKeeps ==
  ASSUME IInv, StudyInv, NEW t \in Threads,
         \/ AnswerClosed(t) \/ CountIdea(t) \/ Finish(t) \/ Retake(t) \/ Study(t) \/ Save(t)
  PROVE  StudyInv'
<1> USE DEF StudyInv
<1>1. calls' = calls + 1 /\ calls \in Nat /\ tasks' = tasks
  BY DEF AnswerClosed, CountIdea, Finish, Retake, Study, Save, Called, loop, Types
<1>2. PICK j : /\ Enter(t, j) /\ j \in Jobs
               /\ \/ kind = "test" /\ j.op \in {"answer", "count"} /\ j.item \in Questions /\ j.id = 0
                  \/ kind = "test" /\ j.op \in {"finish", "retake"} /\ j.id = 0
                  \/ kind = "deck" /\ j.op \in {"grade", "mark"} /\ j.item \in Cards /\ j.id = calls'
                  \/ kind = "deck" /\ j.op = "save" /\ j.id = 0
  BY AskEnters
<1>3. kind' = kind
  BY <1>2 DEF Enter
<1>4. JobFits(j)' /\ j.op # "outside" /\ j.op \notin {"flag", "reflag"}
  BY <1>1, <1>2, <1>3 DEF JobFits, TestOps, AnswerOps, Types
<1>5. QED
  BY <1>1, <1>2, <1>4, EnterKeeps

\* A task hands its write to a thread.
LEMMA HandKeeps ==
  ASSUME IInv, StudyInv, NEW t \in Threads, NEW w \in tasks, Hand(t, w)
  PROVE  StudyInv'
<1> DEFINE j == Job(OpOf(w), w.item, w.of, w.right, w.id)
<1> USE DEF StudyInv
<1>1. Enter(t, j) /\ calls' = calls /\ tasks' = tasks /\ w.at \notin {"said", "agent"}
  BY DEF Hand, loop
<1>2. w \in TaskSet /\ kind = "test" /\ kind' = kind /\ calls \in Nat
  BY <1>1 DEF Types, TasksFit, Enter
<1>3. OpOf(w) \in {"say", "flag", "reflag", "review", "fail", "idea"}
  BY <1>1, <1>2 DEF OpOf, TaskSet
<1>4. OpOf(w) # "say" => w.of # 0
  BY <1>1, <1>2 DEF OpOf, TaskSet, TasksFit
<1>5. JobFits(j)' /\ j.op # "outside"
  BY <1>1, <1>2, <1>3, <1>4 DEF JobFits, Job, Jobs, TaskSet, TasksFit, TestOps, AnswerOps, Questions
<1>6. \A v \in tasks : j.id = v.id /\ j.op \in {"flag", "reflag"} => v.of # 0
  BY <1>4 DEF Job, TasksFit
<1>7. QED
  BY <1>1, <1>2, <1>5, <1>6, EnterKeeps

(***************************************************************************)
(* The loop and the locks                                                  *)
(***************************************************************************)

\* Steps of the loop change only its tasks.
LEMMA LoopKeeps ==
  ASSUME StudyInv, UNCHANGED <<locks, kind, test, deck, work>>, calls' \in Nat, calls <= calls',
         tasks' \subseteq TaskSet, TasksFit'
  PROVE  StudyInv'
<1> USE DEF StudyInv
<1>1. Types'
  BY DEF Types, test, deck, work
<1>2. \A i : JobFits(i) => JobFits(i)'
  BY DEF JobFits, Jobs, Types
<1>3. JobsFit'
  BY <1>2 DEF JobsFit, Inside, Outside, StepFits, work, locks
<1>4. SawFits'
  BY DEF SawFits, Inside, work
<1>5. Quiet
  BY DEF Quiet, Amid, Holds, Outside, work, locks
<1>6. QED
  BY <1>1, <1>3, <1>4, <1>5, QuietKeeps

LEMMA BeginKeeps ==
  ASSUME StudyInv, NEW q \in Open, CheckOpen(q) \/ RecheckIdea(q)
  PROVE  StudyInv'
<1> USE DEF StudyInv
<1>1. calls' = calls + 1 /\ calls \in Nat /\ UNCHANGED <<locks, kind, test, deck, work>> /\ kind = "test"
  BY DEF CheckOpen, RecheckIdea, Called, Offered, Reviewed, Types
<1>2. PICK n \in TaskSet : /\ tasks' = tasks \cup {n} /\ n.id = calls'
                           /\ n.at # "say" => n.of # 0
  <2>1. current \in Nat \ {0}
    BY DEF Types
  <2>2. CASE CheckOpen(q)
    <3>1. Task("check", q, 0, "say") \in TaskSet
      BY <1>1 DEF Task, TaskSet
    <3>2. QED
      BY <2>2, <3>1 DEF CheckOpen, Task
  <2>3. CASE RecheckIdea(q)
    <3>1. Task("recheck", q, current, "flag") \in TaskSet
      BY <1>1, <2>1 DEF Task, TaskSet
    <3>2. QED
      BY <2>1, <2>3, <3>1 DEF RecheckIdea, Task
  <2>4. QED
    BY <2>2, <2>3
<1>3. tasks' \subseteq TaskSet
  BY <1>2 DEF Types
<1>4. \A w \in tasks : w.id \in Nat /\ w.id <= calls
  BY DEF TasksFit, Types, TaskSet
<1>5. \A t \in Threads : job'[t] = job[t] /\ (job[t] # Nothing => job[t].id \in Nat /\ job[t].id <= calls)
  BY <1>1 DEF JobsFit, JobFits, Jobs, Inside, Outside, work
<1>6. TasksFit'
  BY <1>1, <1>2, <1>4, <1>5 DEF TasksFit
<1>7. QED
  BY <1>1, <1>3, <1>6, LoopKeeps

LEMMA TaskKeeps ==
  ASSUME StudyInv, NEW w \in tasks, Said(w) \/ Judged(w)
  PROVE  StudyInv'
<1> USE DEF StudyInv
<1>1. calls' = calls /\ calls \in Nat /\ UNCHANGED <<locks, kind, test, deck, work>> /\ w.at \in {"said", "agent"}
  BY DEF Said, Judged, Types
<1>2. w \in TaskSet /\ w.of # 0
  BY <1>1 DEF Types, TasksFit
<1>3. PICK n \in TaskSet : tasks' \subseteq (tasks \ {w}) \cup {n} /\ n.id = w.id /\ n.of = w.of
  <2>1. CASE Said(w)
    <3>1. [w EXCEPT !.at = "flag"] \in TaskSet
      BY <1>2 DEF TaskSet
    <3>2. tasks' \subseteq (tasks \ {w}) \cup {[w EXCEPT !.at = "flag"]}
      BY <2>1 DEF Said
    <3>3. QED
      BY <3>1, <3>2, <1>2 DEF TaskSet
  <2>2. CASE Judged(w)
    <3>1. PICK right \in BOOLEAN, at \in {"put", "failed"} :
            tasks' = (tasks \ {w}) \cup {[w EXCEPT !.at = at, !.right = right]}
      BY <2>2 DEF Judged
    <3>2. [w EXCEPT !.at = at, !.right = right] \in TaskSet
      BY <1>2 DEF TaskSet
    <3>3. QED
      BY <3>1, <3>2, <1>2 DEF TaskSet
  <2>3. QED
    BY <2>1, <2>2
<1>4. tasks' \subseteq TaskSet
  BY <1>3 DEF Types
<1>5. \A v \in tasks' : v \in tasks \ {w} \/ (v.id = w.id /\ v.of # 0 /\ v = n)
  BY <1>2, <1>3
<1>6. TasksFit'
  BY <1>1, <1>2, <1>3, <1>5 DEF TasksFit, work
<1>7. QED
  BY <1>1, <1>4, <1>6, LoopKeeps

\* The lock is taken, or another user of the locks moves.
LEMMA LockKeeps ==
  ASSUME IInv, StudyInv, NEW t \in Threads, Take(t) \/ Other(t) \/ Free(t)
  PROVE  StudyInv'
<1> USE DEF StudyInv
<1>1. UNCHANGED <<kind, test, deck, loop, work, calls>>
  BY DEF Take, Other, Free
<1>2. Types' /\ SawFits' /\ TasksFit'
  BY <1>1 DEF Types, SawFits, TasksFit, Inside, test, deck, loop, work
<1>3. \A u \in Threads : u # t => pc'[u] = pc[u] /\ key'[u] = key[u]
  BY DEF Take, Other, Free, Acquire, Register, TimeOut, Release, Leave, IInv, TypeOK
<1>4. \/ pc[t] = "acquire" /\ pc'[t] = "taken" /\ key' = key
      \/ pc[t] = "taken" /\ step[t] \in {"done", "refused"} /\ pc'[t] = "leave" /\ key' = key /\ job[t] # Nothing
      \/ job[t] = Nothing
  BY DEF Take, Other, Free, Acquire, Release, Holds, IInv, TypeOK
<1>5. JobsFit'
  BY <1>1, <1>3, <1>4 DEF JobsFit, JobFits, Inside, Outside, work
<1>6. Quiet
  BY <1>1, <1>3, <1>4 DEF Quiet, Amid, Middle, Holds, JobsFit, Inside, Outside, work
<1>7. QED
  BY <1>2, <1>5, <1>6, QuietKeeps

\* The call returns: its task goes on, at the attempt it was given.
LEMMA ReturnKeeps ==
  ASSUME IInv, StudyInv, NEW t \in Threads, Return(t)
  PROVE  StudyInv'
<1> DEFINE mine == {w \in tasks : w.id = job[t].id}
<1> USE DEF StudyInv
<1>1. /\ job[t] # Nothing /\ pc[t] = "leave" /\ pc' = [pc EXCEPT ![t] = "idle"] /\ key' = key
      /\ tasks' = (tasks \ mine) \cup UNION {After(w, t) : w \in mine}
      /\ job' = [job EXCEPT ![t] = Nothing] /\ step' = [step EXCEPT ![t] = Nothing]
      /\ saw' = [saw EXCEPT ![t] = Nothing]
      /\ UNCHANGED <<kind, test, deck, calls>>
  BY DEF Return, Leave
<1>2. Inside(t) /\ JobFits(job[t]) /\ step[t] # "look"
  BY <1>1 DEF JobsFit, Inside, Outside
<1>3. ASSUME NEW w \in mine, NEW v \in After(w, t)
      PROVE  /\ v \in TaskSet /\ v.id = w.id /\ v.of # 0
             /\ After(w, t) = {v}
  <2>1. w \in TaskSet /\ w.id = job[t].id /\ kind = "test"
    BY DEF Types, TasksFit
  <2>2. CASE job[t].op = "say"
    <3>1. saw[t].n \in Nat \ {0}
      BY <1>2, <2>1 DEF SawFits
    <3>2. After(w, t) = {[w EXCEPT !.at = "said", !.of = saw[t].n]}
      BY <2>2 DEF After
    <3>3. QED
      BY <2>1, <3>1, <3>2 DEF TaskSet
  <2>3. CASE job[t].op \in {"flag", "reflag"} /\ step[t] = "done"
    <3>1. After(w, t) = {[w EXCEPT !.at = "agent"]}
      BY <2>3 DEF After
    <3>2. w.of # 0
      BY <1>1, <2>1, <2>3 DEF TasksFit
    <3>3. QED
      BY <2>1, <3>1, <3>2 DEF TaskSet
  <2>4. QED
    BY <2>2, <2>3 DEF After
<1>4. \A v \in tasks' : \/ v \in tasks /\ v.id # job[t].id
                        \/ \E w \in mine : v \in After(w, t)
  BY <1>1
<1>5. tasks' \subseteq TaskSet
  BY <1>3, <1>4 DEF Types
<1>6. Types'
  BY <1>1, <1>5 DEF Types, test, deck
<1>7. \A u \in Threads : u # t => job'[u] = job[u] /\ step'[u] = step[u] /\ saw'[u] = saw[u] /\ pc'[u] = pc[u]
  BY <1>1 DEF Types
<1>8. job'[t] = Nothing
  BY <1>1 DEF Types
<1>9. JobsFit'
  BY <1>1, <1>7, <1>8 DEF JobsFit, JobFits, Inside, Outside
<1>10. SawFits'
  BY <1>1, <1>7, <1>8 DEF SawFits, Inside
<1>11. TasksFit'
  <2>1. tasks' # {} => kind' = "test"
    BY <1>1, <1>4 DEF TasksFit
  <2>2. \A v \in tasks' : v.id <= calls' /\ (v.at # "say" => v.of # 0)
    BY <1>1, <1>3, <1>4 DEF TasksFit
  <2>3. ASSUME NEW v \in tasks', NEW w \in tasks', v.id = w.id
        PROVE  v = w
    <3>1. CASE v \in tasks /\ v.id # job[t].id
      BY <2>3, <3>1, <1>3, <1>4 DEF TasksFit
    <3>2. ASSUME NEW x \in mine, v \in After(x, t)
          PROVE  v = w
      <4>1. v.id = job[t].id
        BY <3>2, <1>3
      <4>2. PICK y \in mine : w \in After(y, t)
        BY <2>3, <4>1, <1>4
      <4>3. x = y
        BY DEF TasksFit
      <4>4. QED
        BY <3>2, <4>2, <4>3, <1>3
    <3>3. QED
      BY <3>1, <3>2, <1>4
  <2>4. \A u \in Threads, v \in tasks' :
          job'[u] # Nothing /\ job'[u].id = v.id /\ job'[u].op \in {"flag", "reflag"} => v.of # 0
    BY <1>3, <1>4, <1>7, <1>8 DEF TasksFit
  <2>5. QED
    BY <2>1, <2>2, <2>3, <2>4 DEF TasksFit
<1>12. Quiet
  BY <1>1, <1>7, <1>8 DEF Quiet, Amid, Holds, Outside
<1>13. QED
  BY <1>6, <1>9, <1>10, <1>11, <1>12, QuietKeeps

(***************************************************************************)
(* Marks on the deck's page                                                *)
(***************************************************************************)
LEMMA MarkOnPageKeeps ==
  ASSUME IInv, StudyInv, NEW t \in Threads, MarkOnPage(t)
  PROVE  StudyInv'
<1> USE DEF StudyInv
<1>1. PICK c \in Cards : job' = [job EXCEPT ![t] = Job("outside", c, 0, TRUE, OnPage)]
  BY DEF MarkOnPage
<1>2. /\ job[t] = Nothing /\ pc[t] = "idle" /\ kind = "deck" /\ calls' = calls + 1 /\ calls \in Nat
      /\ saw' = [saw EXCEPT ![t] = [cards |-> cards]]
      /\ UNCHANGED <<locks, kind, test, deck, loop, step>>
  BY DEF MarkOnPage, Called, Types
<1>3. Job("outside", c, 0, TRUE, OnPage) \in Jobs
  BY DEF Job, Jobs, OnPage
<1>4. Types'
  <2>1. job' \in [Threads -> Jobs \cup {Nothing}]
    BY <1>1, <1>3 DEF Types
  <2>2. saw' = [u \in Threads |-> saw'[u]]
    BY <1>2 DEF Types
  <2>3. step' = step /\ tasks' = tasks /\ UNCHANGED <<kind, attempts, current, pending, saved, cards>>
    BY <1>2 DEF test, deck, loop
  <2>4. QED
    BY <1>2, <2>1, <2>2, <2>3 DEF Types
<1>5. \A u \in Threads : u # t => job'[u] = job[u] /\ saw'[u] = saw[u]
  BY <1>1, <1>2 DEF Types
<1>6. /\ job'[t] = Job("outside", c, 0, TRUE, OnPage)
      /\ saw'[t].cards = cards
  BY <1>1, <1>2 DEF Types
<1>7. \A j : JobFits(j) => JobFits(j)'
  BY <1>2 DEF JobFits, Jobs
<1>8. JobFits(job[t])'
  BY <1>2, <1>3, <1>6 DEF JobFits, Job, TestOps, AnswerOps, OnPage
<1>9. ~Inside(t)' /\ (\A u \in Threads : Inside(u)' => Inside(u) /\ u # t)
  BY <1>5, <1>6 DEF Inside, Job
<1>10. JobsFit'
  BY <1>2, <1>5, <1>7, <1>8, <1>9 DEF JobsFit, Inside, Outside, locks
<1>11. SawFits'
  BY <1>2, <1>5, <1>9 DEF SawFits, Inside
<1>12. TasksFit'
  BY <1>2 DEF TasksFit, loop
<1>13. \A u \in Threads : /\ Holds(u)' <=> Holds(u) /\ u # t
                          /\ Holds(u) => u # t
                          /\ Outside(u)' /\ u # t => Outside(u)
  BY <1>2, <1>5 DEF Holds, Outside, locks
<1>14. BookFits'
  BY <1>2, <1>5, <1>13 DEF BookFits, test
<1>15. \A u \in Threads : \A s \in {{"cards", "show"}, {"page", "cards", "show"}, {"show"}} :
         Saving(u, s)' <=> Saving(u, s)
  BY <1>2, <1>5, <1>13 DEF Saving
<1>16. PagesFit'
  BY <1>2, <1>15 DEF PagesFit, deck
<1>17. \A u \in Threads : (Marking(u) /\ step[u] = "cards")' =>
         Marking(u) /\ step[u] = "cards" /\ u # t /\ saw'[u] = saw[u]
  BY <1>2, <1>5, <1>13 DEF Marking
<1>18. CardsFit'
  <2>1. PendingRead'
    BY <1>2, <1>5, <1>13 DEF CardsFit, PendingRead, deck
  <2>2. CardsRead'
    BY <1>2, <1>5, <1>6, <1>13, <1>17 DEF CardsFit, CardsRead, Types
  <2>3. MarksSafe'
    BY <1>2, <1>5, <1>6, <1>13 DEF CardsFit, MarksSafe, Safe, deck
  <2>4. CallSafe'
    BY <1>2, <1>5, <1>6, <1>13, <1>17 DEF CardsFit, CallSafe, Safe, deck
  <2>5. UnsavedBare'
    BY <1>2, <1>5, <1>6, <1>13, <1>15 DEF CardsFit, UnsavedBare, deck
  <2>6. SavedSafe'
    BY <1>2, <1>15 DEF CardsFit, SavedSafe, Safe, deck
  <2>7. QED
    BY <2>1, <2>2, <2>3, <2>4, <2>5, <2>6 DEF CardsFit
<1>19. QED
  BY <1>4, <1>10, <1>11, <1>12, <1>14, <1>16, <1>18

LEMMA MarkPutKeeps ==
  ASSUME IInv, StudyInv, NEW t \in Threads, MarkPut(t)
  PROVE  StudyInv'
<1> DEFINE i == job[t].item
<1> USE DEF StudyInv
<1>1. /\ Outside(t)
      /\ cards' = [cards EXCEPT ![i] = Taken(t, saw[t].cards)[i]]
      /\ job' = [job EXCEPT ![t] = Nothing] /\ saw' = [saw EXCEPT ![t] = Nothing]
      /\ UNCHANGED <<locks, kind, test, pending, saved, pages, loop, step, calls>>
  BY DEF MarkPut, Outside
<1>2. i \in Cards /\ job[t].id = OnPage /\ pc[t] = "idle"
  BY <1>1 DEF JobsFit, JobFits, Outside
<1>3. saw[t].cards \in [Cards -> SUBSET Nat]
  BY <1>1 DEF CardsFit, CardsRead
<1>4. cards' = [cards EXCEPT ![i] = saw[t].cards[i] \cup {OnPage}]
  BY <1>1, <1>2, <1>3 DEF Taken
<1>5. /\ cards' \in [Cards -> SUBSET Nat] /\ cards'[i] = saw[t].cards[i] \cup {OnPage}
      /\ \A c \in Cards : c # i => cards'[c] = cards[c]
  BY <1>2, <1>3, <1>4 DEF Types, OnPage
<1>6. Types'
  BY <1>1, <1>5 DEF Types, test, loop
<1>7. job'[t] = Nothing /\ \A u \in Threads : u # t => job'[u] = job[u] /\ saw'[u] = saw[u]
  BY <1>1 DEF Types
<1>8. JobsFit' /\ SawFits' /\ TasksFit'
  BY <1>1, <1>7 DEF JobsFit, JobFits, SawFits, TasksFit, Inside, Outside, locks, loop
<1>9. \A u \in Threads : /\ (Holds(u)' <=> Holds(u)) /\ (Holds(u) => u # t)
                         /\ Outside(u)' => Outside(u) /\ u # t
  BY <1>1, <1>2, <1>7 DEF Holds, Outside, locks
<1>10. BookFits'
  BY <1>1, <1>7, <1>9 DEF BookFits, test
<1>11. \A u \in Threads : \A s \in {{"cards", "show"}, {"page", "cards", "show"}, {"show"}} :
         Saving(u, s)' <=> Saving(u, s)
  BY <1>1, <1>7, <1>9 DEF Saving
<1>12. PagesFit'
  BY <1>1, <1>11 DEF PagesFit
<1>13. \A u \in Threads : (Marking(u) /\ step[u] = "cards")' =>
         Marking(u) /\ step[u] = "cards" /\ saw'[u] = saw[u]
  BY <1>1, <1>7, <1>9 DEF Marking
<1>14. CardsFit'
  <2>1. PendingRead'
    BY <1>1, <1>7, <1>9 DEF CardsFit, PendingRead
  <2>2. CardsRead'
    BY <1>7, <1>9, <1>13 DEF CardsFit, CardsRead
  <2>3. MarksSafe'
    BY <1>5, <1>7, <1>9 DEF CardsFit, MarksSafe, Safe
  <2>4. CallSafe'
    <3>1. ASSUME NEW u \in Threads, (Marking(u) /\ step[u] = "cards")', NEW c \in Cards
          PROVE  Safe(cards'[c], saw[u].cards[c])
      <4>1. Marking(u) /\ step[u] = "cards"
        BY <3>1, <1>13
      <4>2. CASE c = i
        BY <1>1, <1>2, <1>5, <4>1, <4>2 DEF CardsFit, CallSafe, Safe
      <4>3. CASE c # i
        BY <1>5, <4>1, <4>3 DEF CardsFit, CallSafe
      <4>4. QED
        BY <4>2, <4>3
    <3>2. QED
      BY <3>1, <1>1, <1>7, <1>9, <1>13 DEF CardsFit, CallSafe, Safe
  <2>5. UnsavedBare'
    BY <1>1, <1>2, <1>5, <1>7, <1>9, <1>11 DEF CardsFit, UnsavedBare
  <2>6. SavedSafe'
    BY <1>1, <1>5, <1>11 DEF CardsFit, SavedSafe, Safe
  <2>7. QED
    BY <2>1, <2>2, <2>3, <2>4, <2>5, <2>6 DEF CardsFit
<1>15. QED
  BY <1>6, <1>8, <1>10, <1>12, <1>14

(***************************************************************************)
(* The call in the block                                                   *)
(***************************************************************************)

\* A call goes on to its next step: what every such step keeps.
LEMMA Advance ==
  ASSUME IInv, StudyInv, NEW t \in Threads, Holds(t),
         NEW s, StepFits(job[t].op, s), s # "look", step' = [step EXCEPT ![t] = s],
         UNCHANGED <<locks, kind, loop, job, calls>>,
         kind = "test" => saw'[t].n \in Nat \ {0},
         \A u \in Threads : u # t => saw'[u] = saw[u]
  PROVE  /\ JobsFit' /\ SawFits' /\ TasksFit'
         /\ step' \in [Threads -> Steps \cup {Nothing}]
         /\ step'[t] = s /\ (\A u \in Threads : u # t => step'[u] = step[u])
         /\ \A u \in Threads : (Holds(u) <=> u = t) /\ (Holds(u)' <=> u = t)
         /\ \A u \in Threads : (Outside(u)' <=> Outside(u)) /\ (Outside(u) => u # t)
<1> USE DEF StudyInv
<1>1. Inside(t)
  BY DEF JobsFit, Holds, Inside, Outside
<1>2. /\ step' \in [Threads -> Steps \cup {Nothing}]
      /\ step'[t] = s /\ (\A u \in Threads : u # t => step'[u] = step[u])
  BY DEF Types, StepFits
<1>3. /\ \A u \in Threads : (Holds(u) <=> u = t) /\ (Holds(u)' <=> u = t)
      /\ \A u \in Threads : (Outside(u)' <=> Outside(u)) /\ (Outside(u) => u # t)
  BY <1>1, OneHolds DEF Holds, Inside, Outside, locks
<1>4. UNCHANGED <<pc, key, job, kind, calls, tasks>>
  BY DEF locks, loop
<1>5. JobsFit'
  BY <1>1, <1>2, <1>4 DEF JobsFit, JobFits, Inside, Outside, Holds
<1>6. SawFits'
  BY <1>2, <1>4 DEF SawFits, Inside
<1>7. TasksFit'
  BY <1>4 DEF TasksFit
<1>8. QED
  BY <1>2, <1>3, <1>5, <1>6, <1>7

\* What is known of the call in the block.
LEMMA InBlock ==
  ASSUME StudyInv, NEW t \in Threads, Holds(t)
  PROVE  /\ Inside(t) /\ JobFits(job[t]) /\ StepFits(job[t].op, step[t])
         /\ (kind = "test" => job[t].op \in TestOps) /\ (kind = "deck" => job[t].op \in DeckOps)
<1>1. Inside(t) /\ JobFits(job[t]) /\ StepFits(job[t].op, step[t])
  BY DEF StudyInv, JobsFit, Holds, Inside, Outside
<1>2. QED
  BY <1>1 DEF Inside, JobFits, Jobs

\* The block is read.
LEMMA LookKeeps ==
  ASSUME IInv, StudyInv, NEW t \in Threads, Look(t)
  PROVE  StudyInv'
<1> DEFINE j == job[t]
           s == IF Refused(j) THEN "refused" ELSE FirstWrite(j.op)
<1> USE DEF StudyInv
<1>1. /\ Holds(t) /\ step[t] = "look" /\ step' = [step EXCEPT ![t] = s]
      /\ saw' = [saw EXCEPT ![t] = IF kind = "test" THEN [n |-> current, attempt |-> attempts[current]]
                                                    ELSE [pending |-> pending, cards |-> cards]]
      /\ UNCHANGED <<locks, kind, test, deck, loop, job, calls>>
  BY DEF Look, At, Goes
<1>2. /\ Inside(t) /\ JobFits(j) /\ StepFits(j.op, step[t])
      /\ (kind = "test" => j.op \in TestOps) /\ (kind = "deck" => j.op \in DeckOps)
  BY <1>1, InBlock
<1>3. /\ StepFits(j.op, s) /\ s # "look"
      /\ kind = "test" => s \in {"refused", "clear", "put"}
      /\ kind = "deck" => s \in {"refused", "page", "cards", "show"}
      /\ s = "page" => ~saved
      /\ s = "cards" => saved /\ j.op # "save"
      /\ s = "show" => j.op # "save"
  BY <1>2 DEF StepFits, Steps, FirstWrite, Refused, TestOps, AnswerOps, DeckOps, Types
<1>4. /\ \A u \in Threads : u # t => saw'[u] = saw[u]
      /\ kind = "test" => saw'[t].n = current /\ saw'[t].attempt = attempts[current]
      /\ kind = "deck" => saw'[t].pending = pending /\ saw'[t].cards = cards
      /\ saw' = [u \in Threads |-> saw'[u]]
  BY <1>1 DEF Types
<1>5. kind = "test" => saw'[t].n \in Nat \ {0}
  BY <1>4 DEF Types
<1> HIDE DEF s
<1>6. /\ JobsFit' /\ SawFits' /\ TasksFit' /\ step' \in [Threads -> Steps \cup {Nothing}]
      /\ step'[t] = s /\ (\A u \in Threads : u # t => step'[u] = step[u])
      /\ \A u \in Threads : (Holds(u) <=> u = t) /\ (Holds(u)' <=> u = t)
      /\ \A u \in Threads : (Outside(u)' <=> Outside(u)) /\ (Outside(u) => u # t)
  BY <1>1, <1>3, <1>4, <1>5, Advance
<1>7. Types'
  <2>1. tasks' = tasks /\ UNCHANGED <<kind, attempts, current, pending, saved, cards, job, calls>>
    BY <1>1 DEF test, deck, loop
  <2>2. QED
    BY <2>1, <1>4, <1>6 DEF Types
<1>8. BookFits'
  <2>1. s \in {"clear", "put"} =>
          /\ j.of \in {0, current}
          /\ j.op \in {"count", "reflag", "idea"} => attempts[current].answers[j.item].at = "reviewed"
    BY DEF s, Refused, Late, NoReview
  <2>2. QED
    BY <1>1, <1>4, <1>6, <2>1 DEF BookFits, test
<1>9. \A u \in Threads : /\ ~Saving(u, {"cards", "show"}) /\ ~Saving(u, {"show"})
                         /\ ~Saving(u, {"cards", "show"})' /\ ~Saving(u, {"show"})'
                         /\ Saving(u, {"page", "cards", "show"})' => u = t /\ s = "page"
  BY <1>1, <1>3, <1>6 DEF Saving
<1>10. PagesFit'
  BY <1>1, <1>3, <1>9 DEF PagesFit, deck
<1>11. CardsFit'
  <2>1. PendingRead'
    BY <1>1, <1>4, <1>6 DEF PendingRead, deck
  <2>2. CardsRead'
    <3>1. CASE kind = "deck"
      BY <3>1, <1>4, <1>6 DEF CardsFit, CardsRead, Marking, Types
    <3>2. CASE kind = "test"
      BY <3>2, <1>3, <1>4, <1>6 DEF CardsFit, CardsRead, Marking
    <3>3. QED
      BY <3>1, <3>2 DEF Types
  <2>3. MarksSafe'
    BY <1>1, <1>4, <1>6 DEF CardsFit, MarksSafe, Safe, deck
  <2>4. CallSafe'
    <3>1. ASSUME NEW u \in Threads, (Marking(u) /\ step[u] = "cards")'
          PROVE  u = t /\ saved' /\ saw'[u].cards = cards /\ cards' = cards
      BY <3>1, <1>1, <1>3, <1>4, <1>6 DEF Marking, Types, deck
    <3>2. QED
      BY <3>1, <1>4, <1>6 DEF CardsFit, MarksSafe, CallSafe, Safe
  <2>5. UnsavedBare'
    BY <1>1, <1>4, <1>6, <1>9 DEF CardsFit, UnsavedBare, deck
  <2>6. SavedSafe'
    BY <1>9 DEF SavedSafe
  <2>7. QED
    BY <2>1, <2>2, <2>3, <2>4, <2>5, <2>6 DEF CardsFit
<1>12. QED
  BY <1>6, <1>7, <1>8, <1>10, <1>11

(***************************************************************************)
(* The call of a test writes                                               *)
(***************************************************************************)

LEMMA SumInNat ==
  ASSUME NEW a \in AttemptSet
  PROVE  SumOf(a) \in Nat
<1>1. {q \in a.order : Right(a.answers[q])} \subseteq Questions
  BY DEF AttemptSet
<1>2. QED
  BY <1>1, QuestionsFinite, FS_Subset, FS_CardinalityType DEF SumOf

LEMMA TotalledKeeps ==
  ASSUME NEW a \in AttemptSet
  PROVE  /\ Totalled(a) \in AttemptSet
         /\ Totalled(a).answers = a.answers /\ Totalled(a).order = a.order
  BY SumInNat DEF Totalled, AttemptSet

LEMMA ChangedFits ==
  ASSUME NEW j \in Jobs, j.op \in AnswerOps, NEW e \in Entries, NEW n \in Nat
  PROVE  /\ Changed(j, e, n) \in Entries
         /\ j.op \in {"answer", "say", "flag"} => Changed(j, e, n).of = n
         /\ j.op \in {"review", "fail"} => Changed(j, e, n).of = j.of
         /\ j.op \in {"count", "reflag", "idea"} => Changed(j, e, n).of = e.of
<1>1. \A p \in Places, m \in Nat, r \in BOOLEAN : Entry(p, m, r) \in Entries /\ Entry(p, m, r).of = m
  BY DEF Entry, Entries
<1>2. CASE j.op \in {"answer", "say", "flag"}
  <2>1. \E p \in Places, r \in BOOLEAN : Changed(j, e, n) = Entry(p, n, r)
    BY <1>2 DEF Changed, Jobs, Places
  <2>2. QED
    BY <1>1, <1>2, <2>1
<1>3. CASE j.op \in {"review", "fail"}
  <2>1. \E p \in Places, r \in BOOLEAN : Changed(j, e, n) = Entry(p, j.of, r)
    BY <1>3 DEF Changed, Jobs, Places
  <2>2. j.of \in Nat
    BY DEF Jobs
  <2>3. QED
    BY <1>1, <1>3, <2>1, <2>2
<1>4. CASE j.op \in {"count", "reflag", "idea"}
  BY <1>4 DEF Changed, Jobs, Entries
<1>5. QED
  BY <1>2, <1>3, <1>4 DEF AnswerOps

\* A call of a test leaves what is said of decks alone.
LEMMA TestKeepsDeck ==
  ASSUME IInv, StudyInv, NEW t \in Threads, Holds(t), kind = "test",
         UNCHANGED <<locks, kind, deck, job>>,
         \A u \in Threads : u # t => saw'[u] = saw[u]
  PROVE  PagesFit' /\ CardsFit'
<1> USE DEF StudyInv
<1>1. job[t].op \in TestOps /\ Inside(t)
  BY InBlock
<1>2. \A u \in Threads : (Holds(u) <=> u = t) /\ (Holds(u)' <=> u = t)
  BY OneHolds DEF Holds, locks
<1>3. \A u \in Threads : (Outside(u)' <=> Outside(u)) /\ (Outside(u) => u # t)
  BY <1>1 DEF Inside, Outside
<1>4. \A u \in Threads : \A s : ~Saving(u, s) /\ ~Saving(u, s)'
  BY <1>1, <1>2 DEF Saving, TestOps, AnswerOps
<1>5. \A u \in Threads : ~Marking(u) /\ ~Marking(u)'
  BY <1>1, <1>2 DEF Marking, TestOps, AnswerOps
<1>6. UNCHANGED <<pending, saved, pages, cards>>
  BY DEF deck
<1>7. PagesFit'
  BY <1>4, <1>6 DEF PagesFit
<1>8. PendingRead' /\ SavedSafe'
  BY <1>4 DEF PendingRead, SavedSafe
<1>9. CardsRead' /\ CallSafe'
  BY <1>3, <1>5 DEF CardsFit, CardsRead, CallSafe
<1>10. MarksSafe'
  BY <1>3, <1>6 DEF CardsFit, MarksSafe, Safe
<1>11. UnsavedBare'
  BY <1>3, <1>4, <1>6 DEF CardsFit, UnsavedBare
<1>12. QED
  BY <1>7, <1>8, <1>9, <1>10, <1>11 DEF CardsFit

LEMMA ClearKeeps ==
  ASSUME IInv, StudyInv, NEW t \in Threads, Clear(t)
  PROVE  StudyInv'
<1> USE DEF StudyInv
<1>1. /\ Holds(t) /\ step[t] = "clear" /\ step' = [step EXCEPT ![t] = "put"]
      /\ UNCHANGED <<locks, kind, attempts, current, deck, loop, job, saw, calls>>
  BY DEF Clear, At, Goes
<1>2. Inside(t) /\ job[t].op = "retake" /\ kind = "test"
  BY <1>1, InBlock DEF StepFits, JobFits, TestOps
<1>3. saw'[t].n \in Nat \ {0}
  BY <1>1, <1>2 DEF SawFits
<1>4. StepFits("retake", "put")
  BY DEF StepFits, Steps, TestOps
<1>5. /\ JobsFit' /\ SawFits' /\ TasksFit' /\ step' \in [Threads -> Steps \cup {Nothing}]
      /\ step'[t] = "put" /\ (\A u \in Threads : u # t => step'[u] = step[u])
      /\ \A u \in Threads : (Holds(u) <=> u = t) /\ (Holds(u)' <=> u = t)
  BY <1>1, <1>2, <1>3, <1>4, Advance
<1>6. Types'
  BY <1>1, <1>5 DEF Types, deck, loop
<1>7. BookFits'
  BY <1>1, <1>5 DEF BookFits
<1>8. PagesFit' /\ CardsFit'
  BY <1>1, <1>2, TestKeepsDeck
<1>9. QED
  BY <1>5, <1>6, <1>7, <1>8

\* What put_attempt writes: one answer of the current attempt, given in that attempt; that it is
\* finished; or another attempt after it.
Answered(b) ==
  \E q \in Questions, e \in Entries :
    b = [attempts[current] EXCEPT !.answers[q] = e] /\ e.of = current

LEMMA PutWrites ==
  ASSUME IInv, StudyInv, NEW t \in Threads, Put(t)
  PROVE  /\ Holds(t) /\ kind = "test" /\ step[t] = "put" /\ attempts[current] \in AttemptSet
         /\ \/ /\ job[t].op = "finish"
               /\ attempts' = [attempts EXCEPT ![current] =
                                 Totalled([attempts[current] EXCEPT !.finished = TRUE])]
            \/ /\ job[t].op = "retake"
               /\ \E order \in SUBSET Questions : attempts' = Append(attempts, Attempt(order))
            \/ /\ job[t].op \in AnswerOps
               /\ \E b : Answered(b) /\ attempts' = [attempts EXCEPT ![current] = Totalled(b)]
<1> DEFINE j == job[t]
           a == attempts[current]
<1> USE DEF StudyInv
<1>1. Holds(t) /\ step[t] = "put"
  BY DEF Put, At
<1>2. Inside(t) /\ JobFits(j) /\ j.op \in TestOps /\ kind = "test"
  BY <1>1, InBlock DEF StepFits, JobFits
<1>3. /\ saw[t].n = current /\ saw[t].attempt = a /\ j.of \in {0, current}
      /\ j.op \in {"count", "reflag", "idea"} => a.answers[j.item].at = "reviewed"
  BY <1>1, <1>2 DEF BookFits
<1>4. a \in AttemptSet /\ current \in Nat /\ current \in 1..Len(attempts)
  BY DEF Types
<1>5. CASE j.op = "finish"
  BY <1>1, <1>2, <1>3, <1>4, <1>5 DEF Put
<1>6. CASE j.op = "retake"
  <2>1. attempts' = Append(attempts, Attempt(IF j.right THEN Mistakes(a) ELSE Questions))
    BY <1>3, <1>6 DEF Put
  <2>2. Mistakes(a) \subseteq Questions
    BY <1>4 DEF Mistakes, AttemptSet
  <2>3. QED
    BY <1>1, <1>2, <1>4, <1>6, <2>1, <2>2
<1>7. CASE j.op \in AnswerOps
  <2> DEFINE e == Changed(j, a.answers[j.item], current)
  <2>1. attempts' = [attempts EXCEPT ![current] = Totalled([a EXCEPT !.answers[j.item] = e])]
    BY <1>3, <1>7 DEF Put, AnswerOps
  <2>2. j.item \in Questions /\ j \in Jobs /\ a.answers[j.item] \in Entries
    BY <1>2, <1>4, <1>7 DEF JobFits, AttemptSet
  <2>3. /\ e \in Entries
        /\ j.op \in {"answer", "say", "flag"} => e.of = current
        /\ j.op \in {"review", "fail"} => e.of = j.of
        /\ j.op \in {"count", "reflag", "idea"} => e.of = a.answers[j.item].of
    BY <1>4, <1>7, <2>2, ChangedFits
  <2>4. e.of = current
    <3>1. CASE j.op \in {"answer", "say", "flag"}
      BY <2>3, <3>1
    <3>2. CASE j.op \in {"review", "fail"}
      BY <1>2, <1>3, <2>3, <3>2 DEF JobFits
    <3>3. CASE j.op \in {"count", "reflag", "idea"}
      BY <1>3, <1>4, <2>2, <2>3, <3>3 DEF BookFits
    <3>4. QED
      BY <1>7, <3>1, <3>2, <3>3 DEF AnswerOps
  <2>5. Answered([a EXCEPT !.answers[j.item] = e])
    BY <2>2, <2>3, <2>4 DEF Answered
  <2>6. QED
    BY <1>1, <1>2, <1>4, <1>7, <2>1, <2>5
<1>8. QED
  BY <1>2, <1>5, <1>6, <1>7 DEF TestOps

LEMMA PutKeeps ==
  ASSUME IInv, StudyInv, NEW t \in Threads, Put(t)
  PROVE  StudyInv'
<1> DEFINE s == IF job[t].op \in {"finish", "retake"} THEN "show" ELSE "done"
           a == attempts[current]
           Ofs(b, n) == \A q \in Questions : b.answers[q].at = "reviewed" => b.answers[q].of = n
           Fits == /\ attempts' \in Seq(AttemptSet) /\ current \in 1..Len(attempts')
                   /\ \A n \in 1..Len(attempts') : Ofs(attempts'[n], n)
<1> USE DEF StudyInv
<1>1. /\ Holds(t) /\ step[t] = "put" /\ step' = [step EXCEPT ![t] = s]
      /\ UNCHANGED <<locks, kind, current, over, deck, loop, job, saw, calls>>
  BY DEF Put, At, Goes
<1>2. kind = "test" /\ a \in AttemptSet
  BY PutWrites
<1>3. Inside(t) /\ StepFits(job[t].op, "put")
  BY <1>1, InBlock
<1>4. StepFits(job[t].op, s) /\ s # "look" /\ s \notin {"clear", "put"}
  BY <1>3 DEF StepFits, Steps
<1>5. saw'[t].n \in Nat \ {0}
  BY <1>1, <1>2, <1>3 DEF SawFits
<1>6. /\ JobsFit' /\ SawFits' /\ TasksFit' /\ step' \in [Threads -> Steps \cup {Nothing}]
      /\ step'[t] = s /\ (\A u \in Threads : u # t => step'[u] = step[u])
      /\ \A u \in Threads : (Holds(u) <=> u = t) /\ (Holds(u)' <=> u = t)
  BY <1>1, <1>4, <1>5, Advance
<1>7. attempts \in Seq(AttemptSet) /\ current \in 1..Len(attempts)
      /\ \A n \in 1..Len(attempts) : attempts[n] \in AttemptSet /\ Ofs(attempts[n], n)
  BY DEF Types, BookFits
<1>8. ASSUME NEW b \in AttemptSet, Ofs(b, current), attempts' = [attempts EXCEPT ![current] = b]
      PROVE  Fits
  <2>1. attempts' \in Seq(AttemptSet) /\ Len(attempts') = Len(attempts)
    BY <1>7, <1>8
  <2>2. \A n \in 1..Len(attempts) : attempts'[n] = IF n = current THEN b ELSE attempts[n]
    BY <1>7, <1>8
  <2>3. QED
    BY <1>7, <1>8, <2>1, <2>2
<1>9. Fits
  <2>1. CASE attempts' = [attempts EXCEPT ![current] = Totalled([a EXCEPT !.finished = TRUE])]
    <3> DEFINE b == [a EXCEPT !.finished = TRUE]
    <3>1. b \in AttemptSet /\ b.answers = a.answers
      BY <1>2 DEF AttemptSet
    <3>2. Totalled(b) \in AttemptSet /\ Totalled(b).answers = a.answers
      BY <3>1, TotalledKeeps
    <3>3. Ofs(Totalled(b), current)
      BY <1>7, <3>2
    <3>4. QED
      BY <1>8, <2>1, <3>2, <3>3
  <2>2. ASSUME NEW order \in SUBSET Questions, attempts' = Append(attempts, Attempt(order))
        PROVE  Fits
    <3>1. Attempt(order) \in AttemptSet /\ Ofs(Attempt(order), Len(attempts) + 1)
      BY DEF Attempt, AttemptSet, NoAnswer, Entry, Entries, Places
    <3>2. /\ attempts' \in Seq(AttemptSet) /\ Len(attempts') = Len(attempts) + 1
          /\ \A n \in 1..Len(attempts) : attempts'[n] = attempts[n]
          /\ attempts'[Len(attempts) + 1] = Attempt(order)
      BY <1>7, <2>2, <3>1
    <3>3. QED
      BY <1>7, <3>1, <3>2
  <2>3. ASSUME NEW b, Answered(b), attempts' = [attempts EXCEPT ![current] = Totalled(b)]
        PROVE  Fits
    <3>1. PICK q \in Questions, e \in Entries :
            b = [a EXCEPT !.answers[q] = e] /\ e.of = current
      BY <2>3 DEF Answered
    <3>2. b \in AttemptSet /\ b.answers = [a.answers EXCEPT ![q] = e]
      BY <1>2, <3>1 DEF AttemptSet
    <3>3. Totalled(b) \in AttemptSet /\ Totalled(b).answers = b.answers
      BY <3>2, TotalledKeeps
    <3>4. \A p \in Questions : b.answers[p] = IF p = q THEN e ELSE a.answers[p]
      <4>1. a.answers \in [Questions -> Entries]
        BY <1>2 DEF AttemptSet
      <4>2. QED
        BY <3>2, <4>1
    <3>5. Ofs(a, current)
      BY <1>7
    <3>6. Ofs(Totalled(b), current)
      BY <3>1, <3>3, <3>4, <3>5
    <3>7. QED
      BY <1>8, <2>3, <3>3, <3>6
  <2>4. QED
    BY <2>1, <2>2, <2>3, PutWrites
<1>10. Types'
  BY <1>1, <1>6, <1>9 DEF Types, deck, loop
<1>11. BookFits'
  BY <1>1, <1>4, <1>6, <1>9 DEF BookFits
<1>12. PagesFit' /\ CardsFit'
  BY <1>1, <1>2, TestKeepsDeck
<1>13. QED
  BY <1>6, <1>10, <1>11, <1>12

(***************************************************************************)
(* The call of a deck writes                                               *)
(***************************************************************************)
LEMMA WritePageKeeps ==
  ASSUME IInv, StudyInv, NEW t \in Threads, WritePage(t)
  PROVE  StudyInv'
<1> USE DEF StudyInv
<1>1. /\ Holds(t) /\ step[t] = "page" /\ step' = [step EXCEPT ![t] = "cards"]
      /\ pages' = pages + 1
      /\ UNCHANGED <<locks, kind, test, pending, saved, cards, loop, job, saw, calls>>
  BY DEF WritePage, At, Goes
<1>2. job[t].op = "save" /\ kind = "deck"
  BY <1>1, InBlock DEF StepFits, JobFits, TestOps, AnswerOps, Types
<1>3. StepFits("save", "cards")
  BY DEF StepFits, Steps, DeckOps
<1>4. /\ JobsFit' /\ SawFits' /\ TasksFit' /\ step' \in [Threads -> Steps \cup {Nothing}]
      /\ step'[t] = "cards" /\ (\A u \in Threads : u # t => step'[u] = step[u])
      /\ \A u \in Threads : (Holds(u) <=> u = t) /\ (Holds(u)' <=> u = t)
      /\ \A u \in Threads : (Outside(u)' <=> Outside(u)) /\ (Outside(u) => u # t)
  BY <1>1, <1>2, <1>3, Advance
<1>5. Types'
  BY <1>1, <1>4 DEF Types, test, loop
<1>6. BookFits'
  BY <1>1, <1>2, <1>4 DEF BookFits, test
<1>7. ~saved /\ pages = 0
  BY <1>1, <1>2, <1>4 DEF PagesFit, Saving
<1>8. Saving(t, {"cards", "show"})'
  BY <1>1, <1>2, <1>4 DEF Saving
<1>9. PagesFit'
  BY <1>1, <1>7, <1>8 DEF PagesFit
<1>10. \A u \in Threads : ~Marking(u)' /\ ~Saving(u, {"show"}) /\ ~Saving(u, {"show"})'
  BY <1>1, <1>2, <1>4 DEF Marking, Saving
<1>11. CardsFit'
  <2>1. PendingRead'
    BY <1>1, <1>2, <1>4 DEF CardsFit, PendingRead
  <2>2. CardsRead' /\ CallSafe' /\ SavedSafe'
    BY <1>1, <1>4, <1>10 DEF CardsFit, CardsRead, CallSafe, SavedSafe
  <2>3. MarksSafe'
    BY <1>1, <1>4 DEF CardsFit, MarksSafe, Safe
  <2>4. UnsavedBare'
    BY <1>1, <1>4, <1>10 DEF CardsFit, UnsavedBare
  <2>5. QED
    BY <2>1, <2>2, <2>3, <2>4 DEF CardsFit
<1>12. QED
  BY <1>4, <1>5, <1>6, <1>9, <1>11

\* The cards that a saved deck gets: what waited for it, and nothing that was there is lost.
LEMMA SavedCards ==
  ASSUME IInv, StudyInv, NEW t \in Threads, PutCards(t), job[t].op = "save"
  PROVE  /\ cards' \in [Cards -> SUBSET Nat] /\ ~saved
         /\ \A c \in Cards : Safe(pending[c], cards'[c])
         /\ \A u \in Threads, c \in Cards : Outside(u) => Safe(saw[u].cards[c], cards'[c])
<1> USE DEF StudyInv
<1>1. /\ Holds(t) /\ step[t] = "cards"
      /\ cards' = [d \in Cards |-> IF saw[t].pending[d] = {} THEN cards[d] ELSE saw[t].pending[d]]
  BY DEF PutCards, At
<1>2. kind = "deck"
  BY <1>1, InBlock DEF JobFits, TestOps, AnswerOps, Types
<1>3. saw[t].pending = pending
  BY <1>1, <1>2 DEF CardsFit, PendingRead
<1>4. ~saved /\ (\A u \in Threads : ~Saving(u, {"show"}))
  BY <1>1, OneHolds DEF PagesFit, Saving
<1>5. \A u \in Threads, c \in Cards : Outside(u) => saw[u].cards[c] \subseteq {OnPage}
  BY <1>4 DEF CardsFit, UnsavedBare
<1>6. \A c \in Cards : cards'[c] = IF pending[c] = {} THEN cards[c] ELSE pending[c]
  BY <1>1, <1>3
<1>7. cards' \in [Cards -> SUBSET Nat]
  BY <1>1, <1>3 DEF Types
<1>8. QED
  BY <1>4, <1>5, <1>6, <1>7 DEF Safe

\* The cards after a grade or a mark of a saved deck.
LEMMA GradedCards ==
  ASSUME IInv, StudyInv, NEW t \in Threads, PutCards(t), job[t].op # "save"
  PROVE  /\ cards' \in [Cards -> SUBSET Nat] /\ saved
         /\ \A c \in Cards : Safe(cards[c], cards'[c])
         /\ \A u \in Threads, c \in Cards : Outside(u) => Safe(saw[u].cards[c], cards'[c])
<1> DEFINE i == job[t].item
<1> USE DEF StudyInv
<1>1. /\ Holds(t) /\ step[t] = "cards"
      /\ cards' = [cards EXCEPT ![i] = Taken(t, saw[t].cards)[i]]
  BY DEF PutCards, At
<1>2. job[t].op \in {"grade", "mark"} /\ i \in Cards /\ job[t].id \in Nat
  BY <1>1, InBlock DEF StepFits, JobFits, DeckOps, Jobs
<1>3. saw[t].cards \in [Cards -> SUBSET Nat]
  BY <1>1, <1>2 DEF CardsFit, CardsRead, Marking
<1>4. /\ saved /\ \A c \in Cards : Safe(cards[c], saw[t].cards[c])
      /\ \A u \in Threads, c \in Cards : Outside(u) => Safe(saw[u].cards[c], saw[t].cards[c])
  BY <1>1, <1>2 DEF CardsFit, CallSafe, Marking
<1>5. /\ cards'[i] = saw[t].cards[i] \cup {job[t].id}
      /\ \A c \in Cards : c # i => cards'[c] = cards[c]
      /\ cards' \in [Cards -> SUBSET Nat]
  BY <1>1, <1>2, <1>3 DEF Taken, Types
<1>6. \A u \in Threads, c \in Cards : Outside(u) => Safe(saw[u].cards[c], cards[c])
  BY DEF CardsFit, MarksSafe
<1>7. QED
  BY <1>2, <1>4, <1>5, <1>6 DEF Safe

LEMMA PutCardsKeeps ==
  ASSUME IInv, StudyInv, NEW t \in Threads, PutCards(t)
  PROVE  StudyInv'
<1> DEFINE s == IF job[t].op = "mark" THEN "done" ELSE "show"
<1> USE DEF StudyInv
<1>1. /\ Holds(t) /\ step[t] = "cards" /\ step' = [step EXCEPT ![t] = s]
      /\ UNCHANGED <<locks, kind, test, pending, saved, pages, loop, job, saw, calls>>
  BY DEF PutCards, At, Goes
<1>2. job[t].op \in DeckOps /\ kind = "deck"
  BY <1>1, InBlock DEF StepFits, JobFits, DeckOps, TestOps, AnswerOps, Types
<1>3. StepFits(job[t].op, s) /\ s # "look" /\ s # "cards"
  BY <1>2 DEF StepFits, Steps
<1>4. /\ JobsFit' /\ SawFits' /\ TasksFit' /\ step' \in [Threads -> Steps \cup {Nothing}]
      /\ step'[t] = s /\ (\A u \in Threads : u # t => step'[u] = step[u])
      /\ \A u \in Threads : (Holds(u) <=> u = t) /\ (Holds(u)' <=> u = t)
      /\ \A u \in Threads : (Outside(u)' <=> Outside(u)) /\ (Outside(u) => u # t)
  BY <1>1, <1>2, <1>3, Advance
<1>5. /\ cards' \in [Cards -> SUBSET Nat]
      /\ \A u \in Threads, c \in Cards : Outside(u) => Safe(saw[u].cards[c], cards'[c])
  BY SavedCards, GradedCards
<1>6. Types'
  BY <1>1, <1>4, <1>5 DEF Types, test, loop
<1>7. BookFits'
  BY <1>1, <1>2, <1>4 DEF BookFits, test
<1>8. \A u \in Threads : /\ Saving(u, {"cards", "show"})' <=> Saving(u, {"cards", "show"})
                         /\ Saving(u, {"page", "cards", "show"})' => Saving(u, {"page", "cards", "show"})
                         /\ Saving(u, {"show"})' <=> u = t /\ job[t].op = "save"
                         /\ ~Saving(u, {"show"})
  BY <1>1, <1>4 DEF Saving
<1>9. PagesFit'
  BY <1>1, <1>8 DEF PagesFit
<1>10. CardsFit'
  <2>1. PendingRead'
    BY <1>1, <1>2, <1>4 DEF CardsFit, PendingRead
  <2>2. CardsRead' /\ CallSafe'
    BY <1>1, <1>3, <1>4 DEF CardsFit, CardsRead, CallSafe, Marking
  <2>3. MarksSafe'
    BY <1>1, <1>4, <1>5 DEF MarksSafe
  <2>4. UnsavedBare'
    BY <1>1, <1>8, GradedCards DEF UnsavedBare
  <2>5. SavedSafe'
    BY <1>1, <1>8, SavedCards DEF SavedSafe
  <2>6. QED
    BY <2>1, <2>2, <2>3, <2>4, <2>5 DEF CardsFit
<1>11. QED
  BY <1>4, <1>6, <1>7, <1>9, <1>10

LEMMA ShowKeeps ==
  ASSUME IInv, StudyInv, NEW t \in Threads, Show(t)
  PROVE  StudyInv'
<1> DEFINE op == job[t].op
           i == job[t].item
<1> USE DEF StudyInv
<1>1. /\ Holds(t) /\ step[t] = "show" /\ step' = [step EXCEPT ![t] = "done"]
      /\ current' = IF op = "retake" THEN Len(attempts) ELSE current
      /\ saved' = (op = "save" \/ saved)
      /\ pending' = IF op \in {"grade", "mark"} /\ ~saved THEN Taken(t, saw[t].pending) ELSE pending
      /\ UNCHANGED <<locks, kind, attempts, pages, cards, loop, job, saw, calls>>
  BY DEF Show, At, Goes
<1>2. /\ op \in DeckOps \cup {"finish", "retake"} /\ (op \in DeckOps <=> kind = "deck")
      /\ job[t].id \in Nat /\ Inside(t)
  BY <1>1, InBlock DEF StepFits, JobFits, DeckOps, TestOps, AnswerOps, Types, Jobs
<1>3. StepFits(op, "done")
  BY DEF StepFits, Steps
<1>4. kind = "test" => saw'[t].n \in Nat \ {0}
  BY <1>1, <1>2 DEF SawFits
<1>5. /\ JobsFit' /\ SawFits' /\ TasksFit' /\ step' \in [Threads -> Steps \cup {Nothing}]
      /\ step'[t] = "done" /\ (\A u \in Threads : u # t => step'[u] = step[u])
      /\ \A u \in Threads : (Holds(u) <=> u = t) /\ (Holds(u)' <=> u = t)
      /\ \A u \in Threads : (Outside(u)' <=> Outside(u)) /\ (Outside(u) => u # t)
  BY <1>1, <1>3, <1>4, Advance
<1>6. pending' \in [Cards -> SUBSET Nat] /\ \A c \in Cards : pending[c] \subseteq pending'[c]
  <2>1. CASE op \in {"grade", "mark"} /\ ~saved
    <3>1. saw[t].pending = pending
      BY <1>1, <1>2, <2>1 DEF CardsFit, PendingRead, DeckOps
    <3>2. pending' = [pending EXCEPT ![i] = @ \cup {job[t].id}]
      BY <1>1, <2>1, <3>1 DEF Taken
    <3>3. QED
      BY <1>2, <3>2 DEF Types
  <2>2. QED
    BY <1>1, <2>1 DEF Types
<1>7. Types'
  BY <1>1, <1>5, <1>6 DEF Types, loop
<1>8. BookFits'
  BY <1>1, <1>5 DEF BookFits
<1>9. \A u \in Threads : /\ ~Saving(u, {"cards", "show"})' /\ ~Saving(u, {"show"})'
                         /\ ~Saving(u, {"page", "cards", "show"})' /\ ~(Marking(u) /\ step[u] = "cards")'
                         /\ Saving(u, {"cards", "show"}) <=> u = t /\ op = "save"
                         /\ Saving(u, {"show"}) <=> u = t /\ op = "save"
  BY <1>1, <1>5 DEF Saving, Marking
<1>10. PagesFit'
  BY <1>1, <1>9 DEF PagesFit, Types
<1>11. CardsFit'
  <2>1. PendingRead' /\ CallSafe' /\ SavedSafe'
    BY <1>5, <1>9 DEF PendingRead, CallSafe, SavedSafe
  <2>2. CardsRead' /\ MarksSafe'
    BY <1>1, <1>5, <1>9 DEF CardsFit, CardsRead, MarksSafe, Safe
  <2>3. UnsavedBare'
    BY <1>1, <1>5, <1>9 DEF CardsFit, UnsavedBare
  <2>4. QED
    BY <2>1, <2>2, <2>3 DEF CardsFit
<1>12. QED
  BY <1>5, <1>7, <1>8, <1>10, <1>11

(***************************************************************************)
(* The invariant                                                           *)
(***************************************************************************)
LEMMA InitStudyInv == StudyInit => StudyInv
<1> SUFFICES ASSUME StudyInit PROVE StudyInv
  OBVIOUS
<1>1. /\ kind \in {"deck", "test"} /\ attempts = <<Attempt(Questions)>> /\ current = 1
      /\ saved \in BOOLEAN /\ pages = (IF saved THEN 1 ELSE 0)
      /\ pending = [c \in Cards |-> {}] /\ cards = pending /\ tasks = {} /\ calls = 0
      /\ job = [t \in Threads |-> Nothing] /\ step = job /\ saw = job
  BY DEF StudyInit
<1>2. Attempt(Questions) \in AttemptSet
  BY DEF Attempt, AttemptSet, NoAnswer, Entry, Entries, Places
<1>3. Types
  BY <1>1, <1>2 DEF Types
<1>4. \A t \in Threads : ~Inside(t) /\ ~Outside(t) /\ ~Holds(t)
  BY <1>1 DEF Inside, Outside, Holds
<1>5. JobsFit /\ SawFits /\ TasksFit
  BY <1>1, <1>4 DEF JobsFit, SawFits, TasksFit
<1>6. BookFits
  BY <1>1, <1>4 DEF BookFits, Attempt, NoAnswer, Entry
<1>7. PagesFit
  BY <1>1, <1>4 DEF PagesFit, Saving
<1>8. CardsFit
  BY <1>1, <1>4 DEF CardsFit, PendingRead, CardsRead, MarksSafe, CallSafe, UnsavedBare, SavedSafe,
                    Marking, Saving
<1>9. QED
  BY <1>3, <1>5, <1>6, <1>7, <1>8 DEF StudyInv

LEMMA NextStudyInv == IInv /\ StudyInv /\ [StudyNext]_studyVars => StudyInv'
<1> SUFFICES ASSUME IInv, StudyInv, [StudyNext]_studyVars PROVE StudyInv'
  OBVIOUS
<1>1. CASE UNCHANGED studyVars
  <2>1. calls' = calls /\ tasks' = tasks /\ calls \in Nat /\ tasks \subseteq TaskSet
    BY <1>1 DEF studyVars, loop, StudyInv, Types
  <2>2. TasksFit'
    BY <1>1 DEF studyVars, loop, work, StudyInv, TasksFit
  <2>3. QED
    BY <1>1, <2>1, <2>2, LoopKeeps DEF studyVars
<1>2. ASSUME NEW t \in Threads, Ask(t) \/ Run(t) \/ MarkPut(t) \/ Take(t) \/ Other(t)
      PROVE  StudyInv'
  <2>1. CASE Ask(t)
    BY <2>1, AskKeeps, MarkOnPageKeeps DEF Ask
  <2>2. CASE Run(t)
    BY <2>2, LookKeeps, ClearKeeps, PutKeeps, WritePageKeeps, PutCardsKeeps, ShowKeeps, LockKeeps,
       ReturnKeeps DEF Run
  <2>3. QED
    BY <1>2, <2>1, <2>2, MarkPutKeeps, LockKeeps
<1>3. ASSUME NEW w \in tasks, Loop(w)
      PROVE  StudyInv'
  BY <1>3, TaskKeeps, HandKeeps, BlockIsKey DEF Loop
<1>4. QED
  BY <1>1, <1>2, <1>3, BeginKeeps DEF StudyNext

LEMMA StudyInvHolds == StudySpec => [](IInv /\ StudyInv)
<1>1. StudyInit => IInv /\ StudyInv
  BY InitIInv, InitStudyInv DEF StudyInit
<1>2. IInv /\ StudyInv /\ [StudyNext]_studyVars => (IInv /\ StudyInv)'
  BY LocksStep, NextIInv, NextStudyInv
<1>3. QED
  BY <1>1, <1>2, PTL DEF StudySpec

(***************************************************************************)
(* The theorems                                                            *)
(***************************************************************************)

\* One thread holds the lock of an id also when the users are the calls of a study block.
THEOREM StudyExcludes == StudySpec => []MutualExclusion
<1>1. IInv => MutualExclusion
  BY DEF IInv, Linked, MutualExclusion
<1>2. QED
  BY <1>1, LocksHold, PTL

\* A deck is saved to one page, however many calls of save overlap.
THEOREM OnePage == StudySpec => []SavedOnce
<1>1. StudyInv => SavedOnce
  BY DEF StudyInv, PagesFit, Types, SavedOnce
<1>2. QED
  BY <1>1, StudyInvHolds, PTL

\* What a step may do to the cards: a call of the block loses nothing, and a mark on the deck's
\* page leaves its number where it overwrites.
LEMMA StepKeepsGrades ==
  ASSUME IInv, StudyInv, [StudyNext]_studyVars, NEW c \in Cards
  PROVE  Held(c) \subseteq Held(c)' \cup {OnPage} \/ OnPage \in cards'[c]
<1> USE DEF Held
<1>1. CASE UNCHANGED <<saved, pending, cards>>
  BY <1>1
<1>2. ASSUME NEW t \in Threads, PutCards(t)
      PROVE  Held(c) \subseteq Held(c)' \cup {OnPage} \/ OnPage \in cards'[c]
  <2>1. saved' = saved /\ pending' = pending
    BY <1>2 DEF PutCards
  <2>2. CASE job[t].op = "save"
    BY <1>2, <2>1, <2>2, SavedCards
  <2>3. CASE job[t].op # "save"
    BY <1>2, <2>1, <2>3, GradedCards DEF Safe
  <2>4. QED
    BY <2>2, <2>3
<1>3. ASSUME NEW t \in Threads, Show(t)
      PROVE  Held(c) \subseteq Held(c)' \cup {OnPage} \/ OnPage \in cards'[c]
  <2>1. /\ Holds(t) /\ step[t] = "show" /\ cards' = cards
        /\ saved' = (job[t].op = "save" \/ saved)
        /\ pending' = IF job[t].op \in {"grade", "mark"} /\ ~saved THEN Taken(t, saw[t].pending) ELSE pending
    BY <1>3 DEF Show, At
  <2>2. CASE job[t].op = "save"
    <3>1. Safe(pending[c], cards[c])
      BY <2>1, <2>2 DEF StudyInv, CardsFit, SavedSafe, Saving
    <3>2. ~saved
      BY <2>1, <2>2 DEF StudyInv, PagesFit, Saving
    <3>3. QED
      BY <2>1, <2>2, <3>1, <3>2 DEF Safe
  <2>3. CASE job[t].op \in {"grade", "mark"} /\ ~saved
    <3>1. kind = "deck"
      BY <2>1, <2>3, InBlock DEF JobFits, TestOps, AnswerOps, StudyInv, Types
    <3>2. saw[t].pending = pending
      BY <2>1, <3>1 DEF StudyInv, CardsFit, PendingRead
    <3>3. pending[c] \subseteq pending'[c]
      BY <2>1, <2>3, <3>2 DEF Taken, StudyInv, Types
    <3>4. QED
      BY <2>1, <2>3, <3>3 DEF StudyInv, Types
  <2>4. CASE job[t].op # "save" /\ ~(job[t].op \in {"grade", "mark"} /\ ~saved)
    BY <2>1, <2>4 DEF StudyInv, Types
  <2>5. QED
    BY <2>2, <2>3, <2>4
<1>4. ASSUME NEW t \in Threads, MarkPut(t)
      PROVE  Held(c) \subseteq Held(c)' \cup {OnPage} \/ OnPage \in cards'[c]
  <2>1. /\ Outside(t) /\ saved' = saved /\ pending' = pending
        /\ cards' = [cards EXCEPT ![job[t].item] = Taken(t, saw[t].cards)[job[t].item]]
    BY <1>4 DEF MarkPut, Outside
  <2>2. job[t].item \in Cards /\ job[t].id = OnPage /\ saw[t].cards \in [Cards -> SUBSET Nat]
    BY <2>1 DEF StudyInv, JobsFit, JobFits, CardsFit, CardsRead, Outside
  <2>3. c = job[t].item => OnPage \in cards'[c]
    BY <2>1, <2>2 DEF Taken, StudyInv, Types
  <2>4. c # job[t].item => cards'[c] = cards[c]
    BY <2>1, <2>2 DEF StudyInv, Types
  <2>5. QED
    BY <2>1, <2>3, <2>4
<1>5. \/ UNCHANGED <<saved, pending, cards>>
      \/ \E t \in Threads : PutCards(t) \/ Show(t) \/ MarkPut(t)
  <2>1. CASE UNCHANGED studyVars
    BY <2>1 DEF studyVars, deck
  <2>2. ASSUME NEW t \in Threads, Ask(t) \/ Run(t) \/ MarkPut(t) \/ Take(t) \/ Other(t)
        PROVE  UNCHANGED <<saved, pending, cards>> \/ PutCards(t) \/ Show(t) \/ MarkPut(t)
    BY <2>2 DEF Ask, Run, Take, Other, AnswerClosed, CountIdea, Finish, Retake, Study, Save, Enter,
       MarkOnPage, Look, Clear, Put, WritePage, Free, Return, deck
  <2>3. ASSUME NEW q \in Open, CheckOpen(q) \/ RecheckIdea(q)
        PROVE  UNCHANGED <<saved, pending, cards>>
    BY <2>3 DEF CheckOpen, RecheckIdea, deck
  <2>4. ASSUME NEW w \in tasks, Loop(w)
        PROVE  UNCHANGED <<saved, pending, cards>>
    BY <2>4 DEF Loop, Said, Judged, Hand, Enter, deck
  <2>5. QED
    BY <2>1, <2>2, <2>3, <2>4 DEF StudyNext
<1>6. QED
  BY <1>1, <1>2, <1>3, <1>4, <1>5

\* No grade and no mark of the block is lost by another of its calls, whatever their order.
THEOREM GradesAreKept == StudySpec => GradesStay
<1>1. IInv /\ StudyInv /\ [StudyNext]_studyVars =>
        [\A c \in Cards : Held(c) \subseteq Held(c)' \cup {OnPage} \/ OnPage \in cards'[c]]_studyVars
  BY StepKeepsGrades
<1>2. QED
  BY <1>1, StudyInvHolds, PTL DEF StudySpec, GradesStay

\* A new test is a book with one attempt.
LEMMA InitBook == StudyInit => Book!Init
BY DEF StudyInit, Book!Init, Fresh

LEMMA PutInBook ==
  ASSUME IInv, StudyInv, NEW t \in Threads, Put(t)
  PROVE  Book!Next
<1> DEFINE a == attempts[current]
<1> USE DEF StudyInv
<1>1. current' = current /\ current \in 1..Len(attempts) /\ attempts \in Seq(AttemptSet)
  BY DEF Put, Types
<1>2. a \in AttemptSet /\ \A b : Book!Summed(b) = Totalled(b)
  BY PutWrites DEF Book!Summed, Totalled
<1>3. CASE attempts' = [attempts EXCEPT ![current] = Totalled([a EXCEPT !.finished = TRUE])]
  BY <1>1, <1>2, <1>3 DEF Book!Finish, Book!Next
<1>4. ASSUME NEW order \in SUBSET Questions, attempts' = Append(attempts, Attempt(order))
      PROVE  Book!Next
  BY <1>1, <1>4 DEF Fresh, Book!Retake, Book!Next
<1>5. ASSUME NEW b, Answered(b), attempts' = [attempts EXCEPT ![current] = Totalled(b)]
      PROVE  Book!Next
  <2>1. PICK q \in Questions, e \in Entries :
          b = [a EXCEPT !.answers[q] = e] /\ e.of = current
    BY <1>5 DEF Answered
  <2>2. b \in AttemptSet /\ b.answers[q] = e /\ q \in DOMAIN a.answers
    BY <1>2, <2>1 DEF AttemptSet
  <2>3. attempts'[current] = Totalled(b) /\ Totalled(b).answers = b.answers
    BY <1>1, <1>5, <2>2, TotalledKeeps
  <2>4. attempts'[current].answers[q] = e
    BY <2>2, <2>3
  <2>5. Book!Answer(q)
    BY <1>1, <1>2, <1>5, <2>1, <2>4 DEF Book!Answer
  <2>6. QED
    BY <2>2, <2>5 DEF Book!Next
<1>6. QED
  BY <1>3, <1>4, <1>5, PutWrites

LEMMA StepInBook ==
  ASSUME IInv, StudyInv, [StudyNext]_studyVars
  PROVE  Book!Next \/ UNCHANGED <<attempts, current>>
<1>1. CASE UNCHANGED studyVars
  BY <1>1 DEF studyVars, test
<1>2. ASSUME NEW t \in Threads, Ask(t) \/ Run(t) \/ MarkPut(t) \/ Take(t) \/ Other(t)
      PROVE  Book!Next \/ UNCHANGED <<attempts, current>>
  <2>1. CASE Put(t)
    BY <2>1, PutInBook
  <2>2. CASE Show(t)
    BY <2>2 DEF Show, Book!Show, Book!Next
  <2>3. CASE ~Put(t) /\ ~Show(t)
    BY <1>2, <2>3 DEF Ask, Run, MarkPut, Take, Other, AnswerClosed, CountIdea, Finish, Retake, Study, Save, Enter,
       MarkOnPage, Look, Clear, WritePage, PutCards, Free, Return, test
  <2>4. QED
    BY <2>1, <2>2, <2>3
<1>3. ASSUME NEW q \in Open, CheckOpen(q) \/ RecheckIdea(q)
      PROVE  UNCHANGED <<attempts, current>>
  BY <1>3 DEF CheckOpen, RecheckIdea, test
<1>4. ASSUME NEW w \in tasks, Loop(w)
      PROVE  UNCHANGED <<attempts, current>>
  BY <1>4 DEF Loop, Said, Judged, Hand, Enter, test
<1>5. QED
  BY <1>1, <1>2, <1>3, <1>4 DEF StudyNext

\* The rows of a test implement TestBook: a change is to one answer of the attempt it was made for,
\* the total of a finished attempt follows, and an earlier attempt never changes again.
THEOREM BookIsKept == StudySpec => BookKept
<1>1. StudyInit => Book!Init
  BY InitBook
<1>2. IInv /\ StudyInv /\ [StudyNext]_studyVars => [Book!Next]_<<attempts, current>>
  BY StepInBook
<1>3. QED
  BY <1>1, <1>2, StudyInvHolds, PTL DEF StudySpec, BookKept, Book!Spec

(***************************************************************************)
(* A flag has the task that will clear it                                  *)
(***************************************************************************)
Runs(t, w) == job[t] # Nothing /\ job[t].id = w.id

\* A call with a task's number is the write that task waits for, and the only one; a task that
\* waits for the loop or the agent has none.
TasksRun ==
  \A w \in tasks, t \in Threads : Runs(t, w) =>
    /\ w.at \notin {"said", "agent"}
    /\ job[t].op = OpOf(w) /\ job[t].item = w.item /\ job[t].of = w.of
    /\ \A u \in Threads : Runs(u, w) => u = t

\* Nobody but a task flags an answer.
FlagsAreTasks ==
  /\ \A w \in tasks : w.id # 0
  /\ \A t \in Threads : job[t] # Nothing /\ job[t].op \in {"flag", "reflag"} => \E w \in tasks : w.id = job[t].id

\* A call that leaves has done its work; only a reviewed idea is rechecked; and the attempt a
\* retake is about to show has no answer.
CallsEnd == \A t \in Threads : Inside(t) /\ pc[t] = "leave" => step[t] \in {"done", "refused"}
AgainIsReviewed ==
  \A n \in 1..Len(attempts), q \in Questions :
    attempts[n].answers[q].again => attempts[n].answers[q].at = "reviewed"
RetakeIsBlank ==
  \A t \in Threads : Holds(t) /\ job[t].op = "retake" /\ step[t] = "show" =>
    \A q \in Questions : attempts[Len(attempts)].answers[q] = NoAnswer

\* The task has not written its result yet, and the call that will was not refused.
StillWrites(w) ==
  \A t \in Threads : Runs(t, w) => step[t] \in {"look", "put"} \/ (w.at = "flag" /\ step[t] = "done")

Due(what, q) ==
  \E w \in tasks : /\ w.kind = what /\ w.item = q /\ w.of = current /\ w.at \notin {"say", "said"}
                   /\ StillWrites(w)

FlagsAreDue ==
  \A q \in Questions :
    /\ attempts[current].answers[q].at = "checking" => Due("check", q)
    /\ attempts[current].answers[q].again => Due("recheck", q)

LinksFit == TasksRun /\ FlagsAreTasks
AnswersFit == CallsEnd /\ AgainIsReviewed /\ RetakeIsBlank
FlagInv == LinksFit /\ AnswersFit /\ FlagsAreDue

\* The write a task waits for says where it is.
LEMMA OpOfTask ==
  ASSUME NEW w \in TaskSet, w.at \notin {"said", "agent"}
  PROVE  /\ OpOf(w) = "say" <=> w.at = "say"
         /\ OpOf(w) \in {"flag", "reflag"} <=> w.at = "flag"
         /\ w.at # "say" /\ w.kind = "check" => OpOf(w) \in {"flag", "review", "fail"}
         /\ w.at # "say" /\ w.kind = "recheck" => OpOf(w) \in {"reflag", "idea"}
         /\ OpOf(w) = "flag" => w.kind = "check"
         /\ OpOf(w) = "reflag" => w.kind = "recheck"
         /\ OpOf(w) \in {"say", "flag", "reflag", "review", "fail", "idea"}
  BY DEF TaskSet, OpOf

\* What a call leaves of the tasks when it returns.
LEMMA ReturnTasks ==
  ASSUME Types, NEW t \in Threads, Return(t)
  PROVE  /\ job[t] # Nothing /\ pc[t] = "leave" /\ UNCHANGED <<attempts, current>>
         /\ job' = [job EXCEPT ![t] = Nothing] /\ step' = [step EXCEPT ![t] = Nothing]
         /\ pc' = [pc EXCEPT ![t] = "idle"]
         /\ \A w \in tasks : w.id # job[t].id => w \in tasks'
         /\ \A v \in tasks' : \/ v \in tasks /\ v.id # job[t].id
                              \/ \E w \in tasks : w.id = job[t].id /\ v.id = w.id
         /\ job[t].op \in {"flag", "reflag"} /\ step[t] = "done" =>
              \A w \in tasks : w.id = job[t].id => [w EXCEPT !.at = "agent"] \in tasks'
<1> DEFINE mine == {w \in tasks : w.id = job[t].id}
<1>1. /\ job[t] # Nothing /\ pc[t] = "leave" /\ UNCHANGED <<attempts, current>>
      /\ job' = [job EXCEPT ![t] = Nothing] /\ step' = [step EXCEPT ![t] = Nothing]
      /\ pc' = [pc EXCEPT ![t] = "idle"]
      /\ tasks' = (tasks \ mine) \cup UNION {After(w, t) : w \in mine}
  BY DEF Return, Leave, test
<1>2. ASSUME NEW w \in mine, NEW v \in After(w, t) PROVE v.id = w.id
  <2>1. w \in TaskSet
    BY DEF Types
  <2>2. v \in {[w EXCEPT !.at = "said", !.of = saw[t].n], [w EXCEPT !.at = "agent"]}
    BY DEF After
  <2>3. QED
    BY <2>1, <2>2 DEF TaskSet
<1>3. job[t].op \in {"flag", "reflag"} /\ step[t] = "done" =>
        \A w \in mine : [w EXCEPT !.at = "agent"] \in After(w, t)
  BY DEF After
<1>4. \A v \in tasks' : v \in tasks \ mine \/ \E w \in mine : v \in After(w, t)
  BY <1>1
<1>5. \A v \in tasks' : \/ v \in tasks /\ v.id # job[t].id
                        \/ \E w \in tasks : w.id = job[t].id /\ v.id = w.id
  BY <1>2, <1>4
<1>6. QED
  BY <1>1, <1>3, <1>5

\* What put_attempt makes of the answers.
LEMMA PutAnswers ==
  ASSUME IInv, StudyInv, NEW t \in Threads, Put(t)
  PROVE  /\ Holds(t) /\ kind = "test" /\ step[t] = "put" /\ current \in 1..Len(attempts)
         /\ UNCHANGED <<locks, current, job, tasks>>
         /\ step' = [step EXCEPT ![t] = IF job[t].op \in {"finish", "retake"} THEN "show" ELSE "done"]
         /\ \/ /\ job[t].op = "finish" /\ Len(attempts') = Len(attempts)
               /\ \A n \in 1..Len(attempts) : attempts'[n].answers = attempts[n].answers
            \/ /\ job[t].op = "retake" /\ Len(attempts') = Len(attempts) + 1
               /\ \A n \in 1..Len(attempts) : attempts'[n] = attempts[n]
               /\ \E order \in SUBSET Questions : attempts'[Len(attempts')] = Attempt(order)
            \/ /\ job[t].op \in AnswerOps /\ Len(attempts') = Len(attempts) /\ job[t].item \in Questions
               /\ \A n \in 1..Len(attempts), q \in Questions :
                    attempts'[n].answers[q] = IF n = current /\ q = job[t].item
                                              THEN Changed(job[t], attempts[n].answers[q], current)
                                              ELSE attempts[n].answers[q]
<1> DEFINE j == job[t]
           a == attempts[current]
<1> USE DEF StudyInv
<1>1. /\ Holds(t) /\ step[t] = "put" /\ UNCHANGED <<locks, current, job, tasks>>
      /\ step' = [step EXCEPT ![t] = IF job[t].op \in {"finish", "retake"} THEN "show" ELSE "done"]
  BY DEF Put, At, Goes, loop
<1>2. kind = "test" /\ a \in AttemptSet /\ current \in 1..Len(attempts) /\ attempts \in Seq(AttemptSet)
  BY PutWrites DEF Types
<1>3. /\ saw[t].n = current /\ saw[t].attempt = a /\ JobFits(j)
      /\ j.op \in TestOps
  BY <1>1, <1>2, InBlock DEF BookFits
<1>4. CASE j.op = "finish"
  <2> DEFINE b == [a EXCEPT !.finished = TRUE]
  <2>1. b \in AttemptSet /\ b.answers = a.answers
    BY <1>2 DEF AttemptSet
  <2>2. Totalled(b).answers = a.answers
    BY <2>1, TotalledKeeps
  <2>3. attempts' = [attempts EXCEPT ![current] = Totalled(b)]
    BY <1>3, <1>4 DEF Put
  <2> HIDE DEF b
  <2>4. Len(attempts') = Len(attempts) /\ \A n \in 1..Len(attempts) : attempts'[n].answers = attempts[n].answers
    BY <1>2, <2>2, <2>3
  <2>5. QED
    BY <1>1, <1>2, <1>4, <2>4
<1>5. CASE j.op = "retake"
  <2>1. PICK order \in SUBSET Questions : attempts' = Append(attempts, Attempt(order))
    BY <1>5, PutWrites DEF AnswerOps
  <2>2. /\ Len(attempts') = Len(attempts) + 1 /\ attempts'[Len(attempts) + 1] = Attempt(order)
        /\ \A n \in 1..Len(attempts) : attempts'[n] = attempts[n]
    BY <1>2, <2>1
  <2>3. QED
    BY <1>1, <1>2, <1>5, <2>2
<1>6. CASE j.op \in AnswerOps
  <2> DEFINE e == Changed(j, a.answers[j.item], current)
             b == [a EXCEPT !.answers[j.item] = e]
  <2>1. j.item \in Questions /\ j \in Jobs /\ a.answers \in [Questions -> Entries] /\ current \in Nat
    BY <1>2, <1>3, <1>6 DEF JobFits, AttemptSet
  <2>2. e \in Entries
    BY <1>6, <2>1, ChangedFits
  <2>3. attempts' = [attempts EXCEPT ![current] = Totalled(b)]
    BY <1>3, <1>6 DEF Put, AnswerOps
  <2> HIDE DEF e
  <2>4. b \in AttemptSet /\ b.answers = [a.answers EXCEPT ![j.item] = e]
    BY <1>2, <2>1, <2>2 DEF AttemptSet
  <2>5. Totalled(b).answers = b.answers
    BY <2>4, TotalledKeeps
  <2>6. \A q \in Questions : Totalled(b).answers[q] = IF q = j.item THEN e ELSE a.answers[q]
    BY <2>1, <2>4, <2>5
  <2> HIDE DEF b
  <2>7. Len(attempts') = Len(attempts)
        /\ \A n \in 1..Len(attempts) : attempts'[n] = IF n = current THEN Totalled(b) ELSE attempts[n]
    BY <1>2, <2>3
  <2>8. \A n \in 1..Len(attempts), q \in Questions :
          attempts'[n].answers[q] = IF n = current /\ q = j.item
                                    THEN Changed(j, attempts[n].answers[q], current)
                                    ELSE attempts[n].answers[q]
    BY <2>6, <2>7 DEF e
  <2>9. QED
    BY <1>1, <1>2, <1>6, <2>1, <2>7, <2>8
<1>7. QED
  BY <1>3, <1>4, <1>5, <1>6 DEF TestOps

(***************************************************************************)
(* The links between calls and tasks                                       *)
(***************************************************************************)
LEMMA EnterLinks ==
  ASSUME StudyInv, LinksFit, NEW t \in Threads, NEW j, Enter(t, j), tasks' = tasks,
         \/ tasks = {} /\ j.op \notin {"flag", "reflag"}
         \/ j.id = 0 /\ j.op \notin {"flag", "reflag"}
         \/ \E w \in tasks : Hand(t, w) /\ j = Job(OpOf(w), w.item, w.of, w.right, w.id)
  PROVE  LinksFit'
<1> USE DEF StudyInv, LinksFit
<1>1. job' = [job EXCEPT ![t] = j] /\ job[t] = Nothing
  BY DEF Enter
<1>2. job'[t] = j /\ \A u \in Threads : u # t => job'[u] = job[u]
  BY <1>1 DEF Types
<1>3. \A u \in Threads, w \in tasks : u # t => (Runs(u, w)' <=> Runs(u, w))
  BY <1>2 DEF Runs
<1>4. CASE j.op \notin {"flag", "reflag"} /\ (tasks = {} \/ j.id = 0)
  <2>1. \A w \in tasks : ~Runs(t, w)'
    BY <1>2, <1>4 DEF FlagsAreTasks, Runs
  <2>2. TasksRun'
    BY <1>2, <1>3, <2>1 DEF TasksRun
  <2>3. FlagsAreTasks'
    BY <1>2, <1>4 DEF FlagsAreTasks
  <2>4. QED
    BY <2>2, <2>3
<1>5. ASSUME NEW w \in tasks, Hand(t, w), j = Job(OpOf(w), w.item, w.of, w.right, w.id)
      PROVE  LinksFit'
  <2>1. /\ w.at \notin {"said", "agent"} /\ \A u \in Threads : ~Runs(u, w)
        /\ j.op = OpOf(w) /\ j.item = w.item /\ j.of = w.of /\ j.id = w.id
    BY <1>5 DEF Hand, Runs, Job
  <2>2. \A v \in tasks : Runs(t, v)' => v = w
    BY <1>2, <2>1 DEF Runs, TasksFit
  <2>3. TasksRun'
    <3> SUFFICES ASSUME NEW v \in tasks, NEW u \in Threads, Runs(u, v)'
                 PROVE  /\ v.at \notin {"said", "agent"}
                        /\ job'[u].op = OpOf(v) /\ job'[u].item = v.item /\ job'[u].of = v.of
                        /\ \A x \in Threads : Runs(x, v)' => x = u
      BY DEF TasksRun
    <3>1. CASE v = w
      BY <3>1, <1>2, <1>3, <2>1
    <3>2. CASE v # w
      BY <3>2, <1>2, <1>3, <2>2 DEF TasksRun
    <3>3. QED
      BY <3>1, <3>2
  <2>4. FlagsAreTasks'
    BY <1>2, <2>1 DEF FlagsAreTasks
  <2>5. QED
    BY <2>3, <2>4
<1>6. QED
  BY <1>4, <1>5

LEMMA AskLinks ==
  ASSUME StudyInv, LinksFit, NEW t \in Threads, Ask(t)
  PROVE  LinksFit'
<1>1. CASE MarkOnPage(t)
  <2>1. PICK c \in Cards : job' = [job EXCEPT ![t] = Job("outside", c, 0, TRUE, OnPage)]
    BY <1>1 DEF MarkOnPage
  <2>2. tasks = {} /\ tasks' = {} /\ job \in [Threads -> Jobs \cup {Nothing}]
    BY <1>1 DEF MarkOnPage, loop, StudyInv, TasksFit, Types
  <2>3. \A u \in Threads : job'[u] = job[u] \/ job'[u].op = "outside"
    BY <2>1, <2>2 DEF Job
  <2>4. QED
    BY <2>2, <2>3 DEF LinksFit, TasksRun, FlagsAreTasks
<1>2. CASE AnswerClosed(t) \/ CountIdea(t) \/ Finish(t) \/ Retake(t) \/ Study(t) \/ Save(t)
  <2>1. PICK j : /\ Enter(t, j) /\ j \in Jobs
                 /\ \/ kind = "test" /\ j.op \in {"answer", "count"} /\ j.item \in Questions /\ j.id = 0
                    \/ kind = "test" /\ j.op \in {"finish", "retake"} /\ j.id = 0
                    \/ kind = "deck" /\ j.op \in {"grade", "mark"} /\ j.item \in Cards /\ j.id = calls'
                    \/ kind = "deck" /\ j.op = "save" /\ j.id = 0
    BY <1>2, AskEnters DEF StudyInv
  <2>2. tasks' = tasks /\ (kind = "deck" => tasks = {})
    BY <1>2 DEF AnswerClosed, CountIdea, Finish, Retake, Study, Save, loop, StudyInv, TasksFit
  <2>3. QED
    BY <2>1, <2>2, EnterLinks
<1>3. QED
  BY <1>1, <1>2 DEF Ask

LEMMA ReturnLinks ==
  ASSUME StudyInv, LinksFit, NEW t \in Threads, Return(t)
  PROVE  LinksFit'
<1> USE DEF StudyInv, LinksFit
<1>1. /\ job[t] # Nothing /\ job' = [job EXCEPT ![t] = Nothing]
      /\ \A w \in tasks : w.id # job[t].id => w \in tasks'
      /\ \A v \in tasks' : \/ v \in tasks /\ v.id # job[t].id
                           \/ \E w \in tasks : w.id = job[t].id /\ v.id = w.id
  BY ReturnTasks
<1>2. job'[t] = Nothing /\ \A u \in Threads : u # t => job'[u] = job[u]
  BY <1>1 DEF Types
<1>3. \A u \in Threads : \A v : Runs(u, v)' => u # t /\ Runs(u, v)
  BY <1>2 DEF Runs
<1>4. ASSUME NEW v \in tasks', NEW u \in Threads, Runs(u, v)'
      PROVE  v \in tasks /\ v.id # job[t].id
  <2>1. SUFFICES ASSUME NEW w \in tasks, w.id = job[t].id, v.id = w.id PROVE FALSE
    BY <1>1
  <2>2. Runs(t, w) /\ Runs(u, w) /\ u # t
    BY <1>1, <1>3, <1>4, <2>1 DEF Runs
  <2>3. QED
    BY <2>2 DEF TasksRun
<1>5. TasksRun'
  BY <1>2, <1>3, <1>4 DEF TasksRun
<1>6. FlagsAreTasks'
  <2>1. \A v \in tasks' : v.id # 0
    BY <1>1 DEF FlagsAreTasks
  <2>2. ASSUME NEW u \in Threads, job'[u] # Nothing, job'[u].op \in {"flag", "reflag"}
        PROVE  \E w \in tasks' : w.id = job'[u].id
    <3>1. u # t /\ job'[u] = job[u]
      BY <1>2, <2>2
    <3>2. PICK w \in tasks : w.id = job[u].id
      BY <2>2, <3>1 DEF FlagsAreTasks
    <3>3. w.id # job[t].id
      BY <1>1, <2>2, <3>1, <3>2 DEF TasksRun, Runs
    <3>4. QED
      BY <1>1, <3>1, <3>2, <3>3
  <2>3. QED
    BY <2>1, <2>2 DEF FlagsAreTasks
<1>7. QED
  BY <1>5, <1>6

LEMMA BeginLinks ==
  ASSUME StudyInv, LinksFit, NEW q \in Open, CheckOpen(q) \/ RecheckIdea(q)
  PROVE  LinksFit'
<1> USE DEF StudyInv, LinksFit
<1>1. job' = job /\ calls \in Nat /\ calls' = calls + 1
  BY DEF CheckOpen, RecheckIdea, Called, work, Types
<1>2. PICK n : tasks' = tasks \cup {n} /\ n.id = calls'
  <2>1. CASE CheckOpen(q)
    <3>1. Task("check", q, 0, "say").id = calls'
      BY DEF Task
    <3>2. QED
      BY <2>1, <3>1 DEF CheckOpen
  <2>2. CASE RecheckIdea(q)
    <3>1. Task("recheck", q, current, "flag").id = calls'
      BY DEF Task
    <3>2. QED
      BY <2>2, <3>1 DEF RecheckIdea
  <2>3. QED
    BY <2>1, <2>2
<1>3. \A u \in Threads : job[u] # Nothing => job[u].id \in Nat /\ job[u].id <= calls
  BY DEF JobsFit, JobFits, Jobs, Inside, Outside
<1>4. \A u \in Threads : \A v : (Runs(u, v)' <=> Runs(u, v)) /\ (v.id = calls' => ~Runs(u, v))
  BY <1>1, <1>3 DEF Runs
<1>5. TasksRun'
  BY <1>1, <1>2, <1>4 DEF TasksRun
<1>6. FlagsAreTasks'
  BY <1>1, <1>2 DEF FlagsAreTasks
<1>7. QED
  BY <1>5, <1>6

LEMMA LoopLinks ==
  ASSUME StudyInv, LinksFit, NEW w \in tasks, Said(w) \/ Judged(w)
  PROVE  LinksFit'
<1> USE DEF StudyInv, LinksFit
<1>1. job' = job /\ w \in TaskSet /\ w.at \in {"said", "agent"}
  BY DEF Said, Judged, work, Types
<1>2. PICK n : tasks \ {w} \subseteq tasks' /\ tasks' \subseteq (tasks \ {w}) \cup {n} /\ n.id = w.id
  <2>1. CASE Said(w)
    <3>1. [w EXCEPT !.at = "flag"].id = w.id
      BY <1>1 DEF TaskSet
    <3>2. QED
      BY <2>1, <3>1 DEF Said
  <2>2. CASE Judged(w)
    <3>1. PICK right \in BOOLEAN, at \in {"put", "failed"} :
            tasks' = (tasks \ {w}) \cup {[w EXCEPT !.at = at, !.right = right]}
      BY <2>2 DEF Judged
    <3>2. [w EXCEPT !.at = at, !.right = right].id = w.id
      BY <1>1 DEF TaskSet
    <3>3. QED
      BY <3>1, <3>2
  <2>3. QED
    BY <2>1, <2>2
<1>3. \A u \in Threads : ~Runs(u, w)
  BY <1>1 DEF TasksRun
<1>4. \A u \in Threads : \A v : (Runs(u, v)' <=> Runs(u, v)) /\ (v.id = w.id => ~Runs(u, v))
  BY <1>1, <1>3 DEF Runs
<1>5. TasksRun'
  BY <1>1, <1>2, <1>4 DEF TasksRun
<1>6. FlagsAreTasks'
  <2>1. \A v \in tasks' : v.id # 0
    BY <1>2 DEF FlagsAreTasks
  <2>2. ASSUME NEW u \in Threads, job[u] # Nothing, job[u].op \in {"flag", "reflag"}
        PROVE  \E v \in tasks' : v.id = job[u].id
    <3>1. PICK v \in tasks : v.id = job[u].id
      BY <2>2 DEF FlagsAreTasks
    <3>2. v # w
      BY <1>3, <2>2, <3>1 DEF Runs
    <3>3. QED
      BY <1>2, <3>1, <3>2
  <2>3. QED
    BY <1>1, <2>1, <2>2 DEF FlagsAreTasks
<1>7. QED
  BY <1>5, <1>6

LEMMA LinksStep == IInv /\ StudyInv /\ LinksFit /\ [StudyNext]_studyVars => LinksFit'
<1> SUFFICES ASSUME IInv, StudyInv, LinksFit, [StudyNext]_studyVars PROVE LinksFit'
  OBVIOUS
<1>1. CASE UNCHANGED <<job, tasks>>
  BY <1>1 DEF LinksFit, TasksRun, FlagsAreTasks, Runs
<1>2. ASSUME NEW t \in Threads, MarkPut(t) PROVE LinksFit'
  <2>1. \A u \in Threads : job'[u] = job[u] \/ job'[u] = Nothing
    BY <1>2 DEF MarkPut, StudyInv, Types
  <2>2. \A u \in Threads : \A w : Runs(u, w)' => Runs(u, w) /\ job'[u] = job[u]
    BY <2>1 DEF Runs
  <2>3. tasks' = tasks
    BY <1>2 DEF MarkPut, loop
  <2>4. QED
    BY <2>1, <2>2, <2>3 DEF LinksFit, TasksRun, FlagsAreTasks
<1>3. ASSUME NEW t \in Threads, NEW w \in tasks, Hand(t, w) PROVE LinksFit'
  <2>1. tasks' = tasks /\ Enter(t, Job(OpOf(w), w.item, w.of, w.right, w.id))
    BY <1>3 DEF Hand, loop
  <2>2. QED
    BY <1>3, <2>1, EnterLinks
<1>4. ASSUME NEW t \in Threads, Run(t) \/ Take(t) \/ Other(t) PROVE LinksFit'
  BY <1>1, <1>4, ReturnLinks
     DEF Run, Look, Clear, Put, WritePage, PutCards, Show, Free, Take, Other, loop, work
<1>5. QED
  BY <1>1, <1>2, <1>3, <1>4, AskLinks, BeginLinks, LoopLinks, BlockIsKey
     DEF StudyNext, Loop, studyVars, loop, work

(***************************************************************************)
(* What the answers of an attempt can be                                   *)
(***************************************************************************)

\* A retake that is about to show its attempt.
Shows(t) == Holds(t) /\ job[t].op = "retake" /\ step[t] = "show"

\* What a change makes of a flag.
LEMMA ChangedFlags ==
  ASSUME NEW j \in Jobs, j.op \in AnswerOps, NEW e \in Entries, NEW n \in Nat
  PROVE  /\ Changed(j, e, n).at = "checking" =>
              j.op = "flag" \/ (j.op \in {"count", "reflag", "idea"} /\ e.at = "checking")
         /\ Changed(j, e, n).again => j.op = "reflag" \/ (j.op = "count" /\ e.again)
         /\ j.op \in {"count", "reflag", "idea"} => Changed(j, e, n).at = e.at
<1>1. \A p \in Places, m \in Nat, r \in BOOLEAN : Entry(p, m, r).at = p /\ Entry(p, m, r).again = FALSE
  BY DEF Entry
<1>2. CASE j.op \in {"answer", "say", "review", "fail"}
  <2>1. \E p \in Places \ {"checking"}, m \in Nat, r \in BOOLEAN : Changed(j, e, n) = Entry(p, m, r)
    BY <1>2 DEF Changed, Jobs, Places
  <2>2. QED
    BY <1>1, <1>2, <2>1
<1>3. CASE j.op = "flag"
  BY <1>3 DEF Changed, Entry
<1>4. CASE j.op \in {"count", "reflag", "idea"}
  BY <1>4 DEF Changed, Jobs, Entries
<1>5. QED
  BY <1>2, <1>3, <1>4 DEF AnswerOps

LEMMA AnswersStay ==
  ASSUME AnswersFit, attempts' = attempts, CallsEnd', \A t \in Threads : Shows(t)' => Shows(t)
  PROVE  AnswersFit'
  BY DEF AnswersFit, AgainIsReviewed, RetakeIsBlank, Shows

LEMMA PutKeepsAnswers ==
  ASSUME IInv, StudyInv, AnswersFit, NEW t \in Threads, Put(t)
  PROVE  AnswersFit'
<1> DEFINE j == job[t]
<1> USE DEF StudyInv, AnswersFit
<1>1. /\ Holds(t) /\ kind = "test" /\ step[t] = "put" /\ current \in 1..Len(attempts)
      /\ UNCHANGED <<locks, current, job, tasks>>
      /\ step' = [step EXCEPT ![t] = IF j.op \in {"finish", "retake"} THEN "show" ELSE "done"]
  BY PutAnswers
<1>2. \A u \in Threads : u # t => step'[u] = step[u]
  BY <1>1 DEF Types
<1>3. CallsEnd'
  BY <1>1, <1>2 DEF CallsEnd, Inside, Holds, locks
<1>4. \A u \in Threads : Shows(u)' => u = t
  BY <1>1, OneHolds DEF Shows, Holds, locks
<1>5. attempts \in Seq(AttemptSet) /\ j \in Jobs
  BY <1>1, InBlock DEF Types, JobFits
<1>6. CASE j.op = "finish" /\ Len(attempts') = Len(attempts)
           /\ \A n \in 1..Len(attempts) : attempts'[n].answers = attempts[n].answers
  <2>1. AgainIsReviewed'
    BY <1>6 DEF AgainIsReviewed
  <2>2. RetakeIsBlank'
    BY <1>1, <1>4, <1>6 DEF RetakeIsBlank, Shows
  <2>3. QED
    BY <1>3, <2>1, <2>2
<1>7. CASE j.op = "retake" /\ Len(attempts') = Len(attempts) + 1
           /\ (\A n \in 1..Len(attempts) : attempts'[n] = attempts[n])
           /\ \E order \in SUBSET Questions : attempts'[Len(attempts')] = Attempt(order)
  <2>1. \A q \in Questions : attempts'[Len(attempts')].answers[q] = NoAnswer
    BY <1>7 DEF Attempt
  <2>2. ~NoAnswer.again
    BY DEF NoAnswer, Entry
  <2>3. \A n \in 1..Len(attempts') : n \in 1..Len(attempts) \/ n = Len(attempts')
    BY <1>5, <1>7
  <2>4. AgainIsReviewed'
    BY <1>7, <2>1, <2>2, <2>3 DEF AgainIsReviewed
  <2>5. QED
    BY <1>3, <2>1, <2>4 DEF RetakeIsBlank
<1>8. CASE j.op \in AnswerOps /\ Len(attempts') = Len(attempts) /\ j.item \in Questions
           /\ \A n \in 1..Len(attempts), q \in Questions :
                attempts'[n].answers[q] = IF n = current /\ q = j.item
                                          THEN Changed(j, attempts[n].answers[q], current)
                                          ELSE attempts[n].answers[q]
  <2> DEFINE e == attempts[current].answers[j.item]
  <2>1. e \in Entries /\ current \in Nat
    <3>1. attempts[current] \in AttemptSet
      BY <1>1, <1>5
    <3>2. QED
      BY <1>1, <1>8, <3>1 DEF AttemptSet
  <2>2. j.op \in {"count", "reflag", "idea"} => e.at = "reviewed"
    BY <1>1 DEF BookFits
  <2>3. Changed(j, e, current).again => Changed(j, e, current).at = "reviewed"
    BY <1>5, <1>8, <2>1, <2>2, ChangedFlags
  <2>4. AgainIsReviewed'
    BY <1>8, <2>3 DEF AgainIsReviewed
  <2>5. RetakeIsBlank'
    BY <1>1, <1>4, <1>8 DEF RetakeIsBlank, Shows, AnswerOps
  <2>6. QED
    BY <1>3, <2>4, <2>5
<1>9. QED
  BY <1>6, <1>7, <1>8, PutAnswers

LEMMA AnswersStep == IInv /\ StudyInv /\ AnswersFit /\ [StudyNext]_studyVars => AnswersFit'
<1> SUFFICES ASSUME IInv, StudyInv, AnswersFit, [StudyNext]_studyVars PROVE AnswersFit'
  OBVIOUS
<1> USE DEF StudyInv
<1>0. CallsEnd /\ step \in [Threads -> Steps \cup {Nothing}] /\ job \in [Threads -> Jobs \cup {Nothing}]
      /\ pc \in [Threads -> PCs]
  BY DEF AnswersFit, Types, IInv, TypeOK
<1>1. CASE UNCHANGED <<attempts, pc, job, step>>
  <2>1. CallsEnd' /\ \A t \in Threads : Shows(t)' => Shows(t)
    BY <1>0, <1>1 DEF CallsEnd, Inside, Shows, Holds
  <2>2. QED
    BY <1>1, <2>1, AnswersStay
<1>2. ASSUME NEW t \in Threads, NEW j, Enter(t, j) PROVE AnswersFit'
  <2>1. /\ pc' = [pc EXCEPT ![t] = "acquire"] /\ job' = [job EXCEPT ![t] = j]
        /\ step' = [step EXCEPT ![t] = "look"] /\ attempts' = attempts
    BY <1>2 DEF Enter, Register, test
  <2>2. CallsEnd' /\ \A u \in Threads : Shows(u)' => Shows(u)
    BY <1>0, <2>1 DEF CallsEnd, Inside, Shows, Holds
  <2>3. QED
    BY <2>1, <2>2, AnswersStay
<1>3. ASSUME NEW t \in Threads, MarkOnPage(t) \/ MarkPut(t) PROVE AnswersFit'
  <2>1. PICK j : job' = [job EXCEPT ![t] = j] /\ (j = Nothing \/ j.op = "outside")
    <3>1. \A c \in Cards : Job("outside", c, 0, TRUE, OnPage).op = "outside"
      BY DEF Job
    <3>2. QED
      BY <1>3, <3>1 DEF MarkOnPage, MarkPut
  <2>2. UNCHANGED <<attempts, pc, step>>
    BY <1>3 DEF MarkOnPage, MarkPut, test, locks
  <2>3. CallsEnd' /\ \A u \in Threads : Shows(u)' => Shows(u)
    BY <1>0, <2>1, <2>2 DEF CallsEnd, Inside, Shows, Holds
  <2>4. QED
    BY <2>2, <2>3, AnswersStay
<1>4. ASSUME NEW t \in Threads, Take(t) \/ Other(t) PROVE AnswersFit'
  <2>1. /\ UNCHANGED <<attempts, job, step>>
        /\ \A u \in Threads : u # t => pc'[u] = pc[u]
        /\ (pc[t] = "acquire" /\ pc'[t] = "taken") \/ job[t] = Nothing
    BY <1>0, <1>4 DEF Take, Other, Acquire, Register, TimeOut, Release, Leave, test, work
  <2>2. \A u \in Threads : Holds(u)' => Holds(u) \/ (Inside(u) /\ step[u] = "look") \/ Outside(u)
    BY <2>1 DEF Holds, JobsFit, Inside, Outside
  <2>3. \A u \in Threads : Shows(u)' => Shows(u)
    <3> SUFFICES ASSUME NEW u \in Threads, Shows(u)' PROVE Shows(u)
      OBVIOUS
    <3>1. job[u].op = "retake" /\ step[u] = "show" /\ Holds(u)'
      BY <2>1 DEF Shows
    <3>2. QED
      BY <2>2, <3>1 DEF Shows, Outside
  <2>4. CallsEnd'
    BY <1>0, <2>1 DEF CallsEnd, Inside
  <2>5. QED
    BY <2>1, <2>3, <2>4, AnswersStay
<1>5. ASSUME NEW t \in Threads, Free(t) PROVE AnswersFit'
  <2>1. /\ pc' = [pc EXCEPT ![t] = "leave"] /\ UNCHANGED <<attempts, job, step>>
        /\ step[t] \in {"done", "refused"}
    BY <1>5 DEF Free, Holds, Release, test, work
  <2>2. CallsEnd' /\ \A u \in Threads : Shows(u)' => Shows(u)
    BY <1>0, <2>1 DEF CallsEnd, Inside, Shows, Holds
  <2>3. QED
    BY <2>1, <2>2, AnswersStay
<1>6. ASSUME NEW t \in Threads, Return(t) PROVE AnswersFit'
  <2>1. /\ job' = [job EXCEPT ![t] = Nothing] /\ step' = [step EXCEPT ![t] = Nothing]
        /\ pc' = [pc EXCEPT ![t] = "idle"] /\ attempts' = attempts
    BY <1>6, ReturnTasks
  <2>2. CallsEnd' /\ \A u \in Threads : Shows(u)' => Shows(u)
    BY <1>0, <2>1 DEF CallsEnd, Inside, Shows, Holds
  <2>3. QED
    BY <2>1, <2>2, AnswersStay
<1>7. ASSUME NEW t \in Threads, Look(t) \/ Clear(t) \/ WritePage(t) \/ PutCards(t) \/ Show(t)
      PROVE  AnswersFit'
  <2>1. /\ pc[t] = "taken" /\ UNCHANGED <<attempts, pc, job>>
        /\ \A u \in Threads : u # t => step'[u] = step[u]
    BY <1>0, <1>7 DEF Look, Clear, WritePage, PutCards, Show, At, Goes, Holds, locks, test
  <2>2. ~Shows(t)'
    <3>1. CASE Look(t)
      <4>1. step'[t] = IF Refused(job[t]) THEN "refused" ELSE FirstWrite(job[t].op)
        BY <1>0, <3>1 DEF Look, Goes
      <4>2. QED
        BY <2>1, <4>1 DEF Shows, FirstWrite
    <3>2. CASE Clear(t) \/ WritePage(t) \/ Show(t)
      BY <1>0, <3>2 DEF Clear, WritePage, Show, Goes, Shows
    <3>3. CASE PutCards(t)
      BY <2>1, <3>3, InBlock DEF PutCards, At, StepFits, DeckOps, Shows
    <3>4. QED
      BY <1>7, <3>1, <3>2, <3>3
  <2>3. CallsEnd' /\ \A u \in Threads : Shows(u)' => Shows(u)
    BY <1>0, <2>1, <2>2 DEF CallsEnd, Inside, Shows, Holds
  <2>4. QED
    BY <2>1, <2>3, AnswersStay
<1>8. ASSUME NEW t \in Threads, Ask(t) PROVE AnswersFit'
  <2>1. CASE MarkOnPage(t)
    BY <1>3, <2>1
  <2>2. CASE ~MarkOnPage(t)
    <3>1. PICK j : Enter(t, j)
      BY <1>8, <2>2, AskEnters DEF Ask
    <3>2. QED
      BY <1>2, <3>1
  <2>3. QED
    BY <2>1, <2>2
<1>9. ASSUME NEW t \in Threads, NEW w \in tasks, Hand(t, w) PROVE AnswersFit'
  BY <1>2, <1>9 DEF Hand
<1>10. ASSUME NEW q \in Open, CheckOpen(q) \/ RecheckIdea(q) PROVE AnswersFit'
  BY <1>1, <1>10 DEF CheckOpen, RecheckIdea, locks, test, work
<1>11. ASSUME NEW w \in tasks, Said(w) \/ Judged(w) PROVE AnswersFit'
  BY <1>1, <1>11 DEF Said, Judged, locks, test, work
<1>12. QED
  BY <1>1, <1>3, <1>4, <1>5, <1>6, <1>7, <1>8, <1>9, <1>10, <1>11, PutKeepsAnswers, BlockIsKey
     DEF StudyNext, Run, Loop, studyVars, locks, test, work

(***************************************************************************)
(* The flags are due                                                       *)
(***************************************************************************)

\* A task with a result still to write stays, or goes on to another with the same.
Onward ==
  \A w \in tasks : w.at \notin {"say", "said"} /\ StillWrites(w) =>
    \E v \in tasks' : /\ v.kind = w.kind /\ v.item = w.item /\ v.of = w.of
                      /\ v.at \notin {"say", "said"} /\ StillWrites(v)'

LEMMA OnwardKeeps ==
  ASSUME FlagsAreDue, Onward, UNCHANGED <<attempts, current>>
  PROVE  FlagsAreDue'
<1>1. ASSUME NEW what, NEW q, Due(what, q) PROVE Due(what, q)'
  <2>1. PICK w \in tasks : /\ w.kind = what /\ w.item = q /\ w.of = current /\ w.at \notin {"say", "said"}
                           /\ StillWrites(w)
    BY <1>1 DEF Due
  <2>2. PICK v \in tasks' : /\ v.kind = w.kind /\ v.item = w.item /\ v.of = w.of
                            /\ v.at \notin {"say", "said"} /\ StillWrites(v)'
    BY <2>1 DEF Onward
  <2>3. QED
    BY <2>1, <2>2 DEF Due
<1>2. QED
  BY <1>1 DEF FlagsAreDue

LEMMA ReturnOnward ==
  ASSUME StudyInv, LinksFit, CallsEnd, NEW t \in Threads, Return(t)
  PROVE  Onward
<1> USE DEF StudyInv, LinksFit
<1>1. /\ job[t] # Nothing /\ pc[t] = "leave"
      /\ job' = [job EXCEPT ![t] = Nothing] /\ step' = [step EXCEPT ![t] = Nothing]
      /\ \A w \in tasks : w.id # job[t].id => w \in tasks'
      /\ job[t].op \in {"flag", "reflag"} /\ step[t] = "done" =>
           \A w \in tasks : w.id = job[t].id => [w EXCEPT !.at = "agent"] \in tasks'
  BY ReturnTasks
<1>2. job'[t] = Nothing /\ \A u \in Threads : u # t => job'[u] = job[u] /\ step'[u] = step[u]
  BY <1>1 DEF Types
<1>3. step[t] \in {"done", "refused"}
  BY <1>1 DEF CallsEnd, JobsFit, Inside, Outside
<1>4. SUFFICES ASSUME NEW w \in tasks, w.at \notin {"say", "said"}, StillWrites(w)
               PROVE  \E v \in tasks' : /\ v.kind = w.kind /\ v.item = w.item /\ v.of = w.of
                                        /\ v.at \notin {"say", "said"} /\ StillWrites(v)'
  BY DEF Onward
<1>5. CASE w.id # job[t].id
  <2>1. StillWrites(w)'
    BY <1>2, <1>4 DEF StillWrites, Runs
  <2>2. QED
    BY <1>1, <1>4, <1>5, <2>1
<1>6. CASE w.id = job[t].id
  <2> DEFINE v == [w EXCEPT !.at = "agent"]
  <2>1. Runs(t, w)
    BY <1>1, <1>6 DEF Runs
  <2>2. w.at = "flag" /\ step[t] = "done"
    BY <1>3, <1>4, <2>1 DEF StillWrites
  <2>3. w \in TaskSet /\ job[t].op = OpOf(w)
    BY <2>1 DEF TasksRun, Types
  <2>4. job[t].op \in {"flag", "reflag"}
    BY <2>2, <2>3, OpOfTask
  <2>5. v \in tasks'
    BY <1>1, <1>6, <2>2, <2>4
  <2>6. v.kind = w.kind /\ v.item = w.item /\ v.of = w.of /\ v.at = "agent" /\ v.id = w.id
    BY <2>3 DEF TaskSet
  <2>7. \A u \in Threads : ~Runs(u, v)'
    BY <1>2, <2>1, <2>6 DEF Runs, TasksRun
  <2> HIDE DEF v
  <2>8. StillWrites(v)'
    BY <2>7 DEF StillWrites
  <2>9. QED
    BY <2>5, <2>6, <2>8
<1>7. QED
  BY <1>5, <1>6

LEMMA LoopOnward ==
  ASSUME StudyInv, LinksFit, NEW x \in tasks, Said(x) \/ Judged(x)
  PROVE  Onward
<1> USE DEF StudyInv, LinksFit
<1>1. UNCHANGED <<job, step>> /\ x \in TaskSet
  BY DEF Said, Judged, work, Types
<1>2. \A w : StillWrites(w)' <=> StillWrites(w)
  BY <1>1 DEF StillWrites, Runs
<1>3. \A w \in tasks : w # x => w \in tasks'
  BY DEF Said, Judged
<1>4. CASE Said(x)
  BY <1>2, <1>3, <1>4 DEF Onward, Said
<1>5. CASE Judged(x)
  <2>1. PICK right \in BOOLEAN, at \in {"put", "failed"} :
          tasks' = (tasks \ {x}) \cup {[x EXCEPT !.at = at, !.right = right]}
    BY <1>5 DEF Judged
  <2> DEFINE v == [x EXCEPT !.at = at, !.right = right]
  <2>2. v.kind = x.kind /\ v.item = x.item /\ v.of = x.of /\ v.at \in {"put", "failed"} /\ v.id = x.id
    BY <1>1 DEF TaskSet
  <2>3. \A u \in Threads : ~Runs(u, v)
    <3>1. \A u \in Threads : ~Runs(u, x)
      BY <1>5 DEF Judged, TasksRun
    <3>2. QED
      BY <2>2, <3>1 DEF Runs
  <2>4. v \in tasks'
    BY <2>1
  <2> HIDE DEF v
  <2>5. StillWrites(v)'
    BY <1>2, <2>3 DEF StillWrites
  <2>6. QED
    BY <1>2, <1>3, <2>2, <2>4, <2>5 DEF Onward
<1>6. QED
  BY <1>4, <1>5

\* A call that reads an answer with a flag of its own is not refused.
LEMMA LookIsDue ==
  ASSUME IInv, StudyInv, LinksFit, AnswersFit, FlagsAreDue, NEW t \in Threads, Look(t)
  PROVE  FlagsAreDue'
<1> USE DEF StudyInv, LinksFit
<1>1. /\ Holds(t) /\ UNCHANGED <<attempts, current, job, tasks>>
      /\ step' = [step EXCEPT ![t] = IF Refused(job[t]) THEN "refused" ELSE FirstWrite(job[t].op)]
  BY DEF Look, At, Goes, test, loop
<1>2. step'[t] = (IF Refused(job[t]) THEN "refused" ELSE FirstWrite(job[t].op))
      /\ \A u \in Threads : u # t => step'[u] = step[u]
  BY <1>1 DEF Types
<1>3. ASSUME NEW w \in tasks, StillWrites(w), w.at \notin {"say", "said"}, w.of = current,
             w.kind = "recheck" => attempts[current].answers[w.item].at = "reviewed"
      PROVE  StillWrites(w)'
  <2>1. ASSUME Runs(t, w) PROVE step'[t] = "put"
    <3>1. /\ job[t].op = OpOf(w) /\ job[t].item = w.item /\ job[t].of = current
          /\ w \in TaskSet /\ w.at \notin {"said", "agent"}
      BY <1>3, <2>1 DEF TasksRun, Types
    <3>2. /\ w.kind = "check" => job[t].op \in {"flag", "review", "fail"}
          /\ w.kind = "recheck" => job[t].op \in {"reflag", "idea"}
          /\ w.kind \in {"check", "recheck"}
      BY <1>3, <3>1, OpOfTask DEF TaskSet
    <3>3. ~Refused(job[t])
      BY <1>3, <3>1, <3>2 DEF Refused, Late, NoReview, NoMistakes
    <3>4. FirstWrite(job[t].op) = "put"
      BY <3>2 DEF FirstWrite
    <3>5. QED
      BY <1>2, <3>3, <3>4
  <2>2. \A u \in Threads : Runs(u, w)' <=> Runs(u, w)
    BY <1>1 DEF Runs
  <2>3. QED
    BY <1>2, <1>3, <2>1, <2>2 DEF StillWrites
<1>4. current \in 1..Len(attempts)
  BY DEF Types
<1>5. ASSUME NEW q \in Questions, attempts[current].answers[q].at = "checking"
      PROVE  Due("check", q)'
  <2>1. PICK w \in tasks : /\ w.kind = "check" /\ w.item = q /\ w.of = current
                           /\ w.at \notin {"say", "said"} /\ StillWrites(w)
    BY <1>5 DEF FlagsAreDue, Due
  <2>2. StillWrites(w)'
    BY <1>3, <2>1
  <2>3. QED
    BY <1>1, <2>1, <2>2 DEF Due
<1>6. ASSUME NEW q \in Questions, attempts[current].answers[q].again
      PROVE  Due("recheck", q)'
  <2>1. PICK w \in tasks : /\ w.kind = "recheck" /\ w.item = q /\ w.of = current
                           /\ w.at \notin {"say", "said"} /\ StillWrites(w)
    BY <1>6 DEF FlagsAreDue, Due
  <2>2. attempts[current].answers[q].at = "reviewed"
    BY <1>4, <1>6 DEF AnswersFit, AgainIsReviewed
  <2>3. StillWrites(w)'
    BY <1>3, <2>1, <2>2
  <2>4. QED
    BY <1>1, <2>1, <2>3 DEF Due
<1>7. QED
  BY <1>1, <1>5, <1>6 DEF FlagsAreDue

\* A write of another answer, or one that is no result, leaves what is due.
LEMMA PutLeavesDue ==
  ASSUME IInv, StudyInv, LinksFit, NEW t \in Threads, Put(t), NEW what, NEW q, Due(what, q),
         q # job[t].item \/ job[t].op \notin {"review", "fail", "idea"}
  PROVE  Due(what, q)'
<1> USE DEF StudyInv, LinksFit
<1>1. /\ UNCHANGED <<current, job, tasks>>
      /\ step' = [step EXCEPT ![t] = IF job[t].op \in {"finish", "retake"} THEN "show" ELSE "done"]
  BY PutAnswers
<1>2. PICK w \in tasks : /\ w.kind = what /\ w.item = q /\ w.of = current
                         /\ w.at \notin {"say", "said"} /\ StillWrites(w)
  BY DEF Due
<1>3. ASSUME Runs(t, w) PROVE w.at = "flag" /\ step'[t] = "done"
  <2>1. /\ job[t].op = OpOf(w) /\ job[t].item = w.item
        /\ w \in TaskSet /\ w.at \notin {"said", "agent"}
    BY <1>3 DEF TasksRun, Types
  <2>2. OpOf(w) \in {"flag", "reflag"}
    BY <1>2, <2>1, OpOfTask DEF TaskSet
  <2>3. QED
    BY <1>1, <2>1, <2>2, OpOfTask DEF Types
<1>4. \A u \in Threads : (Runs(u, w)' <=> Runs(u, w)) /\ (u # t => step'[u] = step[u])
  BY <1>1 DEF Runs, Types
<1>5. StillWrites(w)'
  BY <1>2, <1>3, <1>4 DEF StillWrites
<1>6. QED
  BY <1>1, <1>2, <1>5 DEF Due

\* The task that flags an answer is the one that will clear it.
LEMMA FlagIsDue ==
  ASSUME IInv, StudyInv, LinksFit, NEW t \in Threads, Put(t), NEW q, q = job[t].item,
         NEW what, \/ job[t].op = "flag" /\ what = "check"
                   \/ job[t].op = "reflag" /\ what = "recheck"
  PROVE  Due(what, q)'
<1> USE DEF StudyInv, LinksFit
<1>1. /\ Holds(t) /\ kind = "test" /\ step[t] = "put" /\ UNCHANGED <<current, job, tasks>>
      /\ step' = [step EXCEPT ![t] = "done"]
  BY PutAnswers
<1>2. job[t] # Nothing
  BY <1>1 DEF Holds
<1>3. PICK w \in tasks : w.id = job[t].id
  BY <1>2 DEF FlagsAreTasks
<1>4. /\ Runs(t, w) /\ w \in TaskSet /\ w.at \notin {"said", "agent"}
      /\ job[t].op = OpOf(w) /\ job[t].item = w.item /\ job[t].of = w.of
      /\ \A u \in Threads : Runs(u, w) => u = t
  BY <1>2, <1>3 DEF Runs, TasksRun, Types
<1>5. w.at = "flag" /\ w.kind = what
  BY <1>4, OpOfTask DEF TaskSet
<1>6. w.of = current
  BY <1>1, <1>4, <1>5 DEF BookFits, TasksFit
<1>7. \A u \in Threads : Runs(u, w)' => u = t
  BY <1>1, <1>4 DEF Runs
<1>8. step'[t] = "done"
  BY <1>1 DEF Types
<1>9. StillWrites(w)'
  BY <1>5, <1>7, <1>8 DEF StillWrites
<1>10. QED
  BY <1>1, <1>4, <1>5, <1>6, <1>9 DEF Due

LEMMA PutIsDue ==
  ASSUME IInv, StudyInv, LinksFit, AnswersFit, FlagsAreDue, NEW t \in Threads, Put(t)
  PROVE  FlagsAreDue'
<1> DEFINE j == job[t]
<1> USE DEF StudyInv
<1>1. Holds(t) /\ kind = "test" /\ step[t] = "put" /\ current' = current /\ current \in 1..Len(attempts)
  BY PutAnswers
<1>2. \A q \in Questions : /\ attempts[current].answers[q].at = "checking" => Due("check", q)
                           /\ attempts[current].answers[q].again => Due("recheck", q)
  BY DEF FlagsAreDue
<1>3. \A q \in Questions : \A what : Due(what, q) /\ (q # j.item \/ j.op \notin {"review", "fail", "idea"})
                                       => Due(what, q)'
  BY PutLeavesDue
<1>4. CASE \A q \in Questions : attempts'[current].answers[q] = attempts[current].answers[q]
           /\ j.op \in {"finish", "retake"}
  BY <1>1, <1>2, <1>3, <1>4 DEF FlagsAreDue
<1>5. CASE j.op \in AnswerOps /\ j.item \in Questions
           /\ \A n \in 1..Len(attempts), q \in Questions :
                attempts'[n].answers[q] = IF n = current /\ q = j.item
                                          THEN Changed(j, attempts[n].answers[q], current)
                                          ELSE attempts[n].answers[q]
  <2>1. PICK i \in Questions : i = j.item
    BY <1>5
  <2>2. PICK e : e = attempts[current].answers[i]
    OBVIOUS
  <2>3. PICK f : f = Changed(j, e, current)
    OBVIOUS
  <2>4. attempts[current] \in AttemptSet /\ current \in Nat /\ j \in Jobs
    BY <1>1, InBlock DEF Types, JobFits
  <2>5. e \in Entries
    BY <2>2, <2>4 DEF AttemptSet
  <2>6. /\ f.at = "checking" => j.op = "flag" \/ (j.op \in {"count", "reflag", "idea"} /\ e.at = "checking")
        /\ f.again => j.op = "reflag" \/ (j.op = "count" /\ e.again)
    BY <1>5, <2>3, <2>4, <2>5, ChangedFlags
  <2>7. j.op \in {"count", "reflag", "idea"} => e.at = "reviewed"
    BY <1>1, <2>1, <2>2 DEF BookFits
  <2>8. f.at = "checking" => Due("check", i)'
    <3>1. f.at = "checking" => j.op = "flag"
      BY <2>6, <2>7
    <3>2. j.op = "flag" => Due("check", i)'
      BY <2>1, FlagIsDue
    <3>3. QED
      BY <3>1, <3>2
  <2>9. f.again => Due("recheck", i)'
    <3>1. j.op = "reflag" => Due("recheck", i)'
      BY <2>1, FlagIsDue
    <3>2. ASSUME j.op = "count", e.again PROVE Due("recheck", i)'
      <4>1. Due("recheck", i)
        BY <1>2, <2>2, <3>2
      <4>2. QED
        BY <1>3, <3>2, <4>1
    <3>3. QED
      BY <2>6, <3>1, <3>2
  <2>10. \A q \in Questions : attempts'[current].answers[q] = IF q = i THEN f ELSE attempts[current].answers[q]
    BY <1>1, <1>5, <2>1, <2>2, <2>3
  <2>11. ASSUME NEW q \in Questions, q # i
         PROVE  /\ attempts'[current].answers[q].at = "checking" => Due("check", q)'
                /\ attempts'[current].answers[q].again => Due("recheck", q)'
    BY <1>2, <1>3, <2>1, <2>10, <2>11
  <2>12. ASSUME NEW q \in Questions
         PROVE  /\ attempts'[current'].answers[q].at = "checking" => Due("check", q)'
                /\ attempts'[current'].answers[q].again => Due("recheck", q)'
    <3>1. CASE q = i
      BY <1>1, <2>8, <2>9, <2>10, <3>1
    <3>2. CASE q # i
      BY <1>1, <2>11, <3>2
    <3>3. QED
      BY <3>1, <3>2
  <2>13. QED
    BY <2>12 DEF FlagsAreDue
<1>6. QED
  BY <1>1, <1>4, <1>5, PutAnswers

\* An attempt that a retake shows has no flag; otherwise nothing changes that is due.
LEMMA ShowIsDue ==
  ASSUME IInv, StudyInv, LinksFit, AnswersFit, FlagsAreDue, NEW t \in Threads, Show(t)
  PROVE  FlagsAreDue'
<1> USE DEF StudyInv, LinksFit
<1>1. /\ Holds(t) /\ step[t] = "show" /\ UNCHANGED <<attempts, job, tasks>>
      /\ step' = [step EXCEPT ![t] = "done"]
      /\ current' = IF job[t].op = "retake" THEN Len(attempts) ELSE current
  BY DEF Show, At, Goes, loop
<1>2. CASE job[t].op = "retake"
  <2>1. \A q \in Questions : attempts'[current'].answers[q] = NoAnswer
    BY <1>1, <1>2 DEF AnswersFit, RetakeIsBlank
  <2>2. NoAnswer.at = "none" /\ NoAnswer.again = FALSE
    BY DEF NoAnswer, Entry
  <2>3. QED
    BY <2>1, <2>2 DEF FlagsAreDue
<1>3. CASE job[t].op # "retake"
  <2>1. job[t].op \in DeckOps \cup {"finish"} /\ \A u \in Threads : u # t => step'[u] = step[u]
    BY <1>1, <1>3, InBlock DEF StepFits, Types
  <2>2. ASSUME NEW w \in tasks, w.at \notin {"say", "said"}, StillWrites(w) PROVE StillWrites(w)'
    <3>1. ~Runs(t, w)
      BY <2>1, OpOfTask DEF TasksRun, Types, DeckOps
    <3>2. QED
      BY <1>1, <2>1, <2>2, <3>1 DEF StillWrites, Runs
  <2>3. Onward
    BY <1>1, <2>2 DEF Onward
  <2>4. QED
    BY <1>1, <1>3, <2>3, OnwardKeeps
<1>4. QED
  BY <1>2, <1>3

LEMMA DueStep ==
  IInv /\ StudyInv /\ LinksFit /\ AnswersFit /\ FlagsAreDue /\ [StudyNext]_studyVars => FlagsAreDue'
<1> SUFFICES ASSUME IInv, StudyInv, LinksFit, AnswersFit, FlagsAreDue, [StudyNext]_studyVars
             PROVE  FlagsAreDue'
  OBVIOUS
<1> USE DEF StudyInv
<1>1. ASSUME UNCHANGED <<attempts, current>>, tasks \subseteq tasks',
             \A w \in tasks : StillWrites(w) => StillWrites(w)'
      PROVE  FlagsAreDue'
  <2>1. Onward
    BY <1>1 DEF Onward
  <2>2. QED
    BY <1>1, <2>1, OnwardKeeps
<1>2. ASSUME UNCHANGED <<attempts, current, job, step>>, tasks \subseteq tasks'
      PROVE  FlagsAreDue'
  BY <1>1, <1>2 DEF StillWrites, Runs
<1>3. ASSUME kind = "deck", UNCHANGED <<attempts, current, tasks>> PROVE FlagsAreDue'
  BY <1>1, <1>3 DEF TasksFit
<1>4. ASSUME NEW t \in Threads, NEW j, Enter(t, j), tasks' = tasks PROVE FlagsAreDue'
  <2>1. /\ job' = [job EXCEPT ![t] = j] /\ step' = [step EXCEPT ![t] = "look"]
        /\ UNCHANGED <<attempts, current>>
    BY <1>4 DEF Enter, test
  <2>2. step'[t] = "look" /\ \A u \in Threads : u # t => job'[u] = job[u] /\ step'[u] = step[u]
    BY <2>1 DEF Types
  <2>3. \A w \in tasks : StillWrites(w) => StillWrites(w)'
    BY <2>2 DEF StillWrites, Runs
  <2>4. QED
    BY <1>1, <1>4, <2>1, <2>3
<1>5. ASSUME NEW t \in Threads, Ask(t) PROVE FlagsAreDue'
  <2>1. CASE MarkOnPage(t)
    BY <1>3, <2>1 DEF MarkOnPage, test, loop
  <2>2. CASE ~MarkOnPage(t)
    <3>1. PICK j : Enter(t, j)
      BY <1>5, <2>2, AskEnters DEF Ask
    <3>2. tasks' = tasks
      BY <1>5, <2>2 DEF Ask, AnswerClosed, CountIdea, Finish, Retake, Study, Save, loop
    <3>3. QED
      BY <1>4, <3>1, <3>2
  <2>3. QED
    BY <2>1, <2>2
<1>6. ASSUME NEW t \in Threads, NEW w \in tasks, Hand(t, w) PROVE FlagsAreDue'
  BY <1>4, <1>6 DEF Hand, loop
<1>7. ASSUME NEW q \in Open, CheckOpen(q) \/ RecheckIdea(q) PROVE FlagsAreDue'
  BY <1>2, <1>7 DEF CheckOpen, RecheckIdea, test, work
<1>8. ASSUME NEW w \in tasks, Said(w) \/ Judged(w) PROVE FlagsAreDue'
  <2>1. UNCHANGED <<attempts, current>>
    BY <1>8 DEF Said, Judged, test
  <2>2. QED
    BY <1>8, <2>1, LoopOnward, OnwardKeeps
<1>9. ASSUME NEW t \in Threads, Return(t) PROVE FlagsAreDue'
  <2>1. UNCHANGED <<attempts, current>>
    BY <1>9, ReturnTasks
  <2>2. QED
    BY <1>9, <2>1, ReturnOnward, OnwardKeeps DEF AnswersFit
<1>10. ASSUME NEW t \in Threads, Clear(t) PROVE FlagsAreDue'
  <2>1. /\ UNCHANGED <<attempts, current, job, tasks>> /\ step' = [step EXCEPT ![t] = "put"]
    BY <1>10 DEF Clear, Goes, loop
  <2>2. \A w \in tasks : StillWrites(w) => StillWrites(w)'
    BY <2>1 DEF StillWrites, Runs, Types
  <2>3. QED
    BY <1>1, <2>1, <2>2
<1>11. ASSUME NEW t \in Threads, WritePage(t) \/ PutCards(t) PROVE FlagsAreDue'
  <2>1. kind = "deck"
    BY <1>11, InBlock DEF WritePage, PutCards, At, StepFits, JobFits, Types, DeckOps, TestOps, AnswerOps
  <2>2. QED
    BY <1>3, <1>11, <2>1 DEF WritePage, PutCards, test, loop
<1>12. ASSUME NEW t \in Threads, MarkPut(t) PROVE FlagsAreDue'
  <2>1. kind = "deck"
    BY <1>12 DEF MarkPut, JobsFit, Outside, JobFits, TestOps, AnswerOps, Types
  <2>2. QED
    BY <1>3, <1>12, <2>1 DEF MarkPut, test, loop
<1>13. ASSUME NEW t \in Threads, Free(t) \/ Take(t) \/ Other(t) PROVE FlagsAreDue'
  BY <1>2, <1>13 DEF Free, Take, Other, test, loop, work
<1>14. CASE UNCHANGED studyVars
  BY <1>2, <1>14 DEF studyVars, test, loop, work
<1>15. QED
  BY <1>5, <1>6, <1>7, <1>8, <1>9, <1>10, <1>11, <1>12, <1>13, <1>14, LookIsDue, PutIsDue, ShowIsDue,
     BlockIsKey DEF StudyNext, Run, Loop

LEMMA FlagInvHolds == StudySpec => []FlagInv
<1>1. StudyInit => FlagInv
  <2> SUFFICES ASSUME StudyInit PROVE FlagInv
    OBVIOUS
  <2>1. /\ attempts = <<Attempt(Questions)>> /\ current = 1 /\ tasks = {}
        /\ job = [t \in Threads |-> Nothing]
    BY DEF StudyInit
  <2>2. \A q \in Questions : attempts[1].answers[q] = NoAnswer
    BY <2>1 DEF Attempt
  <2>3. NoAnswer.at = "none" /\ NoAnswer.again = FALSE
    BY DEF NoAnswer, Entry
  <2>4. LinksFit
    BY <2>1 DEF LinksFit, TasksRun, FlagsAreTasks
  <2>5. AnswersFit
    BY <2>1, <2>2, <2>3 DEF AnswersFit, CallsEnd, AgainIsReviewed, RetakeIsBlank, Inside, Holds
  <2>6. QED
    BY <2>1, <2>2, <2>3, <2>4, <2>5 DEF FlagInv, FlagsAreDue
<1>2. IInv /\ StudyInv /\ FlagInv /\ [StudyNext]_studyVars => FlagInv'
  BY LinksStep, AnswersStep, DueStep DEF FlagInv
<1>3. QED
  BY <1>1, <1>2, StudyInvHolds, PTL DEF StudySpec

\* An answer of the current attempt that says it is being checked, or whose idea is being
\* rechecked, has the task of check_open or recheck_idea that will write the result: no retake,
\* refusal or other check leaves a flag that nobody clears.
THEOREM FlagsAreCleared == StudySpec => []FlagsHaveTasks
<1>1. FlagInv => FlagsHaveTasks
  BY DEF FlagInv, FlagsAreDue, FlagsHaveTasks, Due, Questions
<1>2. QED
  BY <1>1, FlagInvHolds, PTL
=============================================================================
