---------------------------- MODULE WikiRunProofs ----------------------------
(***************************************************************************)
(* Theorems about WikiRun, for any choices, operations, budget and limits, *)
(* and any number of texts, portions and breaks.                           *)
(*                                                                         *)
(* The rows of the checkpoints belong to one text at a time, and so does a *)
(* run; an answer gets into the page or the rows only where both are the   *)
(* same.  A material that is gone has no row, and a run of it finds that   *)
(* out wherever it would write.                                            *)
(*                                                                         *)
(* A run that keeps its answers has the chain of the answers it has taken, *)
(* and the items of the open call, in the rows of its operation, so what a *)
(* job says is kept can be counted there.                                  *)
(*                                                                         *)
(* The rows of an operation are one line.  A run goes along it before it   *)
(* asks, so a finished material has its whole line kept and nothing else,  *)
(* and another choice is then the only reason to start over.               *)
(***************************************************************************)
EXTENDS WikiRun, FiniteSetTheorems, SequenceTheorems, TLAPS

By == Choices \cup {Nobody}
AnswerSet == [items : Seq(Nat), more : BOOLEAN, by : By, text : Nat, portion : Nat]
KeptSet == [op : Nat, after : Seq(AnswerSet), answer : AnswerSet]
States == {"none", "queued", "running", "done", "failed", "paused", "cancelled"}
JobSet == [state : States, choice : By, spent : Nat, completed : BOOLEAN, told : Nat, lost : BOOLEAN]
Runs == [stage : {"none", "check", "read", "write", "match", "save", "saved"},
         at : {"none", "ask", "look", "open", "keep"}, text : Nat, op : Nat,
         taken : Seq(AnswerSet), drafts : SUBSET AnswerSet, items : Seq(Nat), saved : Nat,
         attempt : Nat, answers : Nat, failures : Nat, unsent : Nat,
         changed : BOOLEAN, more : BOOLEAN, left : Nat]

Types ==
  /\ material \in [text : Nat \ {0}, checked : BOOLEAN, at : {"here", "deleting", "gone"}]
  /\ row \in [text : Nat, by : By]
  /\ kept \subseteq KeptSet
  /\ job \in JobSet
  /\ run \in Runs
  /\ page \in [text : Nat, from : SUBSET Nat]
  /\ done \in [by : By, answers : SUBSET AnswerSet]
  /\ portions \in Nat /\ breaks \in Nat

\* Only the writing of the Notes and the Concepts has items and answers; they are of its text.
RunFits ==
  /\ run.stage \in {"write", "match", "save", "saved"} => run.text # 0
  /\ run.stage \in {"none", "check", "read"} => run.drafts = {}
  /\ run.at \in {"look", "keep"} \/ run.items # <<>> => run.stage = "write"
  /\ \A a \in run.drafts : a.text = run.text

\* What is kept is of the text its row has.
KeptFits == \A k \in kept : k.answer.text = row.text /\ row.text # 0

WInv == Types /\ RunFits /\ KeptFits /\ OneText /\ GoneIsGone

LEMMA InitWInv == RunInit => WInv
  BY DEF RunInit, WInv, Types, RunFits, KeptFits, OneText, GoneIsGone, NoRow, NoJob, NoRun, NoPage,
         NotDone, By, States, JobSet, Runs

\* The items of a sequence of answers can be counted.
LEMMA ItemsCount ==
  ASSUME NEW answers \in Seq(AnswerSet)
  PROVE  Cardinality(ItemsIn(answers)) \in Nat
<1> DEFINE of(i) == {<<i, n>> : n \in 1 .. Len(answers[i].items)}
           all == {of(i) : i \in DOMAIN answers}
<1>1. ASSUME NEW i \in DOMAIN answers PROVE IsFiniteSet(of(i))
  <2> DEFINE f == [n \in 1 .. Len(answers[i].items) |-> <<i, n>>]
  <2>1. Len(answers[i].items) \in Nat
    BY DEF AnswerSet
  <2>2. IsFiniteSet(1 .. Len(answers[i].items))
    BY <2>1, FS_Interval
  <2>3. f \in Surjection(1 .. Len(answers[i].items), of(i))
    BY DEF Surjection
  <2>4. QED
    BY <2>2, <2>3, FS_Surjection
<1>2. IsFiniteSet(all)
  <2> DEFINE f == [i \in DOMAIN answers |-> of(i)]
  <2>1. IsFiniteSet(DOMAIN answers)
    BY FS_Interval
  <2>2. f \in Surjection(DOMAIN answers, all)
    BY DEF Surjection
  <2>3. QED
    BY <2>1, <2>2, FS_Surjection
<1>3. IsFiniteSet(UNION all)
  BY <1>1, <1>2, FS_UNION
<1>4. QED
  BY <1>3, FS_CardinalityType DEF ItemsIn

LEMMA AnswerTyped ==
  ASSUME Types, NEW items \in Seq(Nat), NEW more \in BOOLEAN
  PROVE  Answer(items, more) \in AnswerSet /\ Answer(items, more).text = run.text
  BY DEF Types, Answer, AnswerSet, JobSet, Runs

LEMMA CountsTyped ==
  ASSUME Types
  PROVE  /\ TakenItems \in Nat
         /\ \A n \in Nat : Told(n) \in Nat /\ Charged(n) \in JobSet
         /\ Completed \in JobSet
<1>1. TakenItems \in Nat
  BY ItemsCount DEF Types, Runs, TakenItems
<1>2. Streamed \in Nat
  BY DEF Types, Runs, Streamed
<1>3. \A n \in Nat : Told(n) \in Nat /\ Charged(n) \in JobSet
  BY <1>2 DEF Types, JobSet, Told, Charged
<1>4. Charged(0) \in JobSet
  BY <1>3
<1>5. Completed \in JobSet
  BY <1>4 DEF Completed, JobSet
<1>6. QED
  BY <1>1, <1>3, <1>5

\* A job that ends leaves no run.
LEMMA EndFits ==
  ASSUME NEW charged \in JobSet, NEW state \in States, NEW told \in Nat, EndJob(charged, state, told)
  PROVE  job' \in JobSet /\ run' \in Runs /\ RunFits'
<1>1. job' \in JobSet
  BY DEF EndJob, JobSet
<1>2. NoRun \in Runs
  BY DEF NoRun, Runs
<1>3. run' = NoRun
  BY DEF EndJob
<1>4. RunFits'
  BY <1>3 DEF RunFits, NoRun
<1>5. QED
  BY <1>1, <1>2, <1>3, <1>4

LEMMA FailFits ==
  ASSUME Types, NEW told \in Nat, Fail(told)
  PROVE  job' \in JobSet /\ run' \in Runs /\ RunFits'
<1>1. Charged(0) \in JobSet /\ "failed" \in States
  BY CountsTyped DEF States
<1>2. QED
  BY <1>1, EndFits DEF Fail

LEMMA PauseFits ==
  ASSUME Types, OutOfBudget
  PROVE  job' \in JobSet /\ run' \in Runs /\ RunFits'
<1> DEFINE shown == IF run.at = "open" THEN Len(run.items) ELSE 0
<1>1. shown \in Nat /\ TakenItems + shown \in Nat
  <2>1. Len(run.items) \in Nat
    BY DEF Types, Runs
  <2>2. TakenItems \in Nat
    BY CountsTyped
  <2>3. QED
    BY <2>1, <2>2
<1>2. Told(TakenItems + shown) \in Nat /\ Charged(0) \in JobSet /\ "paused" \in States
  BY <1>1, CountsTyped DEF States
<1>3. CASE job.completed \/ shown > 0
  BY <1>2, <1>3, EndFits DEF OutOfBudget
<1>4. CASE ~(job.completed \/ shown > 0)
  BY <1>4, FailFits DEF OutOfBudget
<1>5. QED
  BY <1>3, <1>4

\* An answer is kept only under the row of its text.
LEMMA PutFits ==
  ASSUME Types, KeptFits, CanPut, run.text # 0,
         NEW answer \in AnswerSet, answer.text = run.text, Put(answer)
  PROVE  kept' \subseteq KeptSet /\ row' \in [text : Nat, by : By] /\ row'.text = row.text /\ KeptFits'
<1>1. Kept(answer) \in KeptSet /\ Kept(answer).answer = answer
  BY DEF Types, Runs, Kept, KeptSet
<1>2. kept' \subseteq kept \cup {Kept(answer)}
  BY DEF Put
<1>3. row' \in [text : Nat, by : By] /\ row'.text = row.text
  BY DEF Types, Put, By
<1>4. QED
  BY <1>1, <1>2, <1>3 DEF Types, KeptFits, CanPut

LEMMA DiscardFits ==
  ASSUME Types, KeptFits, Discard
  PROVE  kept' \subseteq KeptSet /\ row' = row /\ KeptFits'
  BY DEF Types, KeptFits, Discard

\* An answer that is taken is of the run's text.
TakenFits(r) ==
  /\ r \in Runs
  /\ r.stage \in {"write", "match", "save"} /\ r.at \in {"look", "ask"} /\ r.items = <<>>
  /\ r.at = "look" => r.stage = "write"
  /\ r.text = run.text /\ \A a \in r.drafts : a.text = run.text

\* Nothing is taken yet at the first step of an operation.
LEMMA StepFits ==
  ASSUME NEW r \in Runs, NEW op \in Nat
  PROVE  /\ Step(r, op) \in Runs
         /\ Step(r, op).stage = "write" /\ Step(r, op).at = "look" /\ Step(r, op).items = <<>>
         /\ Step(r, op).text = r.text /\ Step(r, op).drafts = r.drafts
<1>1. <<>> \in Seq(AnswerSet) /\ <<>> \in Seq(Nat)
  OBVIOUS
<1>2. Step(r, op) \in Runs
  BY <1>1 DEF Step, Runs
<1>3. Step(r, op).stage = "write" /\ Step(r, op).at = "look" /\ Step(r, op).items = <<>>
  BY DEF Step, Runs
<1>4. Step(r, op).text = r.text
  BY DEF Step, Runs
<1>5. Step(r, op).drafts = r.drafts
  BY DEF Step, Runs
<1>6. QED
  BY <1>2, <1>3, <1>4, <1>5

LEMMA TookFits ==
  ASSUME Types, RunFits, run.stage = "write", NEW answer \in AnswerSet, answer.text = run.text,
         NEW count \in Nat, NEW calls \in Nat
  PROVE  TakenFits(Took(answer, count, calls))
<1> DEFINE r == [run EXCEPT !.taken = Append(@, answer), !.drafts = @ \cup {answer}, !.at = "look",
                            !.items = <<>>, !.saved = 0, !.attempt = 1, !.answers = @ + count]
<1>1. TakenFits(r)
  <2>1. /\ run \in Runs
        /\ Append(run.taken, answer) \in Seq(AnswerSet)
        /\ run.drafts \cup {answer} \subseteq AnswerSet
        /\ run.answers + count \in Nat
        /\ <<>> \in Seq(Nat)
    <3>1. /\ run \in Runs /\ run.taken \in Seq(AnswerSet) /\ run.drafts \subseteq AnswerSet
          /\ run.answers \in Nat
      BY DEF Types, Runs
    <3>2. QED
      BY <3>1
  <2>2. r \in Runs
    BY <2>1 DEF Runs
  <2>3. /\ r.stage = run.stage /\ r.at = "look" /\ r.items = <<>>
        /\ r.text = run.text /\ r.drafts = run.drafts \cup {answer}
    BY <2>1 DEF Runs
  <2>4. \A a \in r.drafts : a.text = run.text
    BY <2>3 DEF RunFits
  <2>5. QED
    BY <2>2, <2>3, <2>4 DEF TakenFits
<1>2. TakenFits(Step(r, r.op + 1))
  <2>1. r \in Runs /\ r.text = run.text /\ \A a \in r.drafts : a.text = run.text
    BY <1>1 DEF TakenFits
  <2> HIDE DEF r
  <2>2. r.op + 1 \in Nat
    BY <2>1 DEF Runs
  <2>3. QED
    BY <2>1, <2>2, StepFits DEF TakenFits
<1>3. TakenFits([r EXCEPT !.stage = IF calls = 0 THEN "save" ELSE "match", !.at = "ask", !.left = calls])
  <2> DEFINE stage == IF calls = 0 THEN "save" ELSE "match"
             last == [r EXCEPT !.stage = stage, !.at = "ask", !.left = calls]
  <2>1. r \in Runs /\ r.items = <<>> /\ r.text = run.text /\ \A a \in r.drafts : a.text = run.text
    BY <1>1 DEF TakenFits
  <2>2. stage \in {"save", "match"}
    OBVIOUS
  <2> HIDE DEF r, stage
  <2>3. last \in Runs /\ last.stage = stage /\ last.at = "ask"
    BY <2>1, <2>2 DEF Runs
  <2>4. last.items = r.items /\ last.text = r.text /\ last.drafts = r.drafts
    BY <2>1 DEF Runs
  <2>5. TakenFits(last)
    <3> HIDE DEF last
    <3>1. QED
      BY <2>1, <2>2, <2>3, <2>4 DEF TakenFits
  <2>6. QED
    BY <2>5 DEF stage
<1>4. QED
  BY <1>1, <1>2, <1>3 DEF Took, Onward

LEMMA TakenRunFits ==
  ASSUME Types, RunFits, run.stage = "write", TakenFits(run')
  PROVE  run' \in Runs /\ RunFits'
  BY DEF RunFits, TakenFits, Runs

\* What touches neither the material nor the page keeps the invariant with the run and the
\* rows, when there are none for a material that is gone.
LEMMA StoreOnly ==
  ASSUME WInv, job' \in JobSet, run' \in Runs, RunFits',
         kept' \subseteq KeptSet, row' \in [text : Nat, by : By], KeptFits',
         material.at = "gone" => kept' = {} /\ row' = NoRow,
         UNCHANGED <<material, wiki, portions, breaks>>
  PROVE  WInv'
  BY DEF WInv, Types, OneText, GoneIsGone, wiki

LEMMA RunOnly ==
  ASSUME WInv, job' \in JobSet, run' \in Runs, RunFits', UNCHANGED <<material, store, wiki, portions, breaks>>
  PROVE  WInv'
  BY DEF WInv, Types, KeptFits, OneText, GoneIsGone, store, wiki

-----------------------------------------------------------------------------
(* The job *)

LEMMA AddWInv ==
  ASSUME WInv, NEW c \in Choices, Add(c)
  PROVE  WInv'
<1>1. job' \in JobSet
  <2>1. NoJob \in JobSet
    BY DEF NoJob, JobSet, States, By
  <2>2. c \in By /\ (c \in Unnamed) \in BOOLEAN /\ "queued" \in States
    BY DEF By, States
  <2>3. job' = [NoJob EXCEPT !.state = "queued", !.choice = c, !.lost = c \in Unnamed]
    BY DEF Add
  <2>4. QED
    BY <2>1, <2>2, <2>3 DEF JobSet
<1>2. run' = run /\ portions' \in Nat
  BY DEF WInv, Types, Add
<1>3. QED
  BY <1>1, <1>2 DEF WInv, Types, RunFits, KeptFits, OneText, GoneIsGone, Add, store, wiki

LEMMA BeginWInv ==
  ASSUME WInv, Begin
  PROVE  WInv'
<1>1. CASE material.at = "gone"
  <2>1. EndJob(job, "failed", 0) /\ job \in JobSet /\ "failed" \in States
    BY <1>1 DEF WInv, Types, Begin, States
  <2>2. QED
    BY <2>1, EndFits, RunOnly DEF Begin
<1>2. CASE material.at # "gone"
  <2>1. job' = [job EXCEPT !.state = "running"]
    BY <1>2 DEF Begin
  <2>2. job' \in JobSet
    BY <2>1 DEF WInv, Types, JobSet, States
  <2>3. PICK n \in 1 .. MaxCalls :
          run' = IF material.checked
                   THEN [NoRun EXCEPT !.stage = "read"]
                   ELSE [NoRun EXCEPT !.stage = "check", !.at = "ask", !.left = n]
    BY <1>2 DEF Begin
  <2>4. n \in Nat
    BY SizesNat
  <2>5. run' \in Runs /\ RunFits'
    <3>1. NoRun \in Runs
      BY DEF NoRun, Runs
    <3>2. run' \in Runs
      BY <2>3, <2>4, <3>1 DEF Runs
    <3>3. run'.stage \in {"read", "check"} /\ run'.at \in {"none", "ask"}
          /\ run'.items = <<>> /\ run'.drafts = {}
      BY <2>3 DEF NoRun
    <3>4. QED
      BY <3>2, <3>3 DEF RunFits
  <2>6. QED
    BY <2>2, <2>5, RunOnly DEF Begin
<1>3. QED
  BY <1>1, <1>2

LEMMA ReadWInv ==
  ASSUME WInv, Read
  PROVE  WInv'
<1>1. CASE material.at = "gone"
  <2>1. Fail(0) /\ UNCHANGED <<material, store, wiki, portions, breaks>>
    BY <1>1 DEF Read, wiki
  <2>2. QED
    BY <2>1, FailFits, RunOnly DEF WInv
<1>2. CASE material.at # "gone"
  <2> DEFINE now == Prepared(material.text, job.choice)
             read == [run EXCEPT !.text = material.text]
  <2>1. read \in Runs /\ read.text # 0 /\ read.drafts = {}
    BY DEF WInv, Types, Read, RunFits, Runs
  <2>2. run' = Step(read, 1)
    BY <1>2 DEF Read
  <2>3. run' \in Runs /\ RunFits'
    <3> HIDE DEF read
    <3>1. Step(read, 1) \in Runs
      BY <2>1, StepFits
    <3>2. /\ Step(read, 1).stage = "write" /\ Step(read, 1).text = read.text
          /\ Step(read, 1).drafts = read.drafts
      BY <2>1, StepFits
    <3>3. QED
      BY <2>1, <2>2, <3>1, <3>2 DEF RunFits
  <2>4. /\ now.row \in [text : Nat, by : By] /\ now.kept \subseteq KeptSet
        /\ \A k \in now.kept : k.answer.text = now.row.text /\ now.row.text # 0
    <3>1. material.text \in Nat \ {0} /\ row \in [text : Nat, by : By] /\ kept \subseteq KeptSet
      BY DEF WInv, Types
    <3>2. Nobody \in By
      BY DEF By
    <3>3. CASE row.text \notin {0, material.text}
      BY <3>1, <3>2, <3>3 DEF Prepared
    <3>4. CASE row.text \in {0, material.text} /\ row.by \notin {Nobody, job.choice}
      BY <3>1, <3>2, <3>4 DEF Prepared
    <3>5. CASE row.text \in {0, material.text} /\ row.by \in {Nobody, job.choice}
      <4>1. now = [row |-> [row EXCEPT !.text = material.text], kept |-> kept]
        BY <3>5 DEF Prepared
      <4>2. now.row \in [text : Nat, by : By] /\ now.row.text = material.text /\ now.kept = kept
        BY <3>1, <4>1
      <4>3. \A k \in kept : k.answer.text = material.text
        BY <3>5 DEF WInv, KeptFits
      <4>4. QED
        BY <3>1, <4>2, <4>3
    <3>6. QED
      BY <3>3, <3>4, <3>5
  <2>5. CASE Keeps
    <3>1. row' = now.row /\ kept' = now.kept
      BY <1>2, <2>5 DEF Read
    <3>2. job' \in JobSet
      <4>1. job \in JobSet
        BY DEF WInv, Types
      <4>2. job' = job \/ job' = [job EXCEPT !.lost = @ \/ job.spent > 0]
        BY <1>2, <2>5 DEF Read
      <4>3. (job.lost \/ job.spent > 0) \in BOOLEAN
        OBVIOUS
      <4>4. QED
        BY <4>1, <4>2, <4>3 DEF JobSet
    <3>3. done' \in [by : By, answers : SUBSET AnswerSet]
      BY <1>2, <2>5 DEF Read, WInv, Types, NotDone, By
    <3>4. UNCHANGED <<material, page, portions, breaks>>
      BY DEF Read
    <3> HIDE DEF now
    <3>5. QED
      BY <1>2, <2>3, <2>4, <3>1, <3>2, <3>3, <3>4 DEF WInv, Types, KeptFits, OneText, GoneIsGone
  <2>6. CASE ~Keeps
    <3>1. UNCHANGED <<material, store, wiki, portions, breaks>> /\ job' = job
      BY <1>2, <2>6 DEF Read, wiki
    <3>2. QED
      BY <2>3, <3>1, RunOnly DEF WInv, Types
  <2>7. QED
    BY <2>5, <2>6
<1>3. QED
  BY <1>1, <1>2

-----------------------------------------------------------------------------
(* Notes and Concepts *)

\* An answer that is put under the row of its text.
LEMMA PutWInv ==
  ASSUME WInv, CanPut, run.stage = "write", NEW answer \in AnswerSet, answer.text = run.text, Put(answer),
         job' \in JobSet, run' \in Runs, RunFits', UNCHANGED <<material, wiki, portions, breaks>>
  PROVE  WInv'
<1>1. run.text # 0
  BY DEF WInv, RunFits
<1>2. /\ kept' \subseteq KeptSet /\ row' \in [text : Nat, by : By]
      /\ row'.text = row.text /\ KeptFits'
  BY <1>1, PutFits DEF WInv
<1>3. material.at # "gone"
  BY <1>1 DEF WInv, GoneIsGone, NoRow, CanPut
<1>4. QED
  BY <1>2, <1>3, StoreOnly

LEMMA DiscardWInv ==
  ASSUME WInv, Discard, job' \in JobSet, run' \in Runs, RunFits', UNCHANGED <<material, wiki, portions, breaks>>
  PROVE  WInv'
<1>1. kept' \subseteq kept /\ row' = row
  BY DEF Discard
<1>2. kept' \subseteq KeptSet /\ row' \in [text : Nat, by : By] /\ KeptFits'
  BY <1>1, DiscardFits DEF WInv, Types
<1>3. material.at = "gone" => kept' = {} /\ row' = NoRow
  BY <1>1 DEF WInv, GoneIsGone
<1>4. QED
  BY <1>2, <1>3, StoreOnly

LEMMA ReuseWInv ==
  ASSUME WInv, Reuse
  PROVE  WInv'
<1>1. UNCHANGED <<material, wiki, portions, breaks>> /\ run.stage = "write"
  BY DEF Reuse, WInv, RunFits
<1>2. PICK k \in Reusable, calls \in 0 .. MaxCalls :
        IF run.answers = MaxAnswers THEN Fail(0) /\ UNCHANGED store
        ELSE IF Repeats(k.answer) THEN Fail(0) /\ Discard
        ELSE run' = Took(k.answer, 1, calls) /\ UNCHANGED <<store, job>>
  BY DEF Reuse
<1>3. CASE Fail(0) /\ UNCHANGED store
  BY <1>1, <1>3, FailFits, RunOnly DEF WInv
<1>4. CASE Fail(0) /\ Discard
  BY <1>1, <1>4, FailFits, DiscardWInv DEF WInv
<1>5. CASE run' = Took(k.answer, 1, calls) /\ UNCHANGED <<store, job>>
  <2>1. k.answer \in AnswerSet /\ k.answer.text = run.text
    BY DEF Reusable, CanPut, WInv, Types, KeptFits, KeptSet
  <2>2. calls \in Nat
    BY SizesNat
  <2>3. TakenFits(run')
    BY <1>1, <1>5, <2>1, <2>2, TookFits DEF WInv
  <2>4. QED
    BY <1>1, <1>5, <2>3, TakenRunFits, RunOnly DEF WInv, Types
<1>6. QED
  BY <1>2, <1>3, <1>4, <1>5

LEMMA LookWInv ==
  ASSUME WInv, Look
  PROVE  WInv'
<1>1. UNCHANGED <<material, store, wiki, portions, breaks>>
  BY DEF Look
<1>2. CASE Fail(0)
  BY <1>1, <1>2, FailFits, RunOnly DEF WInv
<1>3. CASE run' = [run EXCEPT !.at = "ask", !.answers = @ + 1] /\ UNCHANGED job
  <2>1. run' \in Runs
    <3>1. run \in Runs /\ run.answers + 1 \in Nat
      BY DEF WInv, Types, Runs
    <3>2. run' = [run EXCEPT !.at = "ask", !.answers = @ + 1]
      BY <1>3
    <3>3. QED
      BY <3>1, <3>2 DEF Runs
  <2>2. RunFits'
    BY <1>3 DEF WInv, Types, Runs, RunFits
  <2>3. QED
    BY <1>1, <1>3, <2>1, <2>2, RunOnly DEF WInv, Types
<1>4. QED
  BY <1>2, <1>3 DEF Look

LEMMA AskWInv ==
  ASSUME WInv, Ask
  PROVE  WInv'
<1>1. UNCHANGED <<material, store, wiki, portions, breaks>>
  BY DEF Ask
<1>2. CASE OutOfBudget
  BY <1>1, <1>2, PauseFits, RunOnly DEF WInv
<1>3. CASE job' = [job EXCEPT !.spent = @ + 1] /\ run' = [run EXCEPT !.at = "open"]
  <2>1. run' \in Runs /\ RunFits'
    BY <1>3 DEF WInv, Types, Runs, RunFits
  <2>2. job' \in JobSet
    BY <1>3 DEF WInv, Types, JobSet
  <2>3. QED
    BY <1>1, <2>1, <2>2, RunOnly
<1>4. QED
  BY <1>2, <1>3 DEF Ask

LEMMA ItemWInv ==
  ASSUME WInv, NEW n \in 1 .. MaxItems, Item(n)
  PROVE  WInv'
<1> DEFINE items == Append(run.items, n)
           kind == IF Keeps THEN Len(items) ELSE 0
<1>1. run.stage = "write" /\ UNCHANGED <<material, wiki, portions, breaks>>
  BY DEF Item, Streaming
<1>2. CASE OutOfBudget /\ UNCHANGED store
  BY <1>1, <1>2, PauseFits, RunOnly DEF WInv
<1>3. CASE EndJob(Charged(1), "failed", 0) /\ UNCHANGED store
  <2>1. Charged(1) \in JobSet /\ "failed" \in States
    BY CountsTyped DEF WInv, States
  <2>2. job' \in JobSet /\ run' \in Runs /\ RunFits'
    BY <1>3, <2>1, EndFits
  <2>3. QED
    BY <1>1, <1>3, <2>2, RunOnly
<1>4. CASE /\ ~(Keeps /\ ~CanPut)
           /\ run' = [run EXCEPT !.items = items, !.changed = Keeps, !.saved = kind]
           /\ IF Keeps THEN Put(Answer(items, TRUE)) ELSE UNCHANGED store
           /\ UNCHANGED job
  <2>1. n \in Nat
    BY SizesNat
  <2>2. run \in Runs /\ run.items \in Seq(Nat)
    BY DEF WInv, Types, Runs
  <2>3. items \in Seq(Nat) /\ Len(items) \in Nat
    BY <2>1, <2>2
  <2>4. kind \in Nat /\ Keeps \in BOOLEAN
    BY <2>3 DEF Keeps
  <2>5. run' \in Runs /\ RunFits'
    <3> DEFINE named == Keeps
    <3>1. run' = [run EXCEPT !.items = items, !.changed = named, !.saved = kind] /\ named \in BOOLEAN
      BY <1>4, <2>4
    <3> HIDE DEF items, kind, named
    <3>2. run' \in Runs
      BY <2>2, <2>3, <2>4, <3>1 DEF Runs
    <3>3. /\ run'.stage = run.stage /\ run'.text = run.text /\ run'.drafts = run.drafts
      BY <2>2, <3>1 DEF Runs
    <3>4. QED
      BY <1>1, <3>2, <3>3 DEF WInv, RunFits
  <2>6. CASE Keeps
    <3>1. Answer(items, TRUE) \in AnswerSet /\ Answer(items, TRUE).text = run.text
      BY <2>3, AnswerTyped DEF WInv
    <3>2. CanPut /\ Put(Answer(items, TRUE)) /\ job' \in JobSet
      BY <1>4, <2>6 DEF WInv, Types
    <3>3. QED
      BY <1>1, <2>5, <3>1, <3>2, PutWInv
  <2>7. CASE ~Keeps
    BY <1>1, <1>4, <2>5, <2>7, RunOnly DEF WInv, Types
  <2>8. QED
    BY <2>6, <2>7
<1>5. QED
  BY <1>2, <1>3, <1>4 DEF Item

LEMMA CirclesWInv ==
  ASSUME WInv, Circles
  PROVE  WInv'
<1>1. Len(run.items) \in Nat /\ TakenItems \in Nat
  BY CountsTyped DEF WInv, Types, Runs
<1>2. Told(TakenItems + Len(run.items)) \in Nat /\ Charged(1) \in JobSet /\ "failed" \in States
  <2>1. TakenItems + Len(run.items) \in Nat
    BY <1>1
  <2>2. QED
    BY <2>1, CountsTyped DEF WInv, States
<1>3. EndJob(Charged(1), "failed", Told(TakenItems + Len(run.items)))
  BY DEF Circles
<1>4. job' \in JobSet /\ run' \in Runs /\ RunFits'
  BY <1>2, <1>3, EndFits
<1>5. QED
  BY <1>4, RunOnly DEF Circles

LEMMA TakeWInv ==
  ASSUME WInv, run.stage = "write", NEW answer, answer.more \in BOOLEAN, NEW charged \in JobSet,
         NEW failures \in Nat, Take(answer, charged, failures),
         UNCHANGED <<material, wiki, portions, breaks>>
  PROVE  WInv'
<1>1. CASE Repeats(answer)
  <2>1. Told(TakenItems) \in Nat /\ "failed" \in States
    BY CountsTyped DEF WInv, States
  <2>2. EndJob(charged, "failed", Told(TakenItems))
    BY <1>1 DEF Take
  <2>3. job' \in JobSet /\ run' \in Runs /\ RunFits'
    BY <2>1, <2>2, EndFits
  <2>4. Discard \/ UNCHANGED store
    BY <1>1 DEF Take
  <2>5. QED
    BY <2>3, <2>4, DiscardWInv, RunOnly
<1>2. CASE ~Repeats(answer)
  <2>1. /\ run' = [run EXCEPT !.at = "keep", !.more = answer.more, !.failures = failures, !.unsent = 0]
        /\ job' = charged /\ UNCHANGED store
    BY <1>2 DEF Take
  <2>2. run' \in Runs
    BY <2>1 DEF WInv, Types, Runs
  <2>3. run'.stage = run.stage /\ run'.text = run.text /\ run'.drafts = run.drafts
    BY <2>1 DEF WInv, Types, Runs
  <2>4. RunFits'
    BY <2>3 DEF WInv, RunFits
  <2>5. QED
    BY <2>1, <2>2, <2>4, RunOnly
<1>3. QED
  BY <1>1, <1>2

LEMMA AnsweredWInv ==
  ASSUME WInv, NEW more \in BOOLEAN, Answered(more)
  PROVE  WInv'
<1>1. run.items \in Seq(Nat)
  BY DEF WInv, Types, Runs
<1>2. Answer(run.items, more).more \in BOOLEAN
  BY DEF Answer
<1>3. Completed \in JobSet
  BY CountsTyped DEF WInv
<1>4. QED
  BY <1>2, <1>3, TakeWInv DEF Answered, Streaming

LEMMA MalformedWInv ==
  ASSUME WInv, Malformed
  PROVE  WInv'
<1> DEFINE paid == [Completed EXCEPT !.lost = TRUE]
<1>1. UNCHANGED <<material, store, wiki, portions, breaks>>
  BY DEF Malformed
<1>2. Completed \in JobSet
  BY CountsTyped DEF WInv
<1>3. paid \in JobSet
  BY <1>2 DEF JobSet
<1>4. run \in Runs /\ run.saved \in Nat /\ run.answers + 1 \in Nat /\ <<>> \in Seq(Nat)
  BY DEF WInv, Types, Runs
<1>5. Told(TakenItems + run.saved) \in Nat /\ "failed" \in States
  <2>1. TakenItems + run.saved \in Nat
    BY <1>4, CountsTyped DEF WInv
  <2>2. QED
    BY <2>1, CountsTyped DEF WInv, States
<1>6. CASE \E told \in Nat : EndJob(paid, "failed", told)
  <2>1. job' \in JobSet /\ run' \in Runs /\ RunFits'
    BY <1>3, <1>5, <1>6, EndFits
  <2>2. QED
    BY <1>1, <2>1, RunOnly
<1>7. CASE /\ job' = paid
           /\ run' = [run EXCEPT !.at = "ask", !.items = <<>>, !.attempt = 2, !.answers = @ + 1,
                                 !.failures = 0, !.unsent = 0]
  <2>1. run' \in Runs
    BY <1>4, <1>7 DEF Runs
  <2>2. /\ run'.stage = run.stage /\ run'.text = run.text /\ run'.drafts = run.drafts
        /\ run'.at = "ask" /\ run'.items = <<>>
    BY <1>4, <1>7 DEF Runs
  <2>3. RunFits'
    BY <2>2 DEF WInv, RunFits
  <2>4. job' \in JobSet
    BY <1>3, <1>7
  <2>5. QED
    BY <1>1, <2>1, <2>3, <2>4, RunOnly
<1>8. QED
  BY <1>5, <1>6, <1>7 DEF Malformed

LEMMA BreaksWInv ==
  ASSUME WInv, Breaks
  PROVE  WInv'
<1>1. UNCHANGED <<material, wiki, portions, breaks>>
  BY DEF Breaks
<1>2. Len(run.items) \in Nat /\ TakenItems \in Nat /\ run \in Runs
  <2>1. run \in Runs /\ run.items \in Seq(Nat)
    BY DEF WInv, Types, Runs
  <2>2. QED
    BY <2>1, CountsTyped DEF WInv
<1>3. Told(TakenItems + Len(run.items)) \in Nat /\ Charged(0) \in JobSet /\ "failed" \in States
  BY <1>2, CountsTyped DEF WInv, States
<1>4. CASE EndJob(Charged(0), "failed", Told(TakenItems + Len(run.items))) /\ UNCHANGED store
  <2>1. job' \in JobSet /\ run' \in Runs /\ RunFits'
    BY <1>3, <1>4, EndFits
  <2>2. QED
    BY <1>1, <1>4, <2>1, RunOnly
<1>5. CASE run.items # <<>> /\ Take(Answer(run.items, TRUE), Charged(0), 1)
  <2>1. run.stage = "write"
    BY <1>5 DEF WInv, RunFits
  <2>2. Answer(run.items, TRUE).more \in BOOLEAN
    BY DEF Answer
  <2>3. Charged(0) \in JobSet
    BY <1>3
  <2> DEFINE answer == Answer(run.items, TRUE)
             charged == Charged(0)
  <2>4. Take(answer, charged, 1) /\ answer.more \in BOOLEAN /\ charged \in JobSet
    BY <1>5, <2>2, <2>3
  <2> HIDE DEF answer, charged
  <2>5. QED
    BY <1>1, <2>1, <2>4, TakeWInv
<1>6. CASE run' = [run EXCEPT !.at = "ask", !.failures = 1] /\ UNCHANGED <<store, job>>
  <2>1. run' \in Runs
    BY <1>2, <1>6 DEF Runs
  <2>2. RunFits'
    BY <1>2, <1>6 DEF WInv, RunFits, Runs
  <2>3. QED
    BY <1>1, <1>6, <2>1, <2>2, RunOnly DEF WInv, Types
<1>7. QED
  BY <1>4, <1>5, <1>6 DEF Breaks

LEMMA BusyWInv ==
  ASSUME WInv, Busy
  PROVE  WInv'
<1>1. UNCHANGED <<material, store, wiki, portions, breaks>>
  BY DEF Busy
<1>2. CASE Fail(0)
  BY <1>1, <1>2, FailFits, RunOnly DEF WInv
<1>3. CASE run' = [run EXCEPT !.at = "ask", !.unsent = @ + 1] /\ UNCHANGED job
  <2>1. run \in Runs /\ run.unsent + 1 \in Nat
    BY DEF WInv, Types, Runs
  <2>2. run' \in Runs
    BY <1>3, <2>1 DEF Runs
  <2>3. RunFits'
    BY <1>3, <2>1 DEF WInv, RunFits, Runs
  <2>4. QED
    BY <1>1, <1>3, <2>2, <2>3, RunOnly DEF WInv, Types
<1>4. QED
  BY <1>2, <1>3 DEF Busy

LEMMA RefusedWInv == ASSUME WInv, Refused PROVE WInv'
  BY FailFits, RunOnly DEF WInv, Refused

LEMMA KeepWInv ==
  ASSUME WInv, Keep
  PROVE  WInv'
<1> DEFINE answer == Answer(run.items, run.more)
<1>1. UNCHANGED <<material, wiki, portions, breaks>> /\ run.stage = "write"
  BY DEF Keep, WInv, RunFits
<1>2. CASE Fail(0) /\ UNCHANGED store
  BY <1>1, <1>2, FailFits, RunOnly DEF WInv
<1>3. CASE /\ ~(Keeps /\ ~CanPut)
           /\ \E calls \in 0 .. MaxCalls :
                /\ run' = [Took(answer, 0, calls) EXCEPT !.changed = Keeps]
                /\ IF Keeps THEN Put(answer) ELSE UNCHANGED store
                /\ UNCHANGED job
  <2>1. PICK calls \in 0 .. MaxCalls : run' = [Took(answer, 0, calls) EXCEPT !.changed = Keeps]
    BY <1>3
  <2>2. (IF Keeps THEN Put(answer) ELSE UNCHANGED store) /\ UNCHANGED job
    BY <1>3
  <2>3. calls \in Nat
    BY SizesNat
  <2>4. answer \in AnswerSet /\ answer.text = run.text
    BY AnswerTyped DEF WInv, Types, Runs
  <2> HIDE DEF answer
  <2>5. TakenFits(Took(answer, 0, calls))
    BY <1>1, <2>3, <2>4, TookFits DEF WInv
  <2>6. Keeps \in BOOLEAN
    BY DEF Keeps
  <2>7. TakenFits(run')
    BY <2>1, <2>5, <2>6 DEF TakenFits, Runs
  <2>8. run' \in Runs /\ RunFits' /\ job' \in JobSet
    BY <1>1, <2>2, <2>7, TakenRunFits DEF WInv, Types
  <2>9. CASE Keeps
    BY <1>1, <1>3, <2>2, <2>4, <2>8, <2>9, PutWInv
  <2>10. CASE ~Keeps
    BY <1>1, <2>2, <2>8, <2>10, RunOnly
  <2>11. QED
    BY <2>9, <2>10
<1>4. QED
  BY <1>2, <1>3 DEF Keep

LEMMA NothingPassesWInv ==
  ASSUME WInv, NothingPasses
  PROVE  WInv'
<1>1. kept' \subseteq kept /\ UNCHANGED <<material, row, wiki, portions, breaks>> /\ Fail(0)
  BY DEF NothingPasses
<1>2. job' \in JobSet /\ run' \in Runs /\ RunFits'
  BY <1>1, FailFits DEF WInv
<1>3. /\ kept' \subseteq KeptSet /\ row' \in [text : Nat, by : By] /\ KeptFits'
      /\ material.at = "gone" => kept' = {} /\ row' = NoRow
  BY <1>1 DEF WInv, Types, KeptFits, GoneIsGone
<1>4. QED
  BY <1>1, <1>2, <1>3, StoreOnly

-----------------------------------------------------------------------------
(* Recognition check, matching and writing *)

LEMMA PlainAnsweredWInv ==
  ASSUME WInv, PlainAnswered
  PROVE  WInv'
<1>1. /\ UNCHANGED <<store, wiki, portions, breaks>> /\ run.at = "open"
      /\ run \in Runs /\ run.stage \in {"check", "match"} /\ RunFits
  BY DEF PlainAnswered, WInv, Types
<1>2. job' \in JobSet
  <2>1. Completed \in JobSet
    BY CountsTyped DEF WInv
  <2>2. QED
    BY <2>1 DEF PlainAnswered, JobSet
<1>3. CASE /\ run' = [run EXCEPT !.at = "ask", !.left = @ - 1, !.failures = 0, !.unsent = 0]
           /\ run.left > 1 /\ UNCHANGED material
  <2>1. run.left - 1 \in Nat
    BY <1>1, <1>3 DEF Runs
  <2>2. run' \in Runs
    BY <1>1, <1>3, <2>1 DEF Runs
  <2>3. RunFits'
    BY <1>1, <1>3 DEF RunFits, Runs
  <2>4. QED
    BY <1>1, <1>2, <1>3, <2>2, <2>3, RunOnly
<1>4. CASE run.stage = "match" /\ run' = [run EXCEPT !.stage = "save"] /\ UNCHANGED material
  <2>1. run' \in Runs
    BY <1>1, <1>4 DEF Runs
  <2>2. RunFits'
    BY <1>1, <1>4 DEF RunFits, Runs
  <2>3. QED
    BY <1>1, <1>2, <1>4, <2>1, <2>2, RunOnly
<1>5. CASE /\ run.stage = "check" /\ run' = [run EXCEPT !.stage = "read", !.failures = 0]
           /\ \E text \in {material.text, material.text + 1} \cap 1 .. MaxTexts :
                material' = [material EXCEPT !.checked = TRUE, !.text = text]
  <2>1. run' \in Runs
    BY <1>1, <1>5 DEF Runs
  <2>2. RunFits'
    BY <1>1, <1>5 DEF RunFits, Runs
  <2>3. /\ material' \in [text : Nat \ {0}, checked : BOOLEAN, at : {"here", "deleting", "gone"}]
        /\ material'.at = material.at
    <3>1. material \in [text : Nat \ {0}, checked : BOOLEAN, at : {"here", "deleting", "gone"}]
      BY DEF WInv, Types
    <3>2. PICK text \in {material.text, material.text + 1} :
            material' = [material EXCEPT !.checked = TRUE, !.text = text]
      BY <1>5
    <3>3. text \in Nat \ {0}
      BY <3>1
    <3>4. QED
      BY <3>1, <3>2, <3>3
  <2>4. QED
    BY <1>1, <1>2, <2>1, <2>2, <2>3 DEF WInv, Types, KeptFits, OneText, GoneIsGone, store, wiki
<1>6. QED
  BY <1>1, <1>3, <1>4, <1>5 DEF PlainAnswered

LEMMA SaveWInv ==
  ASSUME WInv, Save
  PROVE  WInv'
<1>1. UNCHANGED <<material, store, done, portions, breaks>> /\ run.stage = "save"
  BY DEF Save
<1>2. CASE Fail(0) /\ UNCHANGED page
  BY <1>1, <1>2, FailFits, RunOnly DEF WInv, wiki
<1>3. CASE /\ material.at # "gone"
           /\ page' = [text |-> run.text, from |-> {a.text : a \in run.drafts}]
           /\ run' = [run EXCEPT !.stage = "saved", !.at = "none"]
           /\ UNCHANGED job
  <2>1. run \in Runs /\ run.text \in Nat
    BY DEF WInv, Types, Runs
  <2>2. \A a \in run.drafts : a.text = run.text
    BY DEF WInv, RunFits
  <2>3. page' \in [text : Nat, from : SUBSET Nat] /\ page'.from \subseteq {page'.text}
    BY <1>3, <2>1, <2>2
  <2>4. run' \in Runs
    BY <1>3, <2>1 DEF Runs
  <2>5. RunFits'
    BY <1>1, <1>3, <2>1 DEF WInv, RunFits, Runs
  <2>6. QED
    BY <1>1, <1>3, <2>3, <2>4, <2>5 DEF WInv, Types, KeptFits, OneText, GoneIsGone, store
<1>4. QED
  BY <1>2, <1>3 DEF Save

LEMMA FinishWInv ==
  ASSUME WInv, Finish
  PROVE  WInv'
<1>1. UNCHANGED <<material, kept, page, portions, breaks>> /\ run.stage = "saved"
  BY DEF Finish
<1>2. job' \in JobSet /\ run' \in Runs /\ RunFits'
  BY EndFits DEF Finish, WInv, Types, States
<1>3. row' \in [text : Nat, by : By] /\ row'.text = row.text
  BY DEF Finish, WInv, Types, JobSet
<1>4. done' \in [by : By, answers : SUBSET AnswerSet]
  BY DEF Finish, WInv, Types, JobSet, Runs
<1>5. material.at = "gone" => row' = row
  <2>1. material.at = "gone" => ~CanPut
    BY <1>1 DEF WInv, GoneIsGone, NoRow, CanPut, RunFits
  <2>2. QED
    BY <2>1 DEF Finish
<1>6. QED
  BY <1>1, <1>2, <1>3, <1>4, <1>5 DEF WInv, Types, KeptFits, OneText, GoneIsGone

-----------------------------------------------------------------------------
(* Around the run *)

LEMMA StopWInv ==
  ASSUME WInv, Stop
  PROVE  WInv'
<1>1. Charged(0) \in JobSet /\ "cancelled" \in States
  BY CountsTyped DEF WInv, States
<1>2. job' \in JobSet /\ run' \in Runs /\ RunFits'
  BY <1>1, EndFits DEF Stop
<1>3. QED
  BY <1>2, RunOnly DEF Stop

LEMMA PutBackWInv ==
  ASSUME WInv, NEW charged \in JobSet, PutBack(charged)
  PROVE  WInv'
<1> DEFINE lost == charged.lost \/ run.at = "keep"
           back == [charged EXCEPT !.lost = lost]
<1>1. lost \in BOOLEAN
  OBVIOUS
<1>2. back \in JobSet
  <2> HIDE DEF lost
  <2>1. QED
    BY <1>1 DEF JobSet
<1>3. EndJob(back, "queued", 0) /\ "queued" \in States
  BY DEF PutBack, States, JobSet
<1>4. job' \in JobSet /\ run' \in Runs /\ RunFits'
  BY <1>2, <1>3, EndFits
<1>5. breaks' \in Nat /\ UNCHANGED <<material, store, wiki, portions>>
  BY DEF PutBack, WInv, Types
<1>6. QED
  BY <1>4, <1>5 DEF WInv, Types, KeptFits, OneText, GoneIsGone, store, wiki

LEMMA CloseWInv == ASSUME WInv, Close PROVE WInv'
<1>1. Charged(0) \in JobSet
  BY CountsTyped DEF WInv
<1>2. QED
  BY <1>1, PutBackWInv DEF Close

LEMMA CrashWInv == ASSUME WInv, Crash PROVE WInv'
  BY PutBackWInv DEF Crash, WInv, Types

\* The material changes or goes; no run and no row is touched, or all rows are.
LEMMA MaterialWInv ==
  ASSUME WInv, Edit \/ AskDelete \/ Delete
  PROVE  WInv'
<1>1. UNCHANGED <<job, run, portions, breaks>>
  BY DEF Edit, AskDelete, Delete
<1>2. material' \in [text : Nat \ {0}, checked : BOOLEAN, at : {"here", "deleting", "gone"}]
  BY DEF Edit, AskDelete, Delete, WInv, Types
<1>3. CASE Edit \/ AskDelete
  <2>1. material'.at # "gone" /\ UNCHANGED <<store, wiki>>
    BY <1>3 DEF Edit, AskDelete, WInv, Types
  <2>2. QED
    BY <1>1, <1>2, <2>1 DEF WInv, Types, RunFits, KeptFits, OneText, GoneIsGone, store, wiki
<1>4. CASE Delete
  <2>1. row' = NoRow /\ kept' = {} /\ page' = NoPage /\ done' = NotDone
    BY <1>4 DEF Delete
  <2>2. QED
    BY <1>1, <1>2, <2>1 DEF WInv, Types, RunFits, KeptFits, OneText, GoneIsGone,
                            NoRow, NoPage, NotDone, By
<1>5. QED
  BY <1>3, <1>4

-----------------------------------------------------------------------------
LEMMA NextWInv == WInv /\ [Next]_runVars => WInv'
<1> SUFFICES ASSUME WInv, [Next]_runVars
             PROVE  WInv'
  OBVIOUS
<1>1. CASE UNCHANGED runVars
  BY <1>1 DEF runVars, store, wiki, WInv, Types, RunFits, KeptFits, OneText, GoneIsGone
<1>2. CASE (\E c \in Choices : Add(c)) \/ Begin \/ Read
  BY <1>2, AddWInv, BeginWInv, ReadWInv
<1>3. CASE Reuse \/ Look \/ Ask \/ (\E n \in 1 .. MaxItems : Item(n)) \/ Circles
  BY <1>3, ReuseWInv, LookWInv, AskWInv, ItemWInv, CirclesWInv
<1>4. CASE (\E more \in BOOLEAN : Answered(more)) \/ Malformed \/ Breaks \/ Busy \/ Refused \/ Keep
           \/ NothingPasses
  BY <1>4, AnsweredWInv, MalformedWInv, BreaksWInv, BusyWInv, RefusedWInv, KeepWInv, NothingPassesWInv
<1>5. CASE PlainAnswered \/ Save \/ Finish
  BY <1>5, PlainAnsweredWInv, SaveWInv, FinishWInv
<1>6. CASE Stop \/ Close \/ Crash \/ Edit \/ AskDelete \/ Delete
  BY <1>6, StopWInv, CloseWInv, CrashWInv, MaterialWInv
<1>7. QED
  BY <1>1, <1>2, <1>3, <1>4, <1>5, <1>6 DEF Next

LEMMA WInvAlways == Spec => []WInv
  BY InitWInv, NextWInv, PTL DEF Spec

\* The variables keep their types, whatever the run meets (knowledge/ingest/runner.py).
THEOREM RunTypes == Spec => []Types
<1>1. WInv => Types
  BY DEF WInv
<1>2. QED
  BY <1>1, WInvAlways, PTL

\* A page is made of answers about one text, the one its run has read: answers kept for an
\* older text never get into it (checkpoints.py, prepare, entry and put).
THEOREM PageHasOneText == Spec => []OneText
<1>1. WInv => OneText
  BY DEF WInv
<1>2. QED
  BY <1>1, WInvAlways, PTL

\* A deleted material has no page and no kept answers, though a run of it may go on
\* (checkpoints.py, put; the check of the writer under the library's lock).
THEOREM GoneStaysGone == Spec => []GoneIsGone
<1>1. WInv => GoneIsGone
  BY DEF WInv
<1>2. QED
  BY <1>1, WInvAlways, PTL

-----------------------------------------------------------------------------
(* What a job says is kept *)

\* The rows of an operation's answers, each under the answers before it.
ChainOf(rows, op, taken) ==
  \A i \in DOMAIN taken :
    \E k \in rows : k.op = op /\ k.after = SubSeq(taken, 1, i - 1) /\ k.answer = taken[i]

\* The row of the step after them, with so many items.
StepOf(rows, op, taken, count) ==
  \E k \in rows : k.op = op /\ k.after = taken /\ Len(k.answer.items) = count

ChainOfRun(rows, r) ==
  r.stage = "write" =>
    /\ ChainOf(rows, r.op, r.taken)
    /\ r.saved # 0 => StepOf(rows, r.op, r.taken, r.saved)
    /\ r.items # <<>> => r.saved = Len(r.items)

\* While it writes, a run that keeps its answers has every answer it has taken in the rows,
\* and the items of the open call as well.
RunIsKept == Keeps /\ material.at # "gone" => ChainOfRun(kept, run)

KInv ==
  /\ IsFiniteSet(kept)
  /\ ~Running => run = NoRun
  /\ RunIsKept

\* The answers before a step do not change when one is added.
LEMMA BeforeAppended ==
  ASSUME NEW S, NEW taken \in Seq(S), NEW answer \in S, NEW i \in 1 .. Len(taken) + 1
  PROVE  SubSeq(Append(taken, answer), 1, i - 1) = SubSeq(taken, 1, i - 1)
<1> DEFINE more == Append(taken, answer)
<1>1. more \in Seq(S) /\ Len(more) = Len(taken) + 1 /\ \A j \in 1 .. Len(taken) : more[j] = taken[j]
  OBVIOUS
<1> HIDE DEF more
<1>2. /\ SubSeq(more, 1, i - 1) \in Seq(S) /\ SubSeq(taken, 1, i - 1) \in Seq(S)
      /\ Len(SubSeq(more, 1, i - 1)) = i - 1 /\ Len(SubSeq(taken, 1, i - 1)) = i - 1
  BY <1>1
<1>3. \A j \in 1 .. i - 1 : SubSeq(more, 1, i - 1)[j] = more[j] /\ SubSeq(taken, 1, i - 1)[j] = taken[j]
  BY <1>1
<1>4. \A j \in 1 .. i - 1 : more[j] = taken[j]
  BY <1>1
<1>5. QED
  BY <1>2, <1>3, <1>4, SeqEqual DEF more

LEMMA AllBefore ==
  ASSUME NEW S, NEW taken \in Seq(S)
  PROVE  SubSeq(taken, 1, Len(taken)) = taken
  BY SubSeqFull

\* The row of a step is none of those of the answers before it.
LEMMA ChainStays ==
  ASSUME NEW S, NEW taken \in Seq(S), NEW op, NEW rows, ChainOf(rows, op, taken), NEW now,
         \A k \in rows : <<k.op, k.after>> # <<op, taken>> => k \in now
  PROVE  ChainOf(now, op, taken)
<1> SUFFICES ASSUME NEW i \in DOMAIN taken
             PROVE  \E k \in now : k.op = op /\ k.after = SubSeq(taken, 1, i - 1) /\ k.answer = taken[i]
  BY DEF ChainOf
<1>1. PICK k \in rows : k.op = op /\ k.after = SubSeq(taken, 1, i - 1) /\ k.answer = taken[i]
  BY DEF ChainOf
<1>2. i \in 1 .. Len(taken)
  OBVIOUS
<1>3. Len(SubSeq(taken, 1, i - 1)) = i - 1
  BY <1>2
<1>4. SubSeq(taken, 1, i - 1) # taken
  BY <1>2, <1>3
<1>5. QED
  BY <1>1, <1>4

LEMMA ChainGrows ==
  ASSUME NEW S, NEW taken \in Seq(S), NEW answer \in S, NEW op, NEW rows, ChainOf(rows, op, taken),
         \E k \in rows : k.op = op /\ k.after = taken /\ k.answer = answer
  PROVE  ChainOf(rows, op, Append(taken, answer))
<1> DEFINE more == Append(taken, answer)
<1> SUFFICES ASSUME NEW i \in DOMAIN more
             PROVE  \E k \in rows : k.op = op /\ k.after = SubSeq(more, 1, i - 1) /\ k.answer = more[i]
  BY DEF ChainOf
<1>1. i \in 1 .. Len(taken) + 1 /\ Len(taken) \in Nat
  OBVIOUS
<1>2. SubSeq(more, 1, i - 1) = SubSeq(taken, 1, i - 1)
  BY <1>1, BeforeAppended
<1>3. CASE i = Len(taken) + 1
  <2>1. SubSeq(taken, 1, i - 1) = taken
    BY <1>1, <1>3, AllBefore
  <2>2. more[i] = answer
    BY <1>3
  <2>3. QED
    BY <1>2, <2>1, <2>2
<1>4. CASE i # Len(taken) + 1
  <2>1. i \in DOMAIN taken /\ more[i] = taken[i]
    BY <1>1, <1>4
  <2>2. QED
    BY <1>2, <2>1 DEF ChainOf
<1>5. QED
  BY <1>3, <1>4

\* What the next run finds is at least what was taken, with the items of the step it is at.
LEMMA FoundCounts ==
  ASSUME Types, NEW rows \in SUBSET KeptSet, IsFiniteSet(rows)
  PROVE  /\ Found(rows) \in Nat
         /\ \A count \in Nat :
              ChainOf(rows, run.op, run.taken) /\ (count = 0 \/ StepOf(rows, run.op, run.taken, count))
                => TakenItems + count <= Found(rows)
<1> DEFINE at(k) == k.op = run.op /\ \/ k.after = run.taken
                                     \/ \E i \in DOMAIN run.taken : /\ k.after = SubSeq(run.taken, 1, i - 1)
                                                                    /\ k.answer = run.taken[i]
           mine == {k \in rows : at(k)}
           of(k) == {<<Len(k.after), n>> : n \in DOMAIN k.answer.items}
           all == {of(k) : k \in mine}
           items == ItemsIn(run.taken)
<1>1. Found(rows) = Cardinality(UNION all)
  BY DEF Found
<1>2. IsFiniteSet(UNION all)
  <2>1. IsFiniteSet(mine)
    BY FS_Subset
  <2>2. IsFiniteSet(all)
    <3> DEFINE f == [k \in mine |-> of(k)]
    <3> HIDE DEF mine, of
    <3>1. f \in Surjection(mine, all)
      BY DEF Surjection
    <3>2. QED
      BY <2>1, <3>1, FS_Surjection
  <2>3. ASSUME NEW k \in mine PROVE IsFiniteSet(of(k))
    <3> DEFINE f == [n \in DOMAIN k.answer.items |-> <<Len(k.after), n>>]
    <3>1. k.answer.items \in Seq(Nat)
      BY DEF KeptSet, AnswerSet
    <3>2. Len(k.answer.items) \in Nat /\ DOMAIN k.answer.items = 1 .. Len(k.answer.items)
      BY <3>1
    <3>3. IsFiniteSet(DOMAIN k.answer.items)
      <4>1. 1 \in Int /\ Len(k.answer.items) \in Int
        BY <3>2
      <4>2. IsFiniteSet(1 .. Len(k.answer.items))
        BY <4>1, FS_Interval
      <4>3. QED
        BY <3>2, <4>2
    <3>4. f \in Surjection(DOMAIN k.answer.items, of(k))
      BY DEF Surjection
    <3>5. QED
      BY <3>3, <3>4, FS_Surjection
  <2>4. QED
    BY <2>2, <2>3, FS_UNION
<1>3. Found(rows) \in Nat
  BY <1>1, <1>2, FS_CardinalityType
<1>4. ASSUME ChainOf(rows, run.op, run.taken), NEW count \in Nat,
             count = 0 \/ StepOf(rows, run.op, run.taken, count)
      PROVE  TakenItems + count <= Found(rows)
  <2> DEFINE live == {<<Len(run.taken) + 1, n>> : n \in 1 .. count}
             f == [x \in items \cup live |-> <<x[1] - 1, x[2]>>]
  <2>1. run.taken \in Seq(AnswerSet) /\ Len(run.taken) \in Nat /\ DOMAIN run.taken = 1 .. Len(run.taken)
    BY DEF Types, Runs
  <2>2. \A x \in items : \E i \in DOMAIN run.taken : \E n \in 1 .. Len(run.taken[i].items) : x = <<i, n>>
    BY DEF ItemsIn
  <2>3. IsFiniteSet(live) /\ Cardinality(live) = count
    <3> DEFINE g == [n \in 1 .. count |-> <<Len(run.taken) + 1, n>>]
    <3>1. g \in [1 .. count -> live] /\ \A n \in 1 .. count : g[n] = <<Len(run.taken) + 1, n>>
      OBVIOUS
    <3> HIDE DEF g
    <3>4. g \in Surjection(1 .. count, live)
      BY <3>1 DEF Surjection
    <3>5. g \in Injection(1 .. count, live)
      BY <3>1 DEF Injection, IsInjective
    <3>2. IsFiniteSet(1 .. count) /\ Cardinality(1 .. count) = count
      BY FS_Interval
    <3>3. QED
      BY <3>2, <3>4, <3>5, FS_Surjection
  <2>4. items \cap live = {}
    BY <2>1, <2>2
  <2>5. \A x \in items : f[x] \in UNION all
    <3> SUFFICES ASSUME NEW i \in DOMAIN run.taken, NEW n \in 1 .. Len(run.taken[i].items)
                 PROVE  <<i - 1, n>> \in UNION all
      BY <2>2
    <3>1. PICK k \in rows : /\ k.op = run.op /\ k.after = SubSeq(run.taken, 1, i - 1)
                            /\ k.answer = run.taken[i]
      BY <1>4 DEF ChainOf
    <3>2. Len(k.after) = i - 1
      BY <2>1, <3>1
    <3>3. n \in DOMAIN k.answer.items
      BY <3>1 DEF KeptSet, AnswerSet
    <3>4. k \in mine /\ <<i - 1, n>> \in of(k)
      BY <3>1, <3>2, <3>3
    <3>5. QED
      BY <3>4
  <2>6. \A x \in live : f[x] \in UNION all
    <3> SUFFICES ASSUME NEW n \in 1 .. count
                 PROVE  <<Len(run.taken), n>> \in UNION all
      BY <2>1
    <3>1. PICK k \in rows : k.op = run.op /\ k.after = run.taken /\ Len(k.answer.items) = count
      BY <1>4 DEF StepOf
    <3>2. n \in DOMAIN k.answer.items
      BY <3>1 DEF KeptSet, AnswerSet
    <3>3. k \in mine /\ <<Len(run.taken), n>> \in of(k)
      BY <3>1, <3>2
    <3>4. QED
      BY <3>3
  <2>7. f \in Injection(items \cup live, UNION all)
    <3>1. f \in [items \cup live -> UNION all]
      BY <2>5, <2>6
    <3>2. \A x \in items \cup live : x[1] \in Nat /\ x = <<x[1], x[2]>>
      BY <2>1, <2>2
    <3>3. \A x, y \in items \cup live : f[x] = f[y] => x = y
      <4> SUFFICES ASSUME NEW x \in items \cup live, NEW y \in items \cup live, f[x] = f[y]
                   PROVE  x = y
        OBVIOUS
      <4>1. f[x] = <<x[1] - 1, x[2]>> /\ f[y] = <<y[1] - 1, y[2]>>
        OBVIOUS
      <4>2. x[1] - 1 = y[1] - 1 /\ x[2] = y[2]
        BY <4>1
      <4>3. x[1] = y[1]
        BY <3>2, <4>2
      <4>4. QED
        BY <3>2, <4>2, <4>3
    <3> HIDE DEF f, items, live, all
    <3>4. QED
      BY <3>1, <3>3 DEF Injection, IsInjective
  <2>8. Cardinality(items \cup live) <= Cardinality(UNION all) /\ IsFiniteSet(items)
    <3>1. Cardinality(items \cup live) <= Cardinality(UNION all) /\ IsFiniteSet(items \cup live)
      BY <1>2, <2>7, FS_Injection
    <3>2. QED
      BY <3>1, FS_Subset
  <2>9. Cardinality(items \cup live) = TakenItems + count
    <3>1. Cardinality(items \cup live) = Cardinality(items) + Cardinality(live) - Cardinality({})
      BY <2>3, <2>4, <2>8, FS_Union
    <3>2. Cardinality({}) = 0 /\ Cardinality(items) \in Nat
      BY <2>8, FS_EmptySet, FS_CardinalityType
    <3>3. QED
      BY <2>3, <3>1, <3>2 DEF TakenItems
  <2>10. QED
    BY <1>1, <2>8, <2>9
<1>5. QED
  BY <1>3, <1>4

-----------------------------------------------------------------------------
\* A job that ends says that at most so many items are kept.
ToldStep ==
  Running /\ job'.state \in {"failed", "paused"} /\ material.at # "gone" => job'.told <= Found(kept')

LEMMA ChargedSame ==
  ASSUME Types, NEW n \in Nat
  PROVE  /\ Charged(n).state = job.state /\ Charged(n).choice = job.choice
         /\ Completed.state = job.state /\ Completed.choice = job.choice
<1>1. \A m : Charged(m).state = job.state /\ Charged(m).choice = job.choice
  BY DEF Types, JobSet, Charged
<1>2. Charged(0) \in JobSet
  BY CountsTyped
<1>3. Completed.state = Charged(0).state /\ Completed.choice = Charged(0).choice
  BY <1>2 DEF Completed, JobSet
<1>4. QED
  BY <1>1, <1>3

\* A job ends, and tells no more than a next run finds.
LEMMA EndKept ==
  ASSUME NEW charged \in JobSet, NEW state \in States \ {"running"}, NEW told, EndJob(charged, state, told),
         IsFiniteSet(kept'), kept' \subseteq KeptSet, Types,
         material.at # "gone" => told = 0 \/ told <= Found(kept')
  PROVE  KInv' /\ ToldStep
<1>1. job'.state = state /\ job'.told = told /\ run' = NoRun
  BY DEF EndJob, JobSet
<1>2. KInv'
  BY <1>1 DEF KInv, RunIsKept, ChainOfRun, NoRun
<1>3. Found(kept') \in Nat
  BY FoundCounts
<1>4. QED
  BY <1>1, <1>2, <1>3 DEF ToldStep

LEMMA FailKept ==
  ASSUME WInv, KInv, Fail(0), IsFiniteSet(kept'), kept' \subseteq KeptSet
  PROVE  KInv' /\ ToldStep
<1>1. Charged(0) \in JobSet /\ "failed" \in States \ {"running"}
  BY CountsTyped DEF WInv, States
<1>2. QED
  BY <1>1, EndKept DEF Fail, WInv

\* What is taken, and the items of the open call, are in the rows.
LEMMA ToldFits ==
  ASSUME WInv, KInv, material.at # "gone", NEW count \in Nat, count \in {0, run.saved, Len(run.items)}
  PROVE  Told(TakenItems + count) = 0 \/ Told(TakenItems + count) <= Found(kept)
<1>1. CASE ~(Keeps /\ run.stage = "write")
  BY <1>1 DEF Told
<1>2. CASE Keeps /\ run.stage = "write"
  <2>1. /\ ChainOf(kept, run.op, run.taken)
        /\ run.saved # 0 => StepOf(kept, run.op, run.taken, run.saved)
        /\ run.items # <<>> => run.saved = Len(run.items)
    BY <1>2 DEF KInv, RunIsKept, ChainOfRun
  <2>2. count = 0 \/ StepOf(kept, run.op, run.taken, count)
    <3>1. CASE count = run.saved
      BY <2>1, <3>1
    <3>2. CASE count = Len(run.items) /\ run.items # <<>>
      BY <2>1, <3>2
    <3>3. CASE count = Len(run.items) /\ run.items = <<>>
      BY <3>3
    <3>4. QED
      BY <3>1, <3>2, <3>3
  <2>3. TakenItems + count <= Found(kept)
    BY <2>1, <2>2, FoundCounts DEF WInv, Types, KInv
  <2>4. QED
    BY <1>2, <2>3 DEF Told
<1>3. QED
  BY <1>1, <1>2

LEMMA PauseKept ==
  ASSUME WInv, KInv, OutOfBudget, UNCHANGED store
  PROVE  KInv' /\ ToldStep
<1> DEFINE shown == IF run.at = "open" THEN Len(run.items) ELSE 0
<1>1. shown \in Nat /\ shown \in {0, run.saved, Len(run.items)}
  BY DEF WInv, Types, Runs
<1>2. kept' = kept /\ IsFiniteSet(kept') /\ kept' \subseteq KeptSet
  BY DEF store, KInv, WInv, Types
<1>3. CASE job.completed \/ shown > 0
  <2>1. EndJob(Charged(0), "paused", Told(TakenItems + shown))
    BY <1>3 DEF OutOfBudget
  <2>2. material.at # "gone" => Told(TakenItems + shown) = 0 \/ Told(TakenItems + shown) <= Found(kept')
    BY <1>1, <1>2, ToldFits
  <2>3. Charged(0) \in JobSet /\ "paused" \in States \ {"running"}
    BY CountsTyped DEF WInv, States
  <2>4. QED
    BY <1>2, <2>1, <2>2, <2>3, EndKept DEF WInv
<1>4. CASE ~(job.completed \/ shown > 0)
  BY <1>2, <1>4, FailKept DEF OutOfBudget
<1>5. QED
  BY <1>3, <1>4

\* The run is at the same step as before, or writes no more.
LEMMA GoesOn ==
  ASSUME KInv, kept' = kept, job'.state = "running", job'.choice = job.choice,
         material'.at # "gone" => material.at # "gone",
         run'.stage = "write" => /\ run.stage = "write" /\ run'.op = run.op /\ run'.taken = run.taken
                                 /\ run'.saved = run.saved /\ run'.items \in {run.items, <<>>}
  PROVE  KInv' /\ ToldStep
<1>1. Keeps' = Keeps /\ Running'
  BY DEF Keeps, Running
<1>2. RunIsKept'
  BY <1>1 DEF KInv, RunIsKept, ChainOfRun
<1>3. QED
  BY <1>1, <1>2 DEF KInv, ToldStep

\* Nothing is taken at the first step of an operation.
LEMMA StepIsKept ==
  ASSUME NEW r \in Runs, NEW op \in Nat, NEW rows
  PROVE  ChainOfRun(rows, Step(r, op))
<1>1. Step(r, op).taken = <<>> /\ Step(r, op).saved = 0
  BY DEF Step, Runs
<1>2. Step(r, op).items = <<>>
  BY StepFits
<1>3. ChainOf(rows, Step(r, op).op, <<>>)
  BY DEF ChainOf
<1>4. QED
  BY <1>1, <1>2, <1>3 DEF ChainOfRun

LEMMA TookIsKept ==
  ASSUME Types, NEW answer \in AnswerSet, NEW count \in Nat, NEW calls \in Nat,
         NEW rows, ChainOf(rows, run.op, run.taken),
         \E k \in rows : k.op = run.op /\ k.after = run.taken /\ k.answer = answer
  PROVE  ChainOfRun(rows, Took(answer, count, calls))
<1> DEFINE r == [run EXCEPT !.taken = Append(@, answer), !.drafts = @ \cup {answer}, !.at = "look",
                            !.items = <<>>, !.saved = 0, !.attempt = 1, !.answers = @ + count]
<1>1. /\ run \in Runs /\ run.taken \in Seq(AnswerSet) /\ run.answers + count \in Nat
      /\ Append(run.taken, answer) \in Seq(AnswerSet)
  <2>1. run \in Runs /\ run.taken \in Seq(AnswerSet) /\ run.answers \in Nat
    BY DEF Types, Runs
  <2>2. QED
    BY <2>1
<1>2. r.op = run.op /\ r.taken = Append(run.taken, answer) /\ r.saved = 0 /\ r.items = <<>>
  BY <1>1 DEF Runs
<1>3. r \in Runs
  <2>1. run.drafts \cup {answer} \subseteq AnswerSet /\ <<>> \in Seq(Nat)
    BY <1>1 DEF Runs
  <2>2. QED
    BY <1>1, <2>1 DEF Runs
<1>4. ChainOfRun(rows, r)
  <2>1. ChainOf(rows, run.op, Append(run.taken, answer))
    BY <1>1, ChainGrows
  <2> HIDE DEF r
  <2>2. QED
    BY <1>2, <2>1 DEF ChainOfRun
<1>5. ChainOfRun(rows, Step(r, r.op + 1))
  <2> HIDE DEF r
  <2>1. r.op + 1 \in Nat
    BY <1>3 DEF Runs
  <2>2. QED
    BY <1>3, <2>1, StepIsKept
<1>6. ChainOfRun(rows, [r EXCEPT !.stage = IF calls = 0 THEN "save" ELSE "match", !.at = "ask", !.left = calls])
  <2> HIDE DEF r
  <2>1. QED
    BY <1>3 DEF ChainOfRun, Runs
<1>7. QED
  BY <1>4, <1>5, <1>6 DEF Took, Onward

\* A row that is put leaves the rows of the answers before it where they are.
LEMMA PutKeeps ==
  ASSUME WInv, KInv, NEW answer \in AnswerSet, Put(answer), ChainOf(kept, run.op, run.taken)
  PROVE  /\ IsFiniteSet(kept') /\ ChainOf(kept', run.op, run.taken)
         /\ \E k \in kept' : k.op = run.op /\ k.after = run.taken /\ k.answer = answer
<1> DEFINE others == {k \in kept : <<k.op, k.after>> # <<run.op, run.taken>>}
<1>1. kept' = others \cup {Kept(answer)}
  BY DEF Put
<1>2. IsFiniteSet(others)
  BY FS_Subset DEF KInv
<1>3. IsFiniteSet(kept')
  BY <1>1, <1>2, FS_AddElement
<1>4. run.taken \in Seq(AnswerSet)
  BY DEF WInv, Types, Runs
<1>5. ChainOf(kept', run.op, run.taken)
  BY <1>1, <1>4, ChainStays
<1>6. Kept(answer) \in kept' /\ Kept(answer).op = run.op /\ Kept(answer).after = run.taken
      /\ Kept(answer).answer = answer
  BY <1>1 DEF Kept
<1>7. QED
  BY <1>3, <1>5, <1>6

LEMMA DiscardKeeps ==
  ASSUME WInv, KInv, Discard
  PROVE  /\ IsFiniteSet(kept') /\ kept' \subseteq KeptSet
         /\ ChainOf(kept, run.op, run.taken) => ChainOf(kept', run.op, run.taken)
<1>1. kept' = {k \in kept : <<k.op, k.after>> # <<run.op, run.taken>>}
  BY DEF Discard
<1>2. IsFiniteSet(kept')
  BY <1>1, FS_Subset DEF KInv
<1>3. run.taken \in Seq(AnswerSet) /\ kept' \subseteq KeptSet
  BY <1>1 DEF WInv, Types, Runs
<1>4. ChainOf(kept, run.op, run.taken) => ChainOf(kept', run.op, run.taken)
  BY <1>1, <1>3, ChainStays
<1>5. QED
  BY <1>2, <1>3, <1>4

-----------------------------------------------------------------------------
LEMMA InitKInv == RunInit => KInv
  BY FS_EmptySet DEF RunInit, KInv, RunIsKept, ChainOfRun, NoRun

LEMMA AddKept == ASSUME WInv, KInv, NEW c \in Choices, Add(c) PROVE KInv' /\ ToldStep
<1>1. ~Running /\ run = NoRun /\ run' = NoRun /\ kept' = kept
  BY DEF Add, Pending, Running, KInv, store
<1>2. QED
  BY <1>1 DEF KInv, RunIsKept, ChainOfRun, NoRun, ToldStep

LEMMA BeginKept == ASSUME WInv, KInv, Begin PROVE KInv' /\ ToldStep
<1>1. ~Running /\ kept' = kept
  BY DEF Begin, Running, store
<1>2. CASE material.at = "gone"
  <2>1. run' = NoRun
    BY <1>2 DEF Begin, EndJob
  <2>2. QED
    BY <1>1, <2>1 DEF KInv, RunIsKept, ChainOfRun, NoRun, ToldStep
<1>3. CASE material.at # "gone"
  <2>1. job'.state = "running" /\ run'.stage \in {"read", "check"}
    BY <1>3 DEF Begin, NoRun, WInv, Types, JobSet
  <2>2. QED
    BY <1>1, <2>1 DEF KInv, RunIsKept, ChainOfRun, Running, ToldStep
<1>4. QED
  BY <1>2, <1>3

LEMMA ReadKept == ASSUME WInv, KInv, Read PROVE KInv' /\ ToldStep
<1>1. CASE material.at = "gone"
  <2>1. Fail(0) /\ kept' = kept
    BY <1>1 DEF Read, store
  <2>2. QED
    BY <2>1, FailKept DEF WInv, Types, KInv
<1>2. CASE material.at # "gone"
  <2> DEFINE read == [run EXCEPT !.text = material.text]
  <2>1. read \in Runs
    BY DEF WInv, Types, Runs
  <2>2. run' = Step(read, 1)
    BY <1>2 DEF Read
  <2>3. ChainOfRun(kept', run')
    <3> HIDE DEF read
    <3>1. QED
      BY <2>1, <2>2, StepIsKept
  <2>4. job'.state = "running"
    BY <1>2 DEF Read, Running, WInv, Types, JobSet
  <2>5. kept' = kept \/ kept' = {}
    BY <1>2 DEF Read, Prepared, store
  <2>6. IsFiniteSet(kept')
    BY <2>5, FS_EmptySet DEF KInv
  <2>7. QED
    BY <2>3, <2>4, <2>6 DEF KInv, RunIsKept, Running, ToldStep
<1>3. QED
  BY <1>1, <1>2

LEMMA ReuseKept == ASSUME WInv, KInv, Reuse PROVE KInv' /\ ToldStep
<1>1. material' = material /\ run.stage = "write" /\ Running
  BY DEF Reuse, WInv, RunFits
<1>2. PICK k \in Reusable, calls \in 0 .. MaxCalls :
        IF run.answers = MaxAnswers THEN Fail(0) /\ UNCHANGED store
        ELSE IF Repeats(k.answer) THEN Fail(0) /\ Discard
        ELSE run' = Took(k.answer, 1, calls) /\ UNCHANGED <<store, job>>
  BY DEF Reuse
<1>3. CASE Fail(0) /\ UNCHANGED store
  BY <1>3, FailKept DEF WInv, Types, KInv, store
<1>4. CASE Fail(0) /\ Discard
  BY <1>4, DiscardKeeps, FailKept
<1>5. CASE run' = Took(k.answer, 1, calls) /\ UNCHANGED <<store, job>>
  <2>1. /\ k \in kept /\ k.answer \in AnswerSet /\ Keeps
        /\ k.op = run.op /\ k.after = run.taken
    BY DEF Reusable, WInv, Types, KeptSet
  <2>2. calls \in Nat /\ kept' = kept /\ job' = job
    BY <1>5, SizesNat DEF store
  <2>3. material.at # "gone" => ChainOf(kept, run.op, run.taken)
    BY <1>1, <2>1 DEF KInv, RunIsKept, ChainOfRun
  <2>4. material.at # "gone" => ChainOfRun(kept, Took(k.answer, 1, calls))
    BY <2>1, <2>2, <2>3, TookIsKept DEF WInv
  <2>5. RunIsKept'
    BY <1>1, <1>5, <2>2, <2>4 DEF RunIsKept
  <2>6. QED
    BY <1>1, <2>2, <2>5 DEF KInv, Running, ToldStep
<1>6. QED
  BY <1>2, <1>3, <1>4, <1>5

LEMMA LookKept == ASSUME WInv, KInv, Look PROVE KInv' /\ ToldStep
<1>1. material' = material /\ kept' = kept /\ Running
  BY DEF Look, store
<1>2. CASE Fail(0)
  BY <1>1, <1>2, FailKept DEF WInv, Types, KInv
<1>3. CASE run' = [run EXCEPT !.at = "ask", !.answers = @ + 1] /\ UNCHANGED job
  <2>1. /\ run'.stage = run.stage /\ run'.op = run.op /\ run'.taken = run.taken
        /\ run'.saved = run.saved /\ run'.items = run.items
    BY <1>3 DEF WInv, Types, Runs
  <2>2. QED
    BY <1>1, <1>3, <2>1, GoesOn DEF Running
<1>4. QED
  BY <1>2, <1>3 DEF Look

LEMMA AskKept == ASSUME WInv, KInv, Ask PROVE KInv' /\ ToldStep
<1>1. material' = material /\ kept' = kept /\ UNCHANGED store /\ Running
  BY DEF Ask, store
<1>2. CASE OutOfBudget
  BY <1>1, <1>2, PauseKept
<1>3. CASE job' = [job EXCEPT !.spent = @ + 1] /\ run' = [run EXCEPT !.at = "open"]
  <2>1. /\ run'.stage = run.stage /\ run'.op = run.op /\ run'.taken = run.taken
        /\ run'.saved = run.saved /\ run'.items = run.items
    BY <1>3 DEF WInv, Types, Runs
  <2>2. job'.state = job.state /\ job'.choice = job.choice
    BY <1>3 DEF WInv, Types, JobSet
  <2>3. QED
    BY <1>1, <2>1, <2>2, GoesOn DEF Running
<1>4. QED
  BY <1>2, <1>3 DEF Ask

LEMMA ItemKept == ASSUME WInv, KInv, NEW n \in 1 .. MaxItems, Item(n) PROVE KInv' /\ ToldStep
<1> DEFINE items == Append(run.items, n)
           count == IF Keeps THEN Len(items) ELSE 0
<1>1. run.stage = "write" /\ material' = material /\ Running
  BY DEF Item, Streaming
<1>2. CASE OutOfBudget /\ UNCHANGED store
  BY <1>2, PauseKept
<1>3. CASE EndJob(Charged(1), "failed", 0) /\ UNCHANGED store
  <2>1. Charged(1) \in JobSet /\ "failed" \in States \ {"running"}
    BY CountsTyped DEF WInv, States
  <2>2. IsFiniteSet(kept') /\ kept' \subseteq KeptSet
    BY <1>3 DEF KInv, WInv, Types, store
  <2>3. QED
    BY <1>3, <2>1, <2>2, EndKept DEF WInv
<1>4. CASE /\ ~(Keeps /\ ~CanPut)
           /\ run' = [run EXCEPT !.items = items, !.changed = Keeps, !.saved = count]
           /\ IF Keeps THEN Put(Answer(items, TRUE)) ELSE UNCHANGED store
           /\ UNCHANGED job
  <2>1. run \in Runs /\ run.items \in Seq(Nat) /\ n \in Nat
    BY SizesNat DEF WInv, Types, Runs
  <2>2. items \in Seq(Nat) /\ Len(items) \in Nat
    BY <2>1
  <2>3. /\ run'.stage = run.stage /\ run'.op = run.op /\ run'.taken = run.taken
        /\ run'.saved = count /\ run'.items = items
    <3> DEFINE named == Keeps
    <3>1. run' = [run EXCEPT !.items = items, !.changed = named, !.saved = count]
      BY <1>4
    <3> HIDE DEF items, count, named
    <3>2. QED
      BY <2>1, <3>1 DEF Runs
  <2>4. job' = job /\ Running' /\ Keeps' = Keeps
    BY <1>1, <1>4 DEF Running, Keeps
  <2>5. CASE Keeps
    <3>1. Answer(items, TRUE) \in AnswerSet /\ Answer(items, TRUE).items = items
      BY <2>2, AnswerTyped DEF WInv, Answer
    <3>2. Put(Answer(items, TRUE)) /\ material.at # "gone"
      <4>1. Put(Answer(items, TRUE))
        BY <1>4, <2>5
      <4>2. run.text # 0
        BY <1>1 DEF WInv, RunFits
      <4>3. CanPut
        BY <1>4, <2>5
      <4>4. material.at # "gone"
        BY <4>2, <4>3 DEF WInv, GoneIsGone, NoRow, CanPut
      <4>5. QED
        BY <4>1, <4>4
    <3>3. ChainOf(kept, run.op, run.taken)
      BY <1>1, <2>5, <3>2 DEF KInv, RunIsKept, ChainOfRun
    <3>4. /\ IsFiniteSet(kept') /\ ChainOf(kept', run.op, run.taken)
          /\ StepOf(kept', run.op, run.taken, Len(items))
      <4> HIDE DEF items
      <4>1. QED
        BY <3>1, <3>2, <3>3, PutKeeps DEF StepOf
    <3>5. ChainOfRun(kept', run')
      <4> HIDE DEF items
      <4>1. count = Len(items)
        BY <2>5
      <4>2. QED
        BY <2>3, <3>4, <4>1 DEF ChainOfRun
    <3>6. QED
      BY <2>4, <3>4, <3>5 DEF KInv, RunIsKept, Running, ToldStep
  <2>6. CASE ~Keeps
    <3>1. kept' = kept
      BY <1>4, <2>6 DEF store
    <3>2. QED
      BY <2>4, <2>6, <3>1 DEF KInv, RunIsKept, Running, ToldStep
  <2>7. QED
    BY <2>5, <2>6
<1>5. QED
  BY <1>2, <1>3, <1>4 DEF Item

LEMMA CirclesKept == ASSUME WInv, KInv, Circles PROVE KInv' /\ ToldStep
<1>1. Len(run.items) \in Nat
  BY DEF WInv, Types, Runs
<1>2. EndJob(Charged(1), "failed", Told(TakenItems + Len(run.items))) /\ kept' = kept
  BY DEF Circles, store
<1>3. Charged(1) \in JobSet /\ "failed" \in States \ {"running"}
  BY CountsTyped DEF WInv, States
<1>4. material.at # "gone" => \/ Told(TakenItems + Len(run.items)) = 0
                              \/ Told(TakenItems + Len(run.items)) <= Found(kept')
  BY <1>1, <1>2, ToldFits
<1>5. IsFiniteSet(kept') /\ kept' \subseteq KeptSet /\ Types
  BY <1>2 DEF KInv, WInv, Types
<1>6. QED
  BY <1>2, <1>3, <1>4, <1>5, EndKept

LEMMA TakeKept ==
  ASSUME WInv, KInv, Running, NEW answer, NEW charged \in JobSet,
         charged.state = job.state, charged.choice = job.choice,
         NEW failures \in Nat, Take(answer, charged, failures), material' = material
  PROVE  KInv' /\ ToldStep
<1>1. CASE Repeats(answer)
  <2>1. EndJob(charged, "failed", Told(TakenItems)) /\ (IF Keeps THEN Discard ELSE UNCHANGED store)
    BY <1>1 DEF Take
  <2>2. IsFiniteSet(kept') /\ kept' \subseteq KeptSet
    BY <2>1, DiscardKeeps DEF KInv, WInv, Types, store
  <2>3. TakenItems \in Nat
    BY CountsTyped DEF WInv
  <2>4. material.at # "gone" => Told(TakenItems) = 0 \/ Told(TakenItems) <= Found(kept')
    <3>1. CASE Keeps /\ run.stage = "write" /\ material.at # "gone"
      <4>1. ChainOf(kept', run.op, run.taken)
        BY <2>1, <3>1, DiscardKeeps DEF KInv, RunIsKept, ChainOfRun
      <4>2. TakenItems + 0 <= Found(kept')
        BY <2>2, <4>1, FoundCounts DEF WInv
      <4>3. QED
        BY <2>3, <3>1, <4>2 DEF Told
    <3>2. CASE ~(Keeps /\ run.stage = "write")
      BY <3>2 DEF Told
    <3>3. QED
      BY <3>1, <3>2
  <2>5. QED
    BY <2>1, <2>2, <2>4, EndKept DEF WInv, States
<1>2. CASE ~Repeats(answer)
  <2>1. /\ run' = [run EXCEPT !.at = "keep", !.more = answer.more, !.failures = failures, !.unsent = 0]
        /\ job' = charged /\ kept' = kept
    BY <1>2 DEF Take, store
  <2>2. /\ run'.stage = run.stage /\ run'.op = run.op /\ run'.taken = run.taken
        /\ run'.saved = run.saved /\ run'.items = run.items
    BY <2>1 DEF WInv, Types, Runs
  <2>3. QED
    BY <2>1, <2>2, GoesOn DEF Running
<1>3. QED
  BY <1>1, <1>2

LEMMA AnsweredKept == ASSUME WInv, KInv, NEW more \in BOOLEAN, Answered(more) PROVE KInv' /\ ToldStep
<1>1. Completed \in JobSet /\ Completed.state = job.state /\ Completed.choice = job.choice
  BY CountsTyped, ChargedSame DEF WInv
<1>2. Take(Answer(run.items, more), Completed, 0) /\ material' = material /\ Running
  BY DEF Answered, Streaming
<1>3. QED
  BY <1>1, <1>2, TakeKept

LEMMA MalformedKept == ASSUME WInv, KInv, Malformed PROVE KInv' /\ ToldStep
<1> DEFINE paid == [Completed EXCEPT !.lost = TRUE]
<1>1. material' = material /\ kept' = kept /\ Running
  BY DEF Malformed, Streaming, store
<1>2. IsFiniteSet(kept') /\ kept' \subseteq KeptSet /\ Types
  BY <1>1 DEF KInv, WInv, Types
<1>3. Completed \in JobSet /\ Completed.state = job.state /\ Completed.choice = job.choice
  BY CountsTyped, ChargedSame DEF WInv
<1>4. paid \in JobSet /\ paid.state = job.state /\ paid.choice = job.choice
  BY <1>3 DEF JobSet
<1>5. run.saved \in Nat /\ "failed" \in States \ {"running"}
  BY DEF WInv, Types, Runs, States
<1> HIDE DEF paid
<1>6. CASE EndJob(paid, "failed", Told(TakenItems + run.saved))
  <2>1. material.at # "gone" => \/ Told(TakenItems + run.saved) = 0
                                \/ Told(TakenItems + run.saved) <= Found(kept')
    BY <1>1, <1>5, ToldFits
  <2>2. QED
    BY <1>2, <1>4, <1>5, <1>6, <2>1, EndKept
<1>7. CASE EndJob(paid, "failed", 0)
  BY <1>2, <1>4, <1>5, <1>7, EndKept
<1>8. CASE /\ job' = paid
           /\ run' = [run EXCEPT !.at = "ask", !.items = <<>>, !.attempt = 2, !.answers = @ + 1,
                                 !.failures = 0, !.unsent = 0]
  <2>1. /\ run'.stage = run.stage /\ run'.op = run.op /\ run'.taken = run.taken
        /\ run'.saved = run.saved /\ run'.items = <<>>
    BY <1>8 DEF WInv, Types, Runs
  <2>2. QED
    BY <1>1, <1>4, <1>8, <2>1, GoesOn DEF Running
<1>9. QED
  BY <1>6, <1>7, <1>8 DEF Malformed, paid

LEMMA BreaksKept == ASSUME WInv, KInv, Breaks PROVE KInv' /\ ToldStep
<1>1. material' = material /\ Running
  BY DEF Breaks
<1>2. Charged(0) \in JobSet /\ Charged(0).state = job.state /\ Charged(0).choice = job.choice
  BY CountsTyped, ChargedSame DEF WInv
<1>3. CASE EndJob(Charged(0), "failed", Told(TakenItems + Len(run.items))) /\ UNCHANGED store
  <2>1. kept' = kept /\ IsFiniteSet(kept') /\ kept' \subseteq KeptSet /\ Types
    BY <1>3 DEF KInv, WInv, Types, store
  <2>2. Len(run.items) \in Nat /\ "failed" \in States \ {"running"}
    BY DEF WInv, Types, Runs, States
  <2>3. material.at # "gone" => \/ Told(TakenItems + Len(run.items)) = 0
                                \/ Told(TakenItems + Len(run.items)) <= Found(kept')
    BY <2>1, <2>2, ToldFits
  <2>4. QED
    BY <1>2, <1>3, <2>1, <2>2, <2>3, EndKept
<1>4. CASE Take(Answer(run.items, TRUE), Charged(0), 1)
  <2> DEFINE answer == Answer(run.items, TRUE)
             charged == Charged(0)
  <2>1. /\ Take(answer, charged, 1) /\ charged \in JobSet
        /\ charged.state = job.state /\ charged.choice = job.choice
    BY <1>2, <1>4
  <2> HIDE DEF answer, charged
  <2>2. QED
    BY <1>1, <2>1, TakeKept
<1>5. CASE run' = [run EXCEPT !.at = "ask", !.failures = 1] /\ UNCHANGED <<store, job>>
  <2>1. /\ run'.stage = run.stage /\ run'.op = run.op /\ run'.taken = run.taken
        /\ run'.saved = run.saved /\ run'.items = run.items
    BY <1>5 DEF WInv, Types, Runs
  <2>2. kept' = kept /\ job' = job
    BY <1>5 DEF store
  <2>3. QED
    BY <1>1, <2>1, <2>2, GoesOn DEF Running
<1>6. QED
  BY <1>3, <1>4, <1>5 DEF Breaks

LEMMA BusyKept == ASSUME WInv, KInv, Busy PROVE KInv' /\ ToldStep
<1>1. material' = material /\ kept' = kept /\ Running
  BY DEF Busy, store
<1>2. CASE Fail(0)
  BY <1>1, <1>2, FailKept DEF WInv, Types, KInv
<1>3. CASE run' = [run EXCEPT !.at = "ask", !.unsent = @ + 1] /\ UNCHANGED job
  <2>1. /\ run'.stage = run.stage /\ run'.op = run.op /\ run'.taken = run.taken
        /\ run'.saved = run.saved /\ run'.items = run.items
    BY <1>3 DEF WInv, Types, Runs
  <2>2. QED
    BY <1>1, <1>3, <2>1, GoesOn DEF Running
<1>4. QED
  BY <1>2, <1>3 DEF Busy

LEMMA RefusedKept == ASSUME WInv, KInv, Refused PROVE KInv' /\ ToldStep
  BY FailKept DEF Refused, WInv, Types, KInv, store

LEMMA KeepKept == ASSUME WInv, KInv, Keep PROVE KInv' /\ ToldStep
<1> DEFINE answer == Answer(run.items, run.more)
<1>1. material' = material /\ run.stage = "write" /\ Running
  BY DEF Keep, WInv, RunFits
<1>2. CASE Fail(0) /\ UNCHANGED store
  BY <1>2, FailKept DEF WInv, Types, KInv, store
<1>3. CASE /\ ~(Keeps /\ ~CanPut)
           /\ \E calls \in 0 .. MaxCalls :
                /\ run' = [Took(answer, 0, calls) EXCEPT !.changed = Keeps]
                /\ IF Keeps THEN Put(answer) ELSE UNCHANGED store
                /\ UNCHANGED job
  <2>1. PICK calls \in 0 .. MaxCalls : run' = [Took(answer, 0, calls) EXCEPT !.changed = Keeps]
    BY <1>3
  <2>2. (IF Keeps THEN Put(answer) ELSE UNCHANGED store) /\ job' = job
    BY <1>3
  <2>3. answer \in AnswerSet /\ answer.text = run.text
    BY AnswerTyped DEF WInv, Types, Runs
  <2> HIDE DEF answer
  <2>4. CASE Keeps
    <3>1. CanPut /\ run.text # 0
      BY <1>1, <1>3, <2>4 DEF WInv, RunFits
    <3>2. material.at # "gone"
      BY <3>1 DEF WInv, GoneIsGone, NoRow, CanPut
    <3>3. ChainOf(kept, run.op, run.taken)
      BY <1>1, <2>4, <3>2 DEF KInv, RunIsKept, ChainOfRun
    <3>4. /\ IsFiniteSet(kept') /\ ChainOf(kept', run.op, run.taken)
          /\ \E k \in kept' : k.op = run.op /\ k.after = run.taken /\ k.answer = answer
      BY <2>2, <2>3, <2>4, <3>3, PutKeeps
    <3>5. calls \in Nat
      BY SizesNat
    <3>6. ChainOfRun(kept', Took(answer, 0, calls))
      BY <2>3, <3>4, <3>5, TookIsKept DEF WInv
    <3>7. Took(answer, 0, calls) \in Runs
      BY <1>1, <2>3, <3>5, TookFits DEF WInv, TakenFits
    <3>8. ChainOfRun(kept', run')
      <4> DEFINE took == Took(answer, 0, calls)
                 named == Keeps
      <4>1. run' = [took EXCEPT !.changed = named] /\ took \in Runs /\ ChainOfRun(kept', took)
        BY <2>1, <3>6, <3>7
      <4> HIDE DEF took, named
      <4>2. /\ run'.stage = took.stage /\ run'.op = took.op /\ run'.taken = took.taken
            /\ run'.saved = took.saved /\ run'.items = took.items
        BY <4>1 DEF Runs
      <4>3. QED
        BY <4>1, <4>2 DEF ChainOfRun
    <3>9. QED
      BY <1>1, <2>2, <3>4, <3>8 DEF KInv, RunIsKept, Running, ToldStep
  <2>5. CASE ~Keeps
    <3>1. kept' = kept /\ Keeps' = Keeps
      BY <2>2, <2>5 DEF store, Keeps
    <3>2. QED
      BY <1>1, <2>2, <2>5, <3>1 DEF KInv, RunIsKept, Running, ToldStep
  <2>6. QED
    BY <2>4, <2>5
<1>4. QED
  BY <1>2, <1>3 DEF Keep

LEMMA NothingPassesKept == ASSUME WInv, KInv, NothingPasses PROVE KInv' /\ ToldStep
<1>1. Fail(0) /\ (kept' = kept \/ kept' = {})
  BY DEF NothingPasses
<1>2. IsFiniteSet(kept') /\ kept' \subseteq KeptSet
  BY <1>1, FS_EmptySet DEF KInv, WInv, Types
<1>3. QED
  BY <1>1, <1>2, FailKept

LEMMA PlainAnsweredKept == ASSUME WInv, KInv, PlainAnswered PROVE KInv' /\ ToldStep
<1>1. kept' = kept /\ Running /\ run.stage \in {"check", "match"}
  BY DEF PlainAnswered, store
<1>2. job'.state = job.state /\ job'.choice = job.choice
  <2>1. Completed \in JobSet /\ Completed.state = job.state /\ Completed.choice = job.choice
    BY CountsTyped, ChargedSame DEF WInv
  <2>2. QED
    BY <2>1 DEF PlainAnswered, JobSet
<1>3. run'.stage # "write"
  <2>1. run \in Runs
    BY DEF WInv, Types
  <2>2. CASE run' = [run EXCEPT !.at = "ask", !.left = @ - 1, !.failures = 0, !.unsent = 0]
    BY <1>1, <2>1, <2>2 DEF Runs
  <2>3. CASE run' = [run EXCEPT !.stage = "save"] \/ run' = [run EXCEPT !.stage = "read", !.failures = 0]
    BY <2>1, <2>3 DEF Runs
  <2>4. QED
    BY <2>2, <2>3 DEF PlainAnswered
<1>4. material'.at = material.at
  BY DEF PlainAnswered, WInv, Types
<1>5. QED
  BY <1>1, <1>2, <1>3, <1>4, GoesOn DEF Running

LEMMA SaveKept == ASSUME WInv, KInv, Save PROVE KInv' /\ ToldStep
<1>1. material' = material /\ kept' = kept /\ Running
  BY DEF Save, store
<1>2. CASE Fail(0)
  BY <1>1, <1>2, FailKept DEF WInv, Types, KInv
<1>3. CASE run' = [run EXCEPT !.stage = "saved", !.at = "none"] /\ UNCHANGED job
  <2>1. run'.stage = "saved"
    BY <1>3 DEF WInv, Types, Runs
  <2>2. QED
    BY <1>1, <1>3, <2>1, GoesOn DEF Running
<1>4. QED
  BY <1>2, <1>3 DEF Save

\* The ends that say nothing of what is kept.
LEMMA QuietEnd ==
  ASSUME WInv, KInv, NEW charged \in JobSet, NEW state \in States \ {"running"},
         EndJob(charged, state, 0), kept' = kept
  PROVE  KInv' /\ ToldStep
<1>1. IsFiniteSet(kept') /\ kept' \subseteq KeptSet /\ Types
  BY DEF KInv, WInv, Types
<1>2. QED
  BY <1>1, EndKept

LEMMA FinishKept == ASSUME WInv, KInv, Finish PROVE KInv' /\ ToldStep
<1>1. EndJob(job, "done", 0) /\ kept' = kept /\ job \in JobSet /\ "done" \in States \ {"running"}
  BY DEF Finish, WInv, Types, States
<1>2. QED
  BY <1>1, QuietEnd

LEMMA StopKept == ASSUME WInv, KInv, Stop PROVE KInv' /\ ToldStep
<1>1. /\ EndJob(Charged(0), "cancelled", 0) /\ kept' = kept
      /\ Charged(0) \in JobSet /\ "cancelled" \in States \ {"running"}
  BY CountsTyped DEF Stop, store, WInv, States
<1>2. QED
  BY <1>1, QuietEnd

LEMMA PutBackKept == ASSUME WInv, KInv, NEW charged \in JobSet, PutBack(charged) PROVE KInv' /\ ToldStep
<1> DEFINE lost == charged.lost \/ run.at = "keep"
           back == [charged EXCEPT !.lost = lost]
<1>1. lost \in BOOLEAN
  OBVIOUS
<1>2. back \in JobSet
  <2> HIDE DEF lost
  <2>1. QED
    BY <1>1 DEF JobSet
<1>3. EndJob(back, "queued", 0) /\ "queued" \in States \ {"running"} /\ kept' = kept
  BY DEF PutBack, States, JobSet, store
<1>4. QED
  BY <1>2, <1>3, QuietEnd

LEMMA CloseKept == ASSUME WInv, KInv, Close \/ Crash PROVE KInv' /\ ToldStep
<1>1. Charged(0) \in JobSet /\ job \in JobSet
  BY CountsTyped DEF WInv, Types
<1>2. QED
  BY <1>1, PutBackKept DEF Close, Crash

LEMMA MaterialKept == ASSUME WInv, KInv, Edit \/ AskDelete \/ Delete PROVE KInv' /\ ToldStep
<1>1. job' = job /\ run' = run
  BY DEF Edit, AskDelete, Delete
<1>2. ToldStep
  BY <1>1 DEF ToldStep, Running
<1>3. Keeps' = Keeps /\ Running' = Running
  BY <1>1 DEF Keeps, Running
<1>4. CASE Edit \/ AskDelete
  <2>1. kept' = kept /\ material.at # "gone"
    BY <1>4 DEF Edit, AskDelete, store
  <2>2. QED
    BY <1>1, <1>2, <1>3, <2>1 DEF KInv, RunIsKept
<1>5. CASE Delete
  <2>1. kept' = {} /\ material'.at = "gone"
    BY <1>5 DEF Delete, WInv, Types
  <2>2. QED
    BY <1>1, <1>2, <1>3, <2>1, FS_EmptySet DEF KInv, RunIsKept
<1>6. QED
  BY <1>4, <1>5

LEMMA NextKInv == WInv /\ KInv /\ [Next]_runVars => KInv' /\ [ToldStep]_runVars
<1> SUFFICES ASSUME WInv, KInv, [Next]_runVars
             PROVE  KInv' /\ [ToldStep]_runVars
  OBVIOUS
<1>1. CASE UNCHANGED runVars
  BY <1>1 DEF runVars, store, wiki, KInv, RunIsKept, ChainOfRun, Keeps, Running
<1>2. CASE (\E c \in Choices : Add(c)) \/ Begin \/ Read
  BY <1>2, AddKept, BeginKept, ReadKept
<1>3. CASE Reuse \/ Look \/ Ask \/ (\E n \in 1 .. MaxItems : Item(n)) \/ Circles
  BY <1>3, ReuseKept, LookKept, AskKept, ItemKept, CirclesKept
<1>4. CASE (\E more \in BOOLEAN : Answered(more)) \/ Malformed \/ Breaks \/ Busy \/ Refused \/ Keep
           \/ NothingPasses
  BY <1>4, AnsweredKept, MalformedKept, BreaksKept, BusyKept, RefusedKept, KeepKept, NothingPassesKept
<1>5. CASE PlainAnswered \/ Save \/ Finish
  BY <1>5, PlainAnsweredKept, SaveKept, FinishKept
<1>6. CASE Stop \/ Close \/ Crash \/ Edit \/ AskDelete \/ Delete
  BY <1>6, StopKept, CloseKept, MaterialKept
<1>7. QED
  BY <1>1, <1>2, <1>3, <1>4, <1>5, <1>6 DEF Next

\* A job that ends with "n items are kept: Retry continues from them" has kept them in rows
\* that a next run of the same text finds (runner.py, _kept_note, _budget and _repeating).
THEOREM ToldItemsAreKept == Spec => ToldIsKept
<1>1. RunInit => KInv
  BY InitKInv
<1>2. WInv /\ KInv /\ [Next]_runVars => KInv' /\ [ToldStep]_runVars
  BY NextKInv
<1>3. QED
  BY <1>1, <1>2, WInvAlways, PTL DEF Spec, ToldIsKept, ToldStep

-----------------------------------------------------------------------------
(* Who starts over *)

\* A kept answer that is the one before it over again.
Again(k) ==
  k.after # <<>> /\ LET before == k.after[Len(k.after)]
                    IN  k.answer.items = before.items /\ k.answer.more = before.more

Agrees(some, taken) == \A i \in 1 .. Len(some) : taken[i] = some[i]

\* The row is of one of these answers, which asked for more and was new.
Leads(k, taken) ==
  /\ Len(k.after) < Len(taken) /\ Agrees(k.after, taken) /\ taken[Len(k.after) + 1] = k.answer
  /\ k.answer.more /\ ~Again(k)

Has(rows, op, n) == \E k \in rows : k.op = op /\ Len(k.after) = n

\* The rows of an operation are one line, without a gap and with no row beside it.
InLine(rows) ==
  /\ \A k \in rows : k.op \in 1 .. Len(Ops)
  /\ \A k1, k2 \in rows : k1.op = k2.op => /\ Len(k1.after) = Len(k2.after) => k1 = k2
                                           /\ Len(k1.after) < Len(k2.after) => Leads(k1, k2.after)
  /\ \A k \in rows : \A n \in 0 .. Len(k.after) : Has(rows, k.op, n)

\* The line of an operation is complete: its last answer asks for no more.
Ended(rows, op, drafts) ==
  /\ Has(rows, op, 0)
  /\ \A k \in rows : k.op = op => /\ k.answer \in drafts /\ ~Again(k)
                                  /\ k.answer.more => Has(rows, op, Len(k.after) + 1)

\* What a run has taken is the beginning of the line of its operation; the earlier
\* operations are complete.
OnWay(rows, r) ==
  /\ r.op \in 1 .. Len(Ops)
  /\ \A k \in rows : k.op = r.op => IF Len(k.after) < Len(r.taken) THEN Leads(k, r.taken)
                                                                   ELSE Agrees(r.taken, k.after)
  /\ \A n \in 0 .. Len(r.taken) - 1 : Has(rows, r.op, n)
  /\ \A i \in 1 .. Len(r.taken) : r.taken[i] \in r.drafts
  /\ r.at # "look" => \A k \in rows : k.op = r.op => Len(k.after) <= Len(r.taken)
  /\ \A op \in 1 .. r.op - 1 : Ended(rows, op, r.drafts)

\* Every operation is.
Complete(rows, drafts) == \A op \in 1 .. Len(Ops) : Ended(rows, op, drafts)

WayOfRun(rows, r) ==
  /\ r.stage = "write" => OnWay(rows, r)
  /\ r.stage \in {"match", "save", "saved"} => Complete(rows, r.drafts)

RunOnWay ==
  Keeps /\ material.at # "gone" /\ run.stage \in {"write", "match", "save", "saved"}
    => CanPut /\ WayOfRun(kept, run)

\* An answer that is checked is not the one before it over again.
KeepsNew == run.at = "keep" => ~Repeats(Answer(run.items, run.more))

\* What is kept of a material that was finished is all that its last run took, under the
\* choice of that run; a run that finds it there takes it again and asks for nothing.
FinishFits ==
  /\ kept # {} => row.by = done.by
  /\ kept # {} /\ done.by # Nobody => Complete(kept, done.answers)
  /\ Keeps /\ done.by # Nobody /\ run.stage = "write" => kept # {} /\ run.at = "look"
  /\ run.changed => row.by = Nobody
  /\ row.text = 0 => row.by = Nobody

LInv == InLine(kept) /\ RunOnWay /\ KeepsNew /\ FinishFits

LEMMA AppendHas ==
  ASSUME NEW S, NEW taken \in Seq(S), NEW answer \in S
  PROVE  /\ Append(taken, answer) \in Seq(S) /\ Len(Append(taken, answer)) = Len(taken) + 1
         /\ Agrees(taken, Append(taken, answer)) /\ Append(taken, answer)[Len(taken) + 1] = answer
         /\ Append(taken, answer) # <<>>
  BY DEF Agrees

LEMMA AgreeEqual ==
  ASSUME NEW S, NEW s \in Seq(S), NEW t \in Seq(S), Len(s) = Len(t), Agrees(s, t)
  PROVE  s = t
  BY SeqEqual DEF Agrees

LEMMA RowTyped ==
  ASSUME NEW rows \in SUBSET KeptSet, NEW k \in rows
  PROVE  /\ k.op \in Nat /\ k.after \in Seq(AnswerSet) /\ Len(k.after) \in Nat
         /\ k.answer \in AnswerSet /\ k.answer.more \in BOOLEAN
<1>1. k \in KeptSet
  OBVIOUS
<1>2. /\ k.op \in Nat /\ k.after \in Seq(AnswerSet) /\ k.answer \in AnswerSet
  BY <1>1 DEF KeptSet
<1>3. k.answer.more \in BOOLEAN
  BY <1>2 DEF AnswerSet
<1>4. QED
  BY <1>2, <1>3

\* What an operation has in the rows is all that counts for its end.
LEMMA EndedStays ==
  ASSUME NEW rows, NEW now, NEW op, NEW drafts, NEW more, drafts \subseteq more, Ended(rows, op, drafts),
         \A k \in rows : k.op = op => k \in now, \A k \in now : k.op = op => k \in rows
  PROVE  Ended(now, op, more)
  BY DEF Ended, Has

\* A row at the end of the line, or in place of the last one.
LEMMA LineGrows ==
  ASSUME NEW rows \in SUBSET KeptSet, InLine(rows), NEW taken \in Seq(AnswerSet), NEW op \in 1 .. Len(Ops),
         \A k \in rows : k.op = op => /\ Len(k.after) <= Len(taken)
                                      /\ Len(k.after) < Len(taken) => Leads(k, taken)
                                      /\ Len(k.after) = Len(taken) => k.after = taken,
         \A n \in 0 .. Len(taken) - 1 : Has(rows, op, n),
         NEW new \in KeptSet, new.op = op, new.after = taken,
         NEW now, now = {k \in rows : <<k.op, k.after>> # <<op, taken>>} \cup {new}
  PROVE  InLine(now)
<1>1. \A k \in now : k.op \in 1 .. Len(Ops)
  BY DEF InLine
<1>2. \A k \in now : (k \in rows /\ (k.op = op => Len(k.after) < Len(taken))) \/ k = new
  <2> SUFFICES ASSUME NEW k \in rows, k.op = op, k.after # taken
               PROVE  Len(k.after) < Len(taken)
    OBVIOUS
  <2>1. Len(k.after) \in Nat /\ Len(taken) \in Nat
    BY RowTyped
  <2>2. QED
    BY <2>1
<1>3. ASSUME NEW k1 \in now, NEW k2 \in now, k1.op = k2.op
      PROVE  /\ Len(k1.after) = Len(k2.after) => k1 = k2
             /\ Len(k1.after) < Len(k2.after) => Leads(k1, k2.after)
  <2>1. CASE k1 = new
    BY <1>2, <1>3, <2>1, RowTyped
  <2>2. CASE k1 # new /\ k2 = new
    <3>1. k1 \in rows /\ k1.op = op /\ Len(k1.after) < Len(taken) /\ Len(k1.after) \in Nat /\ Len(taken) \in Nat
      BY <1>2, <1>3, <2>2, RowTyped
    <3>2. QED
      BY <2>2, <3>1
  <2>3. CASE k1 # new /\ k2 # new
    BY <1>2, <1>3, <2>3 DEF InLine
  <2>4. QED
    BY <2>1, <2>2, <2>3
<1>4. ASSUME NEW k \in now, NEW n \in 0 .. Len(k.after)
      PROVE  Has(now, k.op, n)
  <2>1. CASE k = new /\ n = Len(taken)
    BY <2>1 DEF Has
  <2>2. CASE k = new /\ n # Len(taken)
    <3>1. n \in 0 .. Len(taken) - 1
      BY <2>2
    <3>2. PICK p \in rows : p.op = op /\ Len(p.after) = n
      BY <3>1 DEF Has
    <3>3. p \in now
      BY <2>2, <3>2
    <3>4. QED
      BY <2>2, <3>2, <3>3 DEF Has
  <2>3. CASE k # new
    <3>1. k \in rows /\ (k.op = op => Len(k.after) < Len(taken)) /\ Len(k.after) \in Nat /\ Len(taken) \in Nat
      BY <1>2, <2>3, RowTyped
    <3>2. PICK p \in rows : p.op = k.op /\ Len(p.after) = n
      BY <3>1 DEF InLine, Has
    <3>3. p \in now
      BY <3>1, <3>2
    <3>4. QED
      BY <3>2, <3>3 DEF Has
  <2>4. QED
    BY <2>1, <2>2, <2>3
<1>5. QED
  BY <1>1, <1>3, <1>4 DEF InLine

\* The last row of a line is gone.
LEMMA LineShrinks ==
  ASSUME NEW rows \in SUBSET KeptSet, InLine(rows), NEW taken \in Seq(AnswerSet), NEW op,
         \A k \in rows : k.op = op => Len(k.after) <= Len(taken),
         NEW now, now = {k \in rows : <<k.op, k.after>> # <<op, taken>>}
  PROVE  InLine(now)
<1>1. ASSUME NEW k \in now, NEW n \in 0 .. Len(k.after)
      PROVE  Has(now, k.op, n)
  <2>1. k \in rows /\ Len(k.after) \in Nat /\ Len(taken) \in Nat
    BY RowTyped
  <2>2. PICK p \in rows : p.op = k.op /\ Len(p.after) = n
    BY <2>1 DEF InLine, Has
  <2>3. CASE <<p.op, p.after>> # <<op, taken>>
    BY <2>2, <2>3 DEF Has
  <2>4. CASE p.op = op /\ p.after = taken
    <3>1. Len(k.after) = Len(p.after)
      <4>1. Len(k.after) <= Len(taken)
        BY <2>1, <2>2, <2>4
      <4>2. Len(p.after) = n /\ Len(p.after) = Len(taken) /\ n \in 0 .. Len(k.after)
        BY <2>2, <2>4
      <4>3. QED
        BY <2>1, <4>1, <4>2
    <3>2. k = p
      BY <2>1, <2>2, <3>1 DEF InLine
    <3>3. QED
      BY <2>4, <3>2
  <2>5. QED
    BY <2>3, <2>4
<1>2. QED
  BY <1>1 DEF InLine

\* An answer that is taken from its row, and the operation goes on.
LEMMA LineGoesOn ==
  ASSUME Types, NEW rows \in SUBSET KeptSet, InLine(rows), OnWay(rows, run),
         NEW k \in rows, k.op = run.op, k.after = run.taken, ~Again(k), k.answer.more,
         NEW x \in rows, x.op = run.op
  PROVE  IF Len(x.after) < Len(run.taken) + 1 THEN Leads(x, Append(run.taken, k.answer))
                                              ELSE Agrees(Append(run.taken, k.answer), x.after)
<1> DEFINE more == Append(run.taken, k.answer)
<1>1. /\ run.taken \in Seq(AnswerSet) /\ Len(run.taken) \in Nat /\ Len(x.after) \in Nat
      /\ k.answer \in AnswerSet
  BY RowTyped DEF Types, Runs
<1>2. /\ Len(more) = Len(run.taken) + 1
      /\ Agrees(run.taken, more) /\ more[Len(run.taken) + 1] = k.answer
  BY <1>1, AppendHas
<1> HIDE DEF more
<1>3. CASE Len(x.after) < Len(run.taken)
  <2>1. Leads(x, run.taken)
    BY <1>3 DEF OnWay
  <2>2. Leads(x, more)
    BY <1>1, <1>2, <1>3, <2>1 DEF Leads, Agrees
  <2>3. QED
    BY <1>1, <1>3, <2>2 DEF more
<1>4. CASE Len(x.after) = Len(run.taken)
  <2>1. x = k
    BY <1>4 DEF InLine
  <2>2. Leads(x, more)
    BY <1>1, <1>2, <2>1 DEF Leads
  <2>3. QED
    BY <1>1, <1>4, <2>2 DEF more
<1>5. CASE Len(x.after) > Len(run.taken)
  <2>1. Agrees(run.taken, x.after) /\ Leads(k, x.after)
    BY <1>1, <1>5 DEF OnWay, InLine
  <2>2. Agrees(more, x.after)
    BY <1>1, <1>2, <2>1 DEF Leads, Agrees
  <2>3. QED
    BY <1>1, <1>5, <2>2 DEF more
<1>6. QED
  BY <1>1, <1>3, <1>4, <1>5

\* An answer that asks for no more completes its operation.
LEMMA LineEnds ==
  ASSUME Types, NEW rows \in SUBSET KeptSet, InLine(rows), OnWay(rows, run),
         NEW k \in rows, k.op = run.op, k.after = run.taken, ~Again(k), ~k.answer.more
  PROVE  Ended(rows, run.op, run.drafts \cup {k.answer})
<1>1. run.taken \in Seq(AnswerSet) /\ Len(run.taken) \in Nat
  BY DEF Types, Runs
<1>2. Has(rows, run.op, 0)
  <2>1. 0 \in 0 .. Len(k.after)
    BY <1>1
  <2>2. QED
    BY <2>1 DEF InLine
<1>3. ASSUME NEW x \in rows, x.op = run.op
      PROVE  /\ x.answer \in run.drafts \cup {k.answer} /\ ~Again(x)
             /\ x.answer.more => Has(rows, run.op, Len(x.after) + 1)
  <2>1. Len(x.after) \in Nat
    BY RowTyped
  <2>2. CASE Len(x.after) < Len(run.taken)
    <3>1. Leads(x, run.taken)
      BY <1>3, <2>2 DEF OnWay
    <3>2. Len(x.after) + 1 \in 1 .. Len(run.taken)
      BY <1>1, <2>1, <2>2
    <3>3. x.answer \in run.drafts /\ ~Again(x)
      BY <3>1, <3>2 DEF OnWay, Leads
    <3>4. Has(rows, run.op, Len(x.after) + 1)
      <4>1. CASE Len(x.after) + 1 = Len(run.taken)
        BY <4>1 DEF Has
      <4>2. CASE Len(x.after) + 1 # Len(run.taken)
        <5>1. Len(x.after) + 1 \in 0 .. Len(run.taken) - 1
          BY <1>1, <2>1, <2>2, <4>2
        <5>2. QED
          BY <5>1 DEF OnWay
      <4>3. QED
        BY <4>1, <4>2
    <3>5. QED
      BY <3>3, <3>4
  <2>3. CASE Len(x.after) = Len(run.taken)
    <3>1. x = k
      BY <1>3, <2>3 DEF InLine
    <3>2. QED
      BY <3>1
  <2>4. CASE Len(x.after) > Len(run.taken)
    <3>1. Leads(k, x.after)
      BY <1>1, <1>3, <2>1, <2>4 DEF InLine
    <3>2. QED
      BY <3>1 DEF Leads
  <2>5. QED
    BY <1>1, <2>1, <2>2, <2>3, <2>4
<1>4. QED
  BY <1>2, <1>3 DEF Ended

LEMMA TookWay ==
  ASSUME Types, RunFits, run.stage = "write", NEW rows \in SUBSET KeptSet, InLine(rows), OnWay(rows, run),
         NEW k \in rows, k.op = run.op, k.after = run.taken, ~Again(k), NEW count \in Nat, NEW calls \in Nat
  PROVE  WayOfRun(rows, Took(k.answer, count, calls))
<1> DEFINE answer == k.answer
           more == Append(run.taken, answer)
           drafts == run.drafts \cup {answer}
           r == [run EXCEPT !.taken = Append(@, answer), !.drafts = @ \cup {answer}, !.at = "look",
                            !.items = <<>>, !.saved = 0, !.attempt = 1, !.answers = @ + count]
<1>1. /\ run \in Runs /\ run.taken \in Seq(AnswerSet) /\ run.drafts \subseteq AnswerSet
      /\ run.answers + count \in Nat /\ Len(run.taken) \in Nat /\ run.op \in 1 .. Len(Ops)
  <2>1. run \in Runs /\ run.taken \in Seq(AnswerSet) /\ run.drafts \subseteq AnswerSet /\ run.answers \in Nat
    BY DEF Types, Runs
  <2>2. QED
    BY <2>1 DEF OnWay
<1>2. answer \in AnswerSet
  BY RowTyped
<1>3. /\ more \in Seq(AnswerSet) /\ Len(more) = Len(run.taken) + 1
      /\ Agrees(run.taken, more) /\ more[Len(run.taken) + 1] = answer
  BY <1>1, <1>2, AppendHas
<1>4. \A op \in 1 .. run.op - 1 : Ended(rows, op, drafts)
  <2> SUFFICES ASSUME NEW op \in 1 .. run.op - 1
               PROVE  Ended(rows, op, drafts)
    OBVIOUS
  <2>1. Ended(rows, op, run.drafts) /\ run.drafts \subseteq drafts
    BY DEF OnWay
  <2>2. QED
    BY <2>1, EndedStays
<1>5. /\ r \in Runs /\ r.stage = "write" /\ r.at = "look" /\ r.op = run.op
      /\ r.taken = more /\ r.drafts = drafts
  <2>1. drafts \subseteq AnswerSet /\ <<>> \in Seq(Nat)
    BY <1>1, <1>2
  <2> HIDE DEF more, drafts, answer
  <2>2. r = [run EXCEPT !.taken = more, !.drafts = drafts, !.at = "look",
                        !.items = <<>>, !.saved = 0, !.attempt = 1, !.answers = @ + count]
    BY <1>1 DEF more, drafts
  <2> HIDE DEF r
  <2>3. r \in Runs
    BY <1>1, <1>3, <2>1, <2>2 DEF Runs
  <2>4. QED
    BY <1>1, <2>2, <2>3 DEF Runs
<1>6. CASE answer.more
  <2>1. Took(answer, count, calls) = r
    BY <1>6 DEF Took
  <2>2. \A x \in rows : x.op = run.op =>
          IF Len(x.after) < Len(more) THEN Leads(x, more) ELSE Agrees(more, x.after)
    BY <1>3, <1>6, LineGoesOn
  <2>3. \A n \in 0 .. Len(more) - 1 : Has(rows, run.op, n)
    <3> SUFFICES ASSUME NEW n \in 0 .. Len(more) - 1, n \notin 0 .. Len(run.taken) - 1
                 PROVE  Has(rows, run.op, n)
      BY DEF OnWay
    <3>1. n = Len(run.taken)
      BY <1>1, <1>3
    <3>2. QED
      BY <3>1 DEF Has
  <2>4. \A i \in 1 .. Len(more) : more[i] \in drafts
    <3> SUFFICES ASSUME NEW i \in 1 .. Len(more)
                 PROVE  more[i] \in drafts
      OBVIOUS
    <3>1. CASE i = Len(run.taken) + 1
      BY <1>3, <3>1
    <3>2. CASE i # Len(run.taken) + 1
      <4>1. i \in 1 .. Len(run.taken)
        BY <1>1, <1>3, <3>2
      <4>2. more[i] = run.taken[i] /\ run.taken[i] \in run.drafts
        BY <1>3, <4>1 DEF Agrees, OnWay
      <4>3. QED
        BY <4>2
    <3>3. QED
      BY <3>1, <3>2
  <2>5. OnWay(rows, r)
    <3> HIDE DEF r, more, drafts, answer
    <3>1. QED
      BY <1>1, <1>4, <1>5, <2>2, <2>3, <2>4 DEF OnWay
  <2>6. QED
    <3> HIDE DEF r
    <3>1. QED
      BY <1>5, <2>1, <2>5 DEF WayOfRun, answer
<1>7. CASE ~answer.more
  <2>1. Took(answer, count, calls) = Onward(r, calls)
    BY <1>7 DEF Took
  <2>2. \A op \in 1 .. run.op : Ended(rows, op, drafts)
    <3> SUFFICES ASSUME NEW op \in 1 .. run.op
                 PROVE  Ended(rows, op, drafts)
      OBVIOUS
    <3>1. CASE op = run.op
      BY <1>7, <3>1, LineEnds
    <3>2. CASE op # run.op
      <4>1. op \in 1 .. run.op - 1
        BY <1>1, <3>2
      <4>2. QED
        BY <1>4, <4>1
    <3>3. QED
      BY <3>1, <3>2
  <2> HIDE DEF r, drafts, answer, more
  <2>3. CASE r.op < Len(Ops)
    <3> DEFINE next == Step(r, r.op + 1)
    <3>1. Onward(r, calls) = next
      BY <2>3 DEF Onward
    <3>2. r.op + 1 \in 1 .. Len(Ops) /\ r.op + 1 - 1 = run.op
      BY <1>1, <1>5, <2>3, OpsListed
    <3>3. next.stage = "write" /\ next.at = "look" /\ next.drafts = drafts
      <4>1. r.op + 1 \in Nat
        BY <3>2
      <4>2. QED
        BY <1>5, <4>1, StepFits
    <3>4. next.op = r.op + 1 /\ next.taken = <<>>
      BY <1>5 DEF Step, Runs
    <3> HIDE DEF next
    <3>5. OnWay(rows, next)
      <4>1. \A x \in rows : Len(x.after) \in Nat
        BY RowTyped
      <4>2. Len(next.taken) = 0 /\ \A s : Agrees(next.taken, s)
        BY <3>4 DEF Agrees
      <4>3. next.op \in 1 .. Len(Ops) /\ next.op - 1 = run.op
        BY <1>1, <1>5, <3>2, <3>4
      <4>4. \A x \in rows : ~(Len(x.after) < Len(next.taken))
        BY <4>1, <4>2
      <4>5. 0 .. Len(next.taken) - 1 = {} /\ 1 .. Len(next.taken) = {}
        BY <4>2
      <4>6. QED
        BY <2>2, <3>3, <4>2, <4>3, <4>4, <4>5 DEF OnWay
    <3>6. QED
      BY <2>1, <3>1, <3>3, <3>5 DEF WayOfRun, answer
  <2>4. CASE ~(r.op < Len(Ops))
    <3> DEFINE stage == IF calls = 0 THEN "save" ELSE "match"
               last == [r EXCEPT !.stage = stage, !.at = "ask", !.left = calls]
    <3>1. Onward(r, calls) = last
      BY <2>4 DEF Onward
    <3>2. stage \in {"save", "match"}
      OBVIOUS
    <3> HIDE DEF stage
    <3>3. last.stage = stage /\ last.drafts = drafts
      BY <1>5 DEF Runs
    <3>4. run.op = Len(Ops)
      BY <1>1, <1>5, <2>4, OpsListed
    <3> HIDE DEF last
    <3>5. QED
      BY <2>1, <2>2, <3>1, <3>2, <3>3, <3>4 DEF WayOfRun, Complete, answer
  <2>5. QED
    BY <2>3, <2>4
<1>8. QED
  BY <1>6, <1>7

LEMMA TookLooks ==
  ASSUME Types, NEW answer \in AnswerSet, NEW count \in Nat, NEW calls \in Nat
  PROVE  LET took == Took(answer, count, calls)
         IN  /\ took.stage = "write" => took.at = "look"
             /\ took.at # "keep" /\ took.changed = run.changed
<1> DEFINE r == [run EXCEPT !.taken = Append(@, answer), !.drafts = @ \cup {answer}, !.at = "look",
                            !.items = <<>>, !.saved = 0, !.attempt = 1, !.answers = @ + count]
           stage == IF calls = 0 THEN "save" ELSE "match"
           last == [r EXCEPT !.stage = stage, !.at = "ask", !.left = calls]
           next == Step(r, r.op + 1)
<1>1. r.at = "look" /\ r.changed = run.changed
  BY DEF Types, Runs
<1>2. next.at = "look" /\ next.changed = run.changed
  BY <1>1 DEF Types, Runs, Step
<1>3. last.at = "ask" /\ last.changed = run.changed /\ last.stage # "write"
  BY <1>1 DEF Types, Runs
<1>4. Took(answer, count, calls) \in {r, next, last}
  BY DEF Took, Onward
<1> HIDE DEF r, next, last
<1>5. QED
  BY <1>1, <1>2, <1>3, <1>4

\* The run is over, and its rows are as they were, or gone.
LEMMA EndLine ==
  ASSUME LInv, run' = NoRun, row' = row, done' = done, kept' = kept \/ kept' = {}
  PROVE  LInv'
<1>1. run'.stage = "none" /\ run'.at = "none" /\ run'.changed = FALSE
  BY DEF NoRun
<1>2. InLine(kept')
  BY DEF LInv, InLine
<1>3. RunOnWay' /\ KeepsNew'
  BY <1>1 DEF RunOnWay, KeepsNew
<1>4. FinishFits'
  BY <1>1 DEF LInv, FinishFits
<1>5. QED
  BY <1>2, <1>3, <1>4 DEF LInv

\* The run is over, and the row of its step is gone.
LEMMA DropLine ==
  ASSUME WInv, LInv, Keeps, run.stage = "write", Discard, run' = NoRun, done' = done,
         run.at # "look" \/ \E k \in kept : k.op = run.op /\ k.after = run.taken /\ Again(k)
  PROVE  LInv'
<1>1. run'.stage = "none" /\ run'.at = "none" /\ run'.changed = FALSE
  BY DEF NoRun
<1>2. kept' = {k \in kept : <<k.op, k.after>> # <<run.op, run.taken>>} /\ row' = row
  BY DEF Discard
<1>3. /\ kept \in SUBSET KeptSet /\ run.taken \in Seq(AnswerSet) /\ Len(run.taken) \in Nat
      /\ InLine(kept)
  BY DEF WInv, Types, Runs, LInv
<1>4. CASE material.at = "gone"
  <2>1. kept' = kept
    BY <1>2, <1>4 DEF WInv, GoneIsGone
  <2>2. QED
    BY <1>2, <2>1, EndLine
<1>5. CASE material.at # "gone"
  <2>1. OnWay(kept, run)
    BY <1>5 DEF LInv, RunOnWay, WayOfRun
  <2>2. \A k \in kept : k.op = run.op => Len(k.after) <= Len(run.taken)
    <3>1. CASE run.at # "look"
      BY <2>1, <3>1 DEF OnWay
    <3>2. CASE \E k \in kept : k.op = run.op /\ k.after = run.taken /\ Again(k)
      <4>1. PICK k \in kept : k.op = run.op /\ k.after = run.taken /\ Again(k)
        BY <3>2
      <4>2. ASSUME NEW x \in kept, x.op = run.op, Len(run.taken) < Len(x.after)
            PROVE  FALSE
        <5>1. Leads(k, x.after)
          BY <1>3, <4>1, <4>2 DEF InLine
        <5>2. QED
          BY <4>1, <5>1 DEF Leads
      <4>3. \A x \in kept : Len(x.after) \in Nat
        BY <1>3, RowTyped
      <4>4. QED
        BY <1>3, <4>2, <4>3
    <3>3. QED
      BY <3>1, <3>2
  <2>3. InLine(kept')
    BY <1>2, <1>3, <2>2, LineShrinks
  <2>4. RunOnWay' /\ KeepsNew'
    BY <1>1 DEF RunOnWay, KeepsNew
  <2>5. kept # {} => done.by = Nobody
    <3>1. CASE run.at # "look"
      BY <3>1 DEF LInv, FinishFits
    <3>2. CASE \E k \in kept : k.op = run.op /\ k.after = run.taken /\ Again(k)
      BY <1>3, <3>2 DEF LInv, FinishFits, Complete, Ended, InLine
    <3>3. QED
      BY <3>1, <3>2
  <2>6. FinishFits'
    BY <1>1, <1>2, <2>5 DEF LInv, FinishFits
  <2>7. QED
    BY <2>3, <2>4, <2>6 DEF LInv
<1>6. QED
  BY <1>4, <1>5

\* The run is at the same step, or has left the writing for good.
LEMMA SameLine ==
  ASSUME LInv, kept' = kept, row' = row, done' = done, job'.choice = job.choice,
         material'.at # "gone" => material.at # "gone",
         run'.stage = "write" => /\ run.stage = "write" /\ run'.op = run.op /\ run'.taken = run.taken
                                 /\ run.at = "look" => run'.at = "look",
         run'.stage \in {"match", "save", "saved"} => run.stage \in {"match", "save", "saved"},
         run'.stage \in {"write", "match", "save", "saved"} => run'.drafts = run.drafts /\ run'.text = run.text,
         run'.changed => run.changed, KeepsNew'
  PROVE  LInv'
<1>1. Keeps' = Keeps
  BY DEF Keeps
<1>2. CASE run'.stage = "write"
  <2>1. Keeps /\ material'.at # "gone" => CanPut /\ OnWay(kept, run)
    BY <1>2 DEF LInv, RunOnWay, WayOfRun
  <2>2. OnWay(kept, run) => OnWay(kept', run')
    BY <1>2 DEF OnWay
  <2>3. RunOnWay'
    BY <1>1, <1>2, <2>1, <2>2 DEF RunOnWay, WayOfRun, CanPut
  <2>4. FinishFits'
    BY <1>1, <1>2 DEF LInv, FinishFits
  <2>5. QED
    BY <2>3, <2>4 DEF LInv
<1>3. CASE run'.stage # "write"
  <2>1. RunOnWay'
    BY <1>1, <1>3 DEF LInv, RunOnWay, WayOfRun, CanPut
  <2>2. FinishFits'
    BY <1>3 DEF LInv, FinishFits
  <2>3. QED
    BY <2>1, <2>2 DEF LInv
<1>4. QED
  BY <1>2, <1>3

\* An answer is put at the end of the line.
LEMMA PutLine ==
  ASSUME WInv, LInv, Keeps, CanPut, run.stage = "write", run.at # "look",
         NEW answer \in AnswerSet, Put(answer)
  PROVE  /\ kept' \in SUBSET KeptSet /\ InLine(kept') /\ OnWay(kept', run)
         /\ Kept(answer) \in kept' /\ Kept(answer).op = run.op /\ Kept(answer).after = run.taken
         /\ Kept(answer).answer = answer
         /\ done.by = Nobody /\ row'.by = Nobody /\ row'.text = row.text /\ row.text # 0
         /\ material.at # "gone"
<1>1. run.text # 0 /\ material.at # "gone"
  BY DEF WInv, RunFits, GoneIsGone, NoRow, CanPut
<1>2. /\ kept \in SUBSET KeptSet /\ run.taken \in Seq(AnswerSet) /\ Len(run.taken) \in Nat /\ run.op \in Nat
      /\ InLine(kept) /\ OnWay(kept, run)
  BY <1>1 DEF WInv, Types, Runs, LInv, RunOnWay, WayOfRun
<1>3. /\ Kept(answer) \in KeptSet /\ Kept(answer).op = run.op /\ Kept(answer).after = run.taken
      /\ Kept(answer).answer = answer
  BY <1>2 DEF Kept, KeptSet
<1>4. kept' = {k \in kept : <<k.op, k.after>> # <<run.op, run.taken>>} \cup {Kept(answer)}
  BY DEF Put
<1>5. kept' \in SUBSET KeptSet
  BY <1>2, <1>3, <1>4
<1>6. \A k \in kept : k.op = run.op => /\ Len(k.after) <= Len(run.taken)
                                       /\ Len(k.after) < Len(run.taken) => Leads(k, run.taken)
                                       /\ Len(k.after) = Len(run.taken) => k.after = run.taken
  <2> SUFFICES ASSUME NEW k \in kept, k.op = run.op
               PROVE  /\ Len(k.after) <= Len(run.taken)
                      /\ Len(k.after) < Len(run.taken) => Leads(k, run.taken)
                      /\ Len(k.after) = Len(run.taken) => k.after = run.taken
    OBVIOUS
  <2>1. Len(k.after) \in Nat /\ k.after \in Seq(AnswerSet)
    BY <1>2, RowTyped
  <2>2. Len(k.after) <= Len(run.taken) /\ (Len(k.after) < Len(run.taken) => Leads(k, run.taken))
    BY <1>2 DEF OnWay
  <2>3. ASSUME Len(k.after) = Len(run.taken)
        PROVE  k.after = run.taken
    <3>1. Agrees(run.taken, k.after)
      BY <1>2, <2>1, <2>3 DEF OnWay
    <3>2. QED
      BY <1>2, <2>1, <2>3, <3>1, AgreeEqual
  <2>4. QED
    BY <2>2, <2>3
<1>7. InLine(kept')
  <2>1. run.op \in 1 .. Len(Ops) /\ \A n \in 0 .. Len(run.taken) - 1 : Has(kept, run.op, n)
    BY <1>2 DEF OnWay
  <2>2. QED
    BY <1>2, <1>3, <1>4, <1>6, <2>1, LineGrows
<1>8. OnWay(kept', run)
  <2>1. \A k \in kept' : k # Kept(answer) => k \in kept /\ (k.op = run.op => k.after # run.taken)
    <3> SUFFICES ASSUME NEW k \in kept', k # Kept(answer)
                 PROVE  k \in kept /\ (k.op = run.op => k.after # run.taken)
      OBVIOUS
    <3>1. k \in kept /\ <<k.op, k.after>> # <<run.op, run.taken>>
      BY <1>4
    <3>2. QED
      BY <3>1
  <2>2. \A k \in kept' : k.op = run.op => IF Len(k.after) < Len(run.taken) THEN Leads(k, run.taken)
                                                                           ELSE Agrees(run.taken, k.after)
    <3> SUFFICES ASSUME NEW k \in kept', k.op = run.op
                 PROVE  IF Len(k.after) < Len(run.taken) THEN Leads(k, run.taken) ELSE Agrees(run.taken, k.after)
      OBVIOUS
    <3>1. CASE k = Kept(answer)
      BY <1>2, <1>3, <3>1 DEF Agrees
    <3>2. CASE k # Kept(answer)
      BY <1>2, <2>1, <3>2 DEF OnWay
    <3>3. QED
      BY <3>1, <3>2
  <2>3. \A k \in kept' : k.op = run.op => Len(k.after) <= Len(run.taken)
    BY <1>2, <1>3, <1>6, <2>1
  <2>4. \A n \in 0 .. Len(run.taken) - 1 : Has(kept', run.op, n)
    <3> SUFFICES ASSUME NEW n \in 0 .. Len(run.taken) - 1
                 PROVE  Has(kept', run.op, n)
      OBVIOUS
    <3>1. PICK k \in kept : k.op = run.op /\ Len(k.after) = n
      BY <1>2 DEF OnWay, Has
    <3>2. k.after # run.taken
      BY <1>2, <3>1
    <3>3. k \in kept'
      BY <1>4, <3>2
    <3>4. QED
      BY <3>1, <3>3 DEF Has
  <2>5. \A op \in 1 .. run.op - 1 : Ended(kept', op, run.drafts)
    <3> SUFFICES ASSUME NEW op \in 1 .. run.op - 1
                 PROVE  Ended(kept', op, run.drafts)
      OBVIOUS
    <3>1. op # run.op /\ Ended(kept, op, run.drafts)
      BY <1>2 DEF OnWay
    <3>2. \A k \in kept : k.op = op => k \in kept'
      BY <1>4, <3>1
    <3>3. \A k \in kept' : k.op = op => k \in kept
      BY <1>3, <2>1, <3>1
    <3>4. QED
      BY <3>1, <3>2, <3>3, EndedStays
  <2>6. run.op \in 1 .. Len(Ops) /\ \A i \in 1 .. Len(run.taken) : run.taken[i] \in run.drafts
    BY <1>2 DEF OnWay
  <2>7. QED
    BY <2>2, <2>3, <2>4, <2>5, <2>6 DEF OnWay
<1>9. done.by = Nobody
  BY DEF LInv, FinishFits
<1>10. row'.by = Nobody /\ row'.text = row.text /\ row.text # 0
  BY <1>1 DEF Put, CanPut, LInv, FinishFits, WInv, Types
<1>11. QED
  BY <1>1, <1>3, <1>4, <1>5, <1>7, <1>8, <1>9, <1>10

LEMMA InitLInv == RunInit => LInv
  BY DEF RunInit, LInv, InLine, RunOnWay, KeepsNew, FinishFits, NoRun, NoRow, NotDone

LEMMA AddLine == ASSUME KInv, LInv, NEW c \in Choices, Add(c) PROVE LInv'
<1>1. ~Running /\ run = NoRun /\ run' = NoRun
  BY DEF Add, Pending, Running, KInv
<1>2. row' = row /\ done' = done /\ kept' = kept
  BY DEF Add, store, wiki
<1>3. QED
  BY <1>1, <1>2, EndLine

LEMMA FailLine == ASSUME LInv, NEW told, Fail(told), UNCHANGED <<store, wiki>> PROVE LInv'
  BY EndLine DEF Fail, EndJob, store, wiki

LEMMA BeginLine == ASSUME WInv, KInv, LInv, Begin PROVE LInv'
<1>1. row' = row /\ done' = done /\ kept' = kept /\ material' = material
  BY DEF Begin, store, wiki
<1>2. CASE material.at = "gone"
  BY <1>1, <1>2, EndLine DEF Begin, EndJob
<1>3. CASE material.at # "gone"
  <2>1. job' = [job EXCEPT !.state = "running"]
    BY <1>3 DEF Begin
  <2>2. job'.choice = job.choice
    BY <2>1 DEF WInv, Types, JobSet
  <2>3. run'.stage \in {"check", "read"} /\ run'.at \in {"none", "ask"} /\ run'.changed = FALSE
    BY <1>3 DEF Begin, NoRun
  <2>4. KeepsNew'
    BY <2>3 DEF KeepsNew
  <2>5. QED
    BY <1>1, <2>2, <2>3, <2>4, SameLine
<1>4. QED
  BY <1>2, <1>3

LEMMA ReadLine == ASSUME WInv, LInv, Read PROVE LInv'
<1>1. CASE material.at = "gone"
  BY <1>1, FailLine DEF Read, store, wiki
<1>2. CASE material.at # "gone"
  <2> DEFINE now == Prepared(material.text, job.choice)
             read == [run EXCEPT !.text = material.text]
  <2>1. read \in Runs /\ read.text = material.text /\ read.changed = run.changed
    BY DEF WInv, Types, Runs
  <2>2. run' = Step(read, 1) /\ material' = material
    BY <1>2 DEF Read
  <2>3. /\ run'.stage = "write" /\ run'.at = "look" /\ run'.text = material.text
    BY <2>1, <2>2, StepFits
  <2>4. run'.op = 1 /\ run'.taken = <<>> /\ run'.changed = run.changed
    <3> HIDE DEF read
    <3>1. QED
      BY <2>1, <2>2 DEF Step, Runs
  <2>5. KeepsNew'
    BY <2>3 DEF KeepsNew
  <2>6. job'.choice = job.choice
    BY <1>2 DEF Read, WInv, Types, JobSet
  <2>7. Keeps' = Keeps
    BY <2>6 DEF Keeps
  <2>8. CASE Keeps
    <3>1. row' = now.row /\ kept' = now.kept /\ done' = IF now.kept = {} THEN NotDone ELSE done
      BY <1>2, <2>8 DEF Read
    <3>2. row \in [text : Nat, by : By]
      BY DEF WInv, Types
    <3>3. /\ row'.text = material.text /\ row'.by \in {Nobody, row.by}
          /\ kept' = {} \/ (kept' = kept /\ row'.by = row.by)
      <4>1. CASE row.text \notin {0, material.text}
        <5>1. now = [row |-> [text |-> material.text, by |-> Nobody], kept |-> {}]
          BY <4>1 DEF Prepared
        <5>2. QED
          BY <3>1, <5>1
      <4>2. CASE row.text \in {0, material.text} /\ row.by \notin {Nobody, job.choice}
        <5>1. row.text = material.text
          BY <4>2 DEF LInv, FinishFits
        <5>2. now = [row |-> [row EXCEPT !.by = Nobody], kept |-> {}]
          BY <4>2 DEF Prepared
        <5>3. row'.text = row.text /\ row'.by = Nobody /\ kept' = {}
          BY <3>1, <3>2, <5>2
        <5>4. QED
          BY <5>1, <5>3
      <4>3. CASE row.text \in {0, material.text} /\ row.by \in {Nobody, job.choice}
        BY <3>1, <3>2, <4>3 DEF Prepared
      <4>4. QED
        BY <4>1, <4>2, <4>3
    <3>4. kept' = {} => done'.by = Nobody
      BY <3>1 DEF NotDone
    <3>5. kept' # {} => kept' = kept /\ row'.by = row.by /\ done' = done
      BY <3>1, <3>3
    <3>6. InLine(kept')
      BY <3>3 DEF LInv, InLine
    <3>7. OnWay(kept', run')
      <4>1. run'.op \in 1 .. Len(Ops) /\ run'.op - 1 = 0 /\ Len(run'.taken) = 0
        BY <2>4, OpsListed
      <4>2. kept' \in SUBSET KeptSet
        BY <3>3 DEF WInv, Types
      <4>3. \A x \in kept' : ~(Len(x.after) < Len(run'.taken))
        BY <4>1, <4>2, RowTyped
      <4>4. \A s : Agrees(run'.taken, s)
        BY <4>1 DEF Agrees
      <4>5. 0 .. Len(run'.taken) - 1 = {} /\ 1 .. Len(run'.taken) = {} /\ 1 .. run'.op - 1 = {}
        BY <4>1
      <4>6. QED
        BY <2>3, <4>1, <4>3, <4>4, <4>5 DEF OnWay
    <3>8. RunOnWay'
      BY <2>3, <3>3, <3>7 DEF RunOnWay, WayOfRun, CanPut
    <3>9. FinishFits'
      BY <2>3, <2>4, <3>3, <3>4, <3>5 DEF LInv, FinishFits, WInv, Types
    <3>10. QED
      BY <2>5, <3>6, <3>8, <3>9 DEF LInv
  <2>9. CASE ~Keeps
    <3>1. row' = row /\ kept' = kept /\ done' = done
      BY <1>2, <2>9 DEF Read, store
    <3>2. RunOnWay' /\ FinishFits'
      BY <2>4, <2>7, <2>9, <3>1 DEF LInv, RunOnWay, FinishFits
    <3>3. QED
      BY <2>5, <3>1, <3>2 DEF LInv
  <2>10. QED
    BY <2>8, <2>9
<1>3. QED
  BY <1>1, <1>2

LEMMA AgainIsRepeat ==
  ASSUME NEW k, k.after = run.taken
  PROVE  Repeats(k.answer) <=> Again(k)
  BY DEF Repeats, Again

LEMMA ReuseLine == ASSUME WInv, LInv, Reuse PROVE LInv'
<1>1. UNCHANGED <<material, wiki>> /\ run.stage = "write" /\ done' = done
  BY DEF Reuse, WInv, RunFits, wiki
<1>2. PICK k \in Reusable, calls \in 0 .. MaxCalls :
        IF run.answers = MaxAnswers THEN Fail(0) /\ UNCHANGED store
        ELSE IF Repeats(k.answer) THEN Fail(0) /\ Discard
        ELSE run' = Took(k.answer, 1, calls) /\ UNCHANGED <<store, job>>
  BY DEF Reuse
<1>3. Keeps /\ CanPut /\ k \in kept /\ k.op = run.op /\ k.after = run.taken
  BY DEF Reusable
<1>4. CASE Fail(0) /\ UNCHANGED store
  BY <1>1, <1>4, FailLine
<1>5. CASE Repeats(k.answer) /\ Fail(0) /\ Discard
  <2>1. Again(k) /\ run' = NoRun
    BY <1>3, <1>5, AgainIsRepeat DEF Fail, EndJob
  <2>2. QED
    BY <1>1, <1>3, <1>5, <2>1, DropLine
<1>6. CASE ~Repeats(k.answer) /\ run' = Took(k.answer, 1, calls) /\ UNCHANGED <<store, job>>
  <2>1. kept' = kept /\ row' = row /\ Keeps' = Keeps
    BY <1>6 DEF store, Keeps
  <2>2. /\ kept \in SUBSET KeptSet /\ InLine(kept) /\ calls \in Nat /\ ~Again(k)
    BY <1>3, <1>6, AgainIsRepeat, SizesNat DEF WInv, Types, LInv
  <2>3. material.at # "gone" /\ OnWay(kept, run)
    BY <1>1, <1>3 DEF WInv, GoneIsGone, LInv, RunOnWay, WayOfRun
  <2>4. k.answer \in AnswerSet /\ k.answer.text = run.text
    BY <1>3, <2>2, RowTyped DEF CanPut, WInv, KeptFits
  <2>5. WayOfRun(kept', run')
    BY <1>1, <1>3, <1>6, <2>1, <2>2, <2>3, TookWay DEF WInv
  <2>6. (run'.stage = "write" => run'.at = "look") /\ run'.at # "keep" /\ run'.changed = run.changed
    BY <1>6, <2>2, <2>4, TookLooks DEF WInv
  <2>7. run'.text = run.text
    BY <1>1, <1>6, <2>2, <2>4, TookFits DEF WInv, TakenFits
  <2>8. RunOnWay'
    BY <1>3, <2>1, <2>5, <2>7 DEF RunOnWay, CanPut
  <2>9. FinishFits'
    BY <1>1, <1>3, <2>1, <2>6 DEF LInv, FinishFits
  <2>10. QED
    BY <2>1, <2>2, <2>6, <2>8, <2>9 DEF LInv, KeepsNew
<1>7. QED
  BY <1>2, <1>4, <1>5, <1>6

\* Where the line of the run's operation goes on, the next row is that of the run's step.
LEMMA NextRow ==
  ASSUME WInv, LInv, Keeps, CanPut, run.stage = "write", OnWay(kept, run),
         Has(kept, run.op, Len(run.taken))
  PROVE  Reusable # {}
<1>1. PICK k \in kept : k.op = run.op /\ Len(k.after) = Len(run.taken)
  BY DEF Has
<1>2. k.after \in Seq(AnswerSet) /\ run.taken \in Seq(AnswerSet) /\ Len(run.taken) \in Nat
  BY RowTyped DEF WInv, Types, Runs
<1>3. Agrees(run.taken, k.after)
  BY <1>1, <1>2 DEF OnWay
<1>4. k.after = run.taken
  BY <1>1, <1>2, <1>3, AgreeEqual
<1>5. QED
  BY <1>1, <1>4 DEF Reusable

LEMMA LookLine == ASSUME WInv, LInv, Look PROVE LInv'
<1>1. UNCHANGED <<material, store, wiki>> /\ run.stage = "write" /\ Reusable = {} /\ run.at = "look"
  BY DEF Look, WInv, RunFits
<1>2. CASE Fail(0)
  BY <1>1, <1>2, FailLine
<1>3. CASE run' = [run EXCEPT !.at = "ask", !.answers = @ + 1] /\ UNCHANGED job
  <2>1. /\ run'.stage = "write" /\ run'.at = "ask" /\ run'.op = run.op /\ run'.taken = run.taken
        /\ run'.drafts = run.drafts /\ run'.text = run.text /\ run'.changed = run.changed
    BY <1>1, <1>3 DEF WInv, Types, Runs
  <2>2. kept' = kept /\ row' = row /\ done' = done /\ Keeps' = Keeps /\ material' = material
    BY <1>1, <1>3 DEF store, wiki, Keeps
  <2>3. ASSUME Keeps, material.at # "gone"
        PROVE  CanPut /\ OnWay(kept, run) /\ ~Has(kept, run.op, Len(run.taken))
    <3>1. CanPut /\ OnWay(kept, run)
      BY <1>1, <2>3 DEF LInv, RunOnWay, WayOfRun
    <3>2. QED
      BY <1>1, <2>3, <3>1, NextRow
  <2>4. ASSUME Keeps, material.at # "gone"
        PROVE  CanPut' /\ OnWay(kept', run')
    <3>1. \A k \in kept : k.op = run.op => Len(k.after) <= Len(run.taken)
      <4> SUFFICES ASSUME NEW k \in kept, k.op = run.op, ~(Len(k.after) <= Len(run.taken))
                   PROVE  FALSE
        OBVIOUS
      <4>1. Len(k.after) \in Nat /\ Len(run.taken) \in Nat
        BY RowTyped DEF WInv, Types, Runs
      <4>2. Len(run.taken) \in 0 .. Len(k.after)
        BY <4>1
      <4>3. Has(kept, run.op, Len(run.taken))
        BY <4>2 DEF LInv, InLine
      <4>4. QED
        BY <2>3, <2>4, <4>3
    <3>2. OnWay(kept', run')
      BY <2>1, <2>2, <2>3, <2>4, <3>1 DEF OnWay
    <3>3. QED
      BY <2>1, <2>2, <2>3, <2>4, <3>2 DEF CanPut
  <2>5. RunOnWay'
    BY <2>1, <2>2, <2>4 DEF RunOnWay, WayOfRun
  <2>6. Keeps => done.by = Nobody
    <3> SUFFICES ASSUME Keeps, done.by # Nobody
                 PROVE  FALSE
      OBVIOUS
    <3>1. kept # {} /\ Complete(kept, done.answers)
      BY <1>1 DEF LInv, FinishFits
    <3>2. CanPut /\ OnWay(kept, run) /\ ~Has(kept, run.op, Len(run.taken))
      BY <2>3, <3>1 DEF WInv, GoneIsGone
    <3>3. Ended(kept, run.op, done.answers)
      BY <3>1, <3>2 DEF Complete, OnWay
    <3>4. Len(run.taken) \in Nat
      BY DEF WInv, Types, Runs
    <3>5. Len(run.taken) # 0
      BY <3>2, <3>3 DEF Ended
    <3>6. Len(run.taken) - 1 \in 0 .. Len(run.taken) - 1
      BY <3>4, <3>5
    <3>7. PICK k \in kept : k.op = run.op /\ Len(k.after) = Len(run.taken) - 1
      BY <3>2, <3>6 DEF OnWay, Has
    <3>8. Leads(k, run.taken) /\ Len(k.after) + 1 = Len(run.taken)
      BY <3>2, <3>4, <3>7 DEF OnWay
    <3>9. QED
      BY <3>2, <3>3, <3>7, <3>8 DEF Leads, Ended
  <2>7. FinishFits'
    BY <2>1, <2>2, <2>6 DEF LInv, FinishFits
  <2>8. QED
    BY <2>1, <2>2, <2>5, <2>7 DEF LInv, KeepsNew
<1>4. QED
  BY <1>2, <1>3 DEF Look

LEMMA PauseLine == ASSUME LInv, OutOfBudget, UNCHANGED <<store, wiki>> PROVE LInv'
<1>1. run' = NoRun
  BY DEF OutOfBudget, Fail, EndJob
<1>2. QED
  BY <1>1, EndLine DEF store, wiki

\* The run goes on at the step it is at, or checks its answer.
LEMMA StepLine ==
  ASSUME WInv, LInv, UNCHANGED <<material, store, wiki>>, job'.choice = job.choice,
         run'.stage = run.stage, run'.op = run.op, run'.taken = run.taken, run'.drafts = run.drafts,
         run'.text = run.text, run'.changed => run.changed, run.at # "look", KeepsNew'
  PROVE  LInv'
  BY SameLine DEF store, wiki

LEMMA AskLine == ASSUME WInv, LInv, Ask PROVE LInv'
<1>1. UNCHANGED <<material, store, wiki>> /\ run.at = "ask"
  BY DEF Ask
<1>2. CASE OutOfBudget
  BY <1>1, <1>2, PauseLine
<1>3. CASE job' = [job EXCEPT !.spent = @ + 1] /\ run' = [run EXCEPT !.at = "open"]
  <2>1. /\ run'.stage = run.stage /\ run'.op = run.op /\ run'.taken = run.taken /\ run'.drafts = run.drafts
        /\ run'.text = run.text /\ run'.changed = run.changed /\ run'.at = "open"
    BY <1>3 DEF WInv, Types, Runs
  <2>2. job'.choice = job.choice
    BY <1>3 DEF WInv, Types, JobSet
  <2>3. KeepsNew'
    BY <2>1 DEF KeepsNew
  <2>4. QED
    BY <1>1, <2>1, <2>2, <2>3, StepLine
<1>4. QED
  BY <1>2, <1>3 DEF Ask

LEMMA ItemLine == ASSUME WInv, LInv, NEW n \in 1 .. MaxItems, Item(n) PROVE LInv'
<1> DEFINE items == Append(run.items, n)
<1>1. UNCHANGED <<material, wiki>> /\ run.at = "open" /\ run.stage = "write"
  BY DEF Item, Streaming
<1>2. CASE OutOfBudget /\ UNCHANGED store
  BY <1>1, <1>2, PauseLine
<1>3. CASE EndJob(Charged(1), "failed", 0) /\ UNCHANGED store
  BY <1>1, <1>3, EndLine DEF EndJob, store, wiki
<1>4. CASE /\ ~(Keeps /\ ~CanPut)
           /\ run' = [run EXCEPT !.items = items, !.changed = Keeps,
                                 !.saved = IF Keeps THEN Len(items) ELSE 0]
           /\ IF Keeps THEN Put(Answer(items, TRUE)) ELSE UNCHANGED store
           /\ UNCHANGED job
  <2>1. /\ run'.stage = run.stage /\ run'.op = run.op /\ run'.taken = run.taken /\ run'.drafts = run.drafts
        /\ run'.text = run.text /\ run'.changed = Keeps /\ run'.at = "open"
    <3> DEFINE named == Keeps
               count == IF Keeps THEN Len(items) ELSE 0
    <3>1. run' = [run EXCEPT !.items = items, !.changed = named, !.saved = count] /\ run \in Runs
      BY <1>4 DEF WInv, Types
    <3> HIDE DEF items, named, count
    <3>2. /\ run'.stage = run.stage /\ run'.op = run.op /\ run'.taken = run.taken /\ run'.drafts = run.drafts
          /\ run'.text = run.text /\ run'.changed = named /\ run'.at = run.at
      BY <3>1 DEF Runs
    <3>3. QED
      BY <1>1, <3>2 DEF named
  <2>2. KeepsNew' /\ Keeps' = Keeps
    BY <1>4, <2>1 DEF KeepsNew, Keeps
  <2>3. CASE Keeps
    <3> DEFINE answer == Answer(items, TRUE)
    <3>1. n \in Nat /\ run.items \in Seq(Nat)
      BY DEF WInv, Types, Runs
    <3>2. items \in Seq(Nat)
      BY <3>1
    <3>3. answer \in AnswerSet
      <4> HIDE DEF items
      <4>1. QED
        BY <3>2, AnswerTyped DEF WInv
    <3>4. Put(answer) /\ CanPut
      BY <1>4, <2>3
    <3> HIDE DEF answer, items
    <3>5. /\ InLine(kept') /\ OnWay(kept', run)
          /\ done.by = Nobody /\ row'.by = Nobody /\ row'.text = row.text
      BY <1>1, <2>3, <3>3, <3>4, PutLine
    <3>6. OnWay(kept', run')
      BY <1>1, <2>1, <3>5 DEF OnWay
    <3>7. RunOnWay'
      BY <1>1, <2>1, <3>4, <3>5, <3>6 DEF RunOnWay, WayOfRun, CanPut
    <3>8. FinishFits'
      BY <1>1, <3>5 DEF FinishFits, wiki
    <3>9. QED
      BY <2>2, <3>5, <3>7, <3>8 DEF LInv
  <2>4. CASE ~Keeps
    BY <1>1, <1>4, <2>1, <2>2, <2>4, StepLine
  <2>5. QED
    BY <2>3, <2>4
<1>5. QED
  BY <1>2, <1>3, <1>4 DEF Item

LEMMA CirclesLine == ASSUME LInv, Circles PROVE LInv'
  BY EndLine DEF Circles, EndJob, store, wiki

LEMMA TakeLine ==
  ASSUME WInv, LInv, NEW more \in BOOLEAN, NEW charged, charged.choice = job.choice, NEW failures \in Nat,
         Take(Answer(run.items, more), charged, failures), UNCHANGED <<material, wiki>>,
         run.stage = "write", run.at = "open"
  PROVE  LInv'
<1> DEFINE answer == Answer(run.items, more)
<1>1. answer.more = more /\ answer.items = run.items
  BY DEF Answer
<1>2. CASE Repeats(answer)
  <2>1. run' = NoRun /\ done' = done /\ IF Keeps THEN Discard ELSE UNCHANGED store
    BY <1>2 DEF Take, EndJob, wiki
  <2>2. CASE Keeps
    BY <2>1, <2>2, DropLine
  <2>3. CASE ~Keeps
    BY <2>1, <2>3, EndLine DEF store
  <2>4. QED
    BY <2>2, <2>3
<1>3. CASE ~Repeats(answer)
  <2>1. /\ run' = [run EXCEPT !.at = "keep", !.more = answer.more, !.failures = failures, !.unsent = 0]
        /\ job' = charged /\ UNCHANGED store
    BY <1>3 DEF Take
  <2>2. /\ run'.stage = run.stage /\ run'.op = run.op /\ run'.taken = run.taken /\ run'.drafts = run.drafts
        /\ run'.text = run.text /\ run'.changed = run.changed /\ run'.items = run.items /\ run'.more = more
    BY <1>1, <2>1 DEF WInv, Types, Runs
  <2>3. KeepsNew'
    BY <1>1, <1>3, <2>2 DEF KeepsNew, Repeats, Answer
  <2>4. QED
    BY <2>1, <2>2, <2>3, StepLine
<1>4. QED
  BY <1>2, <1>3

LEMMA AnsweredLine == ASSUME WInv, LInv, NEW more \in BOOLEAN, Answered(more) PROVE LInv'
<1>1. Completed.choice = job.choice
  BY ChargedSame DEF WInv
<1>2. /\ Take(Answer(run.items, more), Completed, 0) /\ UNCHANGED <<material, wiki>>
      /\ run.stage = "write" /\ run.at = "open"
  BY DEF Answered, Streaming
<1>3. QED
  BY <1>1, <1>2, TakeLine

LEMMA MalformedLine == ASSUME WInv, LInv, Malformed PROVE LInv'
<1> DEFINE paid == [Completed EXCEPT !.lost = TRUE]
<1>1. UNCHANGED <<material, store, wiki>> /\ run.at = "open"
  BY DEF Malformed, Streaming
<1>2. paid.choice = job.choice
  <2>1. Completed \in JobSet /\ Completed.choice = job.choice
    BY CountsTyped, ChargedSame DEF WInv
  <2>2. QED
    BY <2>1 DEF JobSet
<1>3. CASE EndJob(paid, "failed", Told(TakenItems + run.saved)) \/ EndJob(paid, "failed", 0)
  <2>1. run' = NoRun
    BY <1>3 DEF EndJob
  <2>2. QED
    BY <1>1, <2>1, EndLine DEF store, wiki
<1>4. CASE /\ job' = paid
           /\ run' = [run EXCEPT !.at = "ask", !.items = <<>>, !.attempt = 2, !.answers = @ + 1,
                                 !.failures = 0, !.unsent = 0]
  <2>1. /\ run'.stage = run.stage /\ run'.op = run.op /\ run'.taken = run.taken /\ run'.drafts = run.drafts
        /\ run'.text = run.text /\ run'.changed = run.changed /\ run'.at = "ask"
    BY <1>4 DEF WInv, Types, Runs
  <2>2. KeepsNew' /\ job'.choice = job.choice
    BY <1>2, <1>4, <2>1 DEF KeepsNew
  <2>3. QED
    BY <1>1, <2>1, <2>2, StepLine
<1>5. QED
  BY <1>3, <1>4 DEF Malformed

LEMMA BreaksLine == ASSUME WInv, LInv, Breaks PROVE LInv'
<1>1. UNCHANGED <<material, wiki>> /\ run.at = "open"
  BY DEF Breaks
<1>2. CASE EndJob(Charged(0), "failed", Told(TakenItems + Len(run.items))) /\ UNCHANGED store
  BY <1>1, <1>2, EndLine DEF EndJob, store, wiki
<1>3. CASE run.items # <<>> /\ Take(Answer(run.items, TRUE), Charged(0), 1)
  <2>1. Charged(0).choice = job.choice /\ run.stage = "write"
    BY <1>3, ChargedSame DEF WInv, RunFits
  <2> DEFINE charged == Charged(0)
  <2>2. Take(Answer(run.items, TRUE), charged, 1) /\ charged.choice = job.choice
    BY <1>3, <2>1
  <2> HIDE DEF charged
  <2>3. QED
    BY <1>1, <2>1, <2>2, TakeLine
<1>4. CASE run' = [run EXCEPT !.at = "ask", !.failures = 1] /\ UNCHANGED <<store, job>>
  <2>1. /\ run'.stage = run.stage /\ run'.op = run.op /\ run'.taken = run.taken /\ run'.drafts = run.drafts
        /\ run'.text = run.text /\ run'.changed = run.changed /\ run'.at = "ask"
    BY <1>4 DEF WInv, Types, Runs
  <2>2. KeepsNew'
    BY <2>1 DEF KeepsNew
  <2>3. QED
    BY <1>1, <1>4, <2>1, <2>2, StepLine
<1>5. QED
  BY <1>2, <1>3, <1>4 DEF Breaks

LEMMA BusyLine == ASSUME WInv, LInv, Busy PROVE LInv'
<1>1. UNCHANGED <<material, store, wiki>> /\ run.at = "open"
  BY DEF Busy
<1>2. CASE Fail(0)
  BY <1>1, <1>2, FailLine
<1>3. CASE run' = [run EXCEPT !.at = "ask", !.unsent = @ + 1] /\ UNCHANGED job
  <2>1. /\ run'.stage = run.stage /\ run'.op = run.op /\ run'.taken = run.taken /\ run'.drafts = run.drafts
        /\ run'.text = run.text /\ run'.changed = run.changed /\ run'.at = "ask"
    BY <1>3 DEF WInv, Types, Runs
  <2>2. KeepsNew'
    BY <2>1 DEF KeepsNew
  <2>3. QED
    BY <1>1, <1>3, <2>1, <2>2, StepLine
<1>4. QED
  BY <1>2, <1>3 DEF Busy

LEMMA RefusedLine == ASSUME LInv, Refused PROVE LInv'
  BY FailLine DEF Refused

LEMMA KeepLine == ASSUME WInv, LInv, Keep PROVE LInv'
<1> DEFINE answer == Answer(run.items, run.more)
<1>1. UNCHANGED <<material, wiki>> /\ run.at = "keep" /\ run.stage = "write"
  BY DEF Keep, WInv, RunFits
<1>2. CASE Fail(0) /\ UNCHANGED store
  BY <1>1, <1>2, FailLine
<1>3. CASE /\ ~(Keeps /\ ~CanPut)
           /\ \E calls \in 0 .. MaxCalls :
                /\ run' = [Took(answer, 0, calls) EXCEPT !.changed = Keeps]
                /\ IF Keeps THEN Put(answer) ELSE UNCHANGED store
                /\ UNCHANGED job
  <2>1. PICK calls \in 0 .. MaxCalls : run' = [Took(answer, 0, calls) EXCEPT !.changed = Keeps]
    BY <1>3
  <2>2. (IF Keeps THEN Put(answer) ELSE UNCHANGED store) /\ job' = job /\ Keeps' = Keeps
    BY <1>3 DEF Keeps
  <2>3. answer \in AnswerSet /\ answer.text = run.text /\ calls \in Nat /\ ~Repeats(answer)
    <3>1. run.items \in Seq(Nat) /\ run.more \in BOOLEAN
      BY DEF WInv, Types, Runs
    <3>2. answer \in AnswerSet /\ answer.text = run.text
      BY <3>1, AnswerTyped DEF WInv
    <3>3. calls \in Nat
      BY SizesNat
    <3>4. ~Repeats(answer)
      BY <1>1 DEF LInv, KeepsNew
    <3>5. QED
      BY <3>2, <3>3, <3>4
  <2> DEFINE took == Took(answer, 0, calls)
             named == Keeps
  <2>4. took \in Runs /\ took.text = run.text /\ took.at # "keep"
    BY <1>1, <2>3, TookFits, TookLooks DEF WInv, TakenFits
  <2>5. run' = [took EXCEPT !.changed = named]
    BY <2>1
  <2>6. /\ run'.stage = took.stage /\ run'.op = took.op /\ run'.taken = took.taken /\ run'.drafts = took.drafts
        /\ run'.text = run.text /\ run'.changed = Keeps /\ run'.at = took.at
    <3> HIDE DEF took, named
    <3>1. /\ run'.stage = took.stage /\ run'.op = took.op /\ run'.taken = took.taken /\ run'.drafts = took.drafts
          /\ run'.text = run.text /\ run'.changed = named /\ run'.at = took.at
      BY <2>4, <2>5 DEF Runs
    <3>2. QED
      BY <3>1 DEF named
  <2>7. KeepsNew'
    BY <2>4, <2>6 DEF KeepsNew
  <2>8. CASE Keeps
    <3>1. Put(answer) /\ CanPut
      BY <1>3, <2>2, <2>8
    <3> HIDE DEF answer
    <3>2. /\ kept' \in SUBSET KeptSet /\ InLine(kept') /\ OnWay(kept', run)
          /\ Kept(answer) \in kept' /\ Kept(answer).op = run.op /\ Kept(answer).after = run.taken
          /\ Kept(answer).answer = answer
          /\ done.by = Nobody /\ row'.by = Nobody /\ row'.text = row.text
      BY <1>1, <2>3, <2>8, <3>1, PutLine
    <3>3. ~Again(Kept(answer))
      BY <2>3, <3>2, AgainIsRepeat
    <3>4. WayOfRun(kept', took)
      <4>1. WayOfRun(kept', Took(Kept(answer).answer, 0, calls))
        BY <1>1, <2>3, <3>2, <3>3, TookWay DEF WInv
      <4>2. QED
        BY <3>2, <4>1
    <3>5. WayOfRun(kept', run')
      <4> HIDE DEF took
      <4>1. QED
        BY <2>6, <3>4 DEF WayOfRun, OnWay, Complete
    <3>6. RunOnWay'
      BY <2>6, <3>1, <3>2, <3>5 DEF RunOnWay, CanPut
    <3>7. FinishFits'
      BY <1>1, <3>2 DEF FinishFits, wiki
    <3>8. QED
      BY <2>7, <3>2, <3>6, <3>7 DEF LInv
  <2>9. CASE ~Keeps
    <3>1. kept' = kept /\ row' = row /\ done' = done
      BY <1>1, <2>2, <2>9 DEF store, wiki
    <3>2. RunOnWay' /\ FinishFits'
      BY <2>2, <2>6, <2>9, <3>1 DEF LInv, RunOnWay, FinishFits
    <3>3. QED
      BY <2>7, <3>1, <3>2 DEF LInv
  <2>10. QED
    BY <2>8, <2>9
<1>4. QED
  BY <1>2, <1>3 DEF Keep

LEMMA NothingPassesLine == ASSUME LInv, NothingPasses PROVE LInv'
  BY EndLine DEF NothingPasses, Fail, EndJob, wiki

LEMMA PlainAnsweredLine == ASSUME WInv, LInv, PlainAnswered PROVE LInv'
<1>1. UNCHANGED <<store, wiki>> /\ run.stage \in {"check", "match"}
  BY DEF PlainAnswered
<1>2. job'.choice = job.choice
  <2>1. Completed \in JobSet /\ Completed.choice = job.choice
    BY CountsTyped, ChargedSame DEF WInv
  <2>2. QED
    BY <2>1 DEF PlainAnswered, JobSet
<1>3. material'.at = material.at
  BY DEF PlainAnswered, WInv, Types
<1>4. /\ run'.stage # "write" /\ run'.at # "keep" /\ run'.changed = run.changed
      /\ run'.stage \in {"match", "save", "saved"} => run.stage \in {"match", "save", "saved"}
      /\ run'.drafts = run.drafts /\ run'.text = run.text
  <2>1. run \in Runs /\ run.at = "open"
    BY DEF WInv, Types, PlainAnswered
  <2>2. CASE run' = [run EXCEPT !.at = "ask", !.left = @ - 1, !.failures = 0, !.unsent = 0]
    BY <1>1, <2>1, <2>2 DEF Runs
  <2>3. CASE run.stage = "match" /\ run' = [run EXCEPT !.stage = "save"]
    BY <2>1, <2>3 DEF Runs
  <2>4. CASE run' = [run EXCEPT !.stage = "read", !.failures = 0]
    BY <2>1, <2>4 DEF Runs
  <2>5. QED
    BY <2>2, <2>3, <2>4 DEF PlainAnswered
<1>5. KeepsNew'
  BY <1>4 DEF KeepsNew
<1>6. QED
  BY <1>1, <1>2, <1>3, <1>4, <1>5, SameLine DEF store, wiki

LEMMA SaveLine == ASSUME WInv, LInv, Save PROVE LInv'
<1>1. UNCHANGED <<material, store, done>> /\ run.stage = "save"
  BY DEF Save
<1>2. CASE Fail(0)
  BY <1>1, <1>2, EndLine DEF Fail, EndJob, store
<1>3. CASE run' = [run EXCEPT !.stage = "saved", !.at = "none"] /\ UNCHANGED job
  <2>1. /\ run'.stage = "saved" /\ run'.at = "none" /\ run'.changed = run.changed
        /\ run'.drafts = run.drafts /\ run'.text = run.text
    BY <1>3 DEF WInv, Types, Runs
  <2>2. KeepsNew'
    BY <2>1 DEF KeepsNew
  <2>3. QED
    BY <1>1, <1>3, <2>1, <2>2, SameLine DEF store
<1>4. QED
  BY <1>2, <1>3 DEF Save

LEMMA FinishLine == ASSUME WInv, LInv, Finish PROVE LInv'
<1>1. run' = NoRun /\ kept' = kept /\ run.stage = "saved" /\ job.choice \in By
  BY DEF Finish, EndJob, WInv, Types, JobSet
<1>2. run'.stage = "none" /\ run'.at = "none" /\ run'.changed = FALSE
  BY <1>1 DEF NoRun
<1>3. InLine(kept') /\ RunOnWay' /\ KeepsNew'
  BY <1>1, <1>2 DEF LInv, RunOnWay, KeepsNew
<1>4. CASE ~Keeps
  <2>1. row' = row /\ done' = done
    BY <1>4 DEF Finish
  <2>2. QED
    BY <1>1, <2>1, EndLine
<1>5. CASE Keeps /\ material.at = "gone"
  <2>1. kept' = {} /\ row = NoRow
    BY <1>1, <1>5 DEF WInv, GoneIsGone
  <2>2. ~CanPut
    BY <1>1, <2>1 DEF WInv, RunFits, NoRow, CanPut
  <2>3. row' = row
    BY <2>2 DEF Finish
  <2>4. FinishFits'
    BY <1>2, <2>1, <2>3 DEF LInv, FinishFits
  <2>5. QED
    BY <1>3, <2>4 DEF LInv
<1>6. CASE Keeps /\ material.at # "gone"
  <2>1. CanPut /\ Complete(kept, run.drafts) /\ run.text # 0
    BY <1>1, <1>6 DEF LInv, RunOnWay, WayOfRun, WInv, RunFits
  <2>2. /\ row' = [row EXCEPT !.by = job.choice] /\ done' = [by |-> job.choice, answers |-> run.drafts]
    BY <1>6, <2>1 DEF Finish
  <2>3. row'.by = job.choice /\ row'.text = row.text
    BY <2>2 DEF WInv, Types
  <2>4. FinishFits'
    BY <1>1, <1>2, <2>1, <2>2, <2>3 DEF FinishFits, CanPut
  <2>5. QED
    BY <1>3, <2>4 DEF LInv
<1>7. QED
  BY <1>4, <1>5, <1>6

LEMMA StopLine == ASSUME LInv, Stop \/ Close \/ Crash PROVE LInv'
  BY EndLine DEF Stop, Close, Crash, PutBack, EndJob, store, wiki

LEMMA MaterialLine == ASSUME WInv, LInv, Edit \/ AskDelete \/ Delete PROVE LInv'
<1>1. job' = job /\ run' = run
  BY DEF Edit, AskDelete, Delete
<1>2. KeepsNew'
  BY <1>1 DEF LInv, KeepsNew, Repeats, Answer
<1>3. CASE Edit \/ AskDelete
  <2>1. kept' = kept /\ row' = row /\ done' = done /\ material.at # "gone"
    BY <1>3 DEF Edit, AskDelete, store, wiki
  <2>2. QED
    BY <1>1, <1>2, <2>1, SameLine
<1>4. CASE Delete
  <2>1. kept' = {} /\ material'.at = "gone" /\ row' = NoRow /\ done' = NotDone
    BY <1>4 DEF Delete, WInv, Types
  <2>2. InLine(kept') /\ RunOnWay' /\ FinishFits'
    BY <2>1 DEF InLine, RunOnWay, FinishFits, NoRow, NotDone
  <2>3. QED
    BY <1>2, <2>2 DEF LInv
<1>5. QED
  BY <1>3, <1>4

LEMMA NextLInv == WInv /\ KInv /\ LInv /\ [Next]_runVars => LInv'
<1> SUFFICES ASSUME WInv, KInv, LInv, [Next]_runVars
             PROVE  LInv'
  OBVIOUS
<1>1. CASE UNCHANGED runVars
  <2>1. UNCHANGED <<material, row, kept, job, run, done>>
    BY <1>1 DEF runVars, store, wiki
  <2>2. KeepsNew'
    BY <2>1 DEF LInv, KeepsNew, Repeats, Answer
  <2>3. QED
    BY <2>1, <2>2, SameLine
<1>2. CASE (\E c \in Choices : Add(c)) \/ Begin \/ Read
  BY <1>2, AddLine, BeginLine, ReadLine
<1>3. CASE Reuse \/ Look \/ Ask \/ (\E n \in 1 .. MaxItems : Item(n)) \/ Circles
  BY <1>3, ReuseLine, LookLine, AskLine, ItemLine, CirclesLine
<1>4. CASE (\E more \in BOOLEAN : Answered(more)) \/ Malformed \/ Breaks \/ Busy \/ Refused \/ Keep
           \/ NothingPasses
  BY <1>4, AnsweredLine, MalformedLine, BreaksLine, BusyLine, RefusedLine, KeepLine, NothingPassesLine
<1>5. CASE PlainAnswered \/ Save \/ Finish
  BY <1>5, PlainAnsweredLine, SaveLine, FinishLine
<1>6. CASE Stop \/ Close \/ Crash \/ Edit \/ AskDelete \/ Delete
  BY <1>6, StopLine, MaterialLine
<1>7. QED
  BY <1>1, <1>2, <1>3, <1>4, <1>5, <1>6 DEF Next

\* A run of the text that is kept starts over, or leaves what is kept.
StartsOverStep ==
  Read /\ Keeps /\ row.text = material.text => kept' = IF StartsOver THEN {} ELSE kept

LEMMA ReadDecides ==
  ASSUME WInv, LInv
  PROVE  StartsOverStep
<1> SUFFICES ASSUME Read, Keeps, row.text = material.text
             PROVE  kept' = IF StartsOver THEN {} ELSE kept
  BY DEF StartsOverStep
<1>1. material.at # "gone" /\ row.text # 0
  BY DEF WInv, Types, GoneIsGone, NoRow
<1>2. kept' = IF row.by \notin {Nobody, job.choice} THEN {} ELSE kept
  BY <1>1 DEF Read, Prepared
<1>3. CASE kept = {}
  BY <1>2, <1>3
<1>4. CASE kept # {}
  <2>1. row.by = done.by
    BY <1>4 DEF LInv, FinishFits
  <2>2. ASSUME done.by # Nobody, NEW k \in kept
        PROVE  k.answer \in done.answers
    <3>1. Complete(kept, done.answers) /\ k.op \in 1 .. Len(Ops)
      BY <1>4, <2>2 DEF LInv, FinishFits, InLine
    <3>2. QED
      BY <3>1 DEF Complete, Ended
  <2>3. StartsOver <=> done.by \notin {Nobody, job.choice}
    BY <2>2 DEF StartsOver
  <2>4. QED
    BY <1>2, <2>1, <2>3
<1>5. QED
  BY <1>3, <1>4

\* A run of an unchanged text starts over exactly when the material was finished with another
\* choice and nothing was kept since; the work of a stopped run stays, whoever goes on
\* (checkpoints.py, prepare and finished).
THEOREM FinishStartsOver == Spec => NewWorkDecides
<1>1. RunInit => LInv
  BY InitLInv
<1>2. RunInit => KInv
  BY InitKInv
<1>3. WInv /\ KInv /\ [Next]_runVars => KInv'
  BY NextKInv
<1>4. WInv /\ KInv /\ LInv /\ [Next]_runVars => LInv'
  BY NextLInv
<1>5. WInv /\ LInv => StartsOverStep
  BY ReadDecides
<1>6. QED
  BY <1>1, <1>2, <1>3, <1>4, <1>5, WInvAlways, PTL DEF Spec, NewWorkDecides, StartsOverStep

-----------------------------------------------------------------------------
(* What a portion has paid for *)

\* An answer of this portion is kept.
Paid == \E k \in kept : k.answer.portion = portions

\* A call that is open or was completed has cost something.  Unless some answer was lost, the
\* completed one is kept, or checked just now, and so are the items of the open one.
PaidFits ==
  /\ run.at = "open" \/ job.completed => job.spent > 0
  /\ Pending /\ ~job.lost => Keeps
  /\ Pending /\ ~job.lost /\ material.at # "gone" => /\ job.completed => Paid \/ run.at = "keep"
                                                     /\ run.items # <<>> => Paid

\* A job that pauses has an answer of its portion in the rows.
PauseStep ==
  Running /\ job'.state = "paused" /\ ~job.lost /\ material.at # "gone"
    => \E k \in kept' : k.answer.portion = portions

LEMMA ChargedPaid ==
  ASSUME Types, PaidFits, NEW n \in Nat
  PROVE  /\ Charged(n) \in JobSet /\ Charged(n).completed = job.completed /\ Charged(n).lost = job.lost
         /\ Charged(n).completed => Charged(n).spent > 0
         /\ Charged(n).state = job.state /\ Charged(n).choice = job.choice
         /\ Completed \in JobSet /\ Completed.completed
         /\ Completed.state = job.state /\ Completed.choice = job.choice /\ Completed.lost = job.lost
         /\ run.at = "open" => Completed.spent > 0
<1>1. Streamed \in Nat
  BY DEF Types, Runs, Streamed
<1>2. \A m \in Nat : /\ Charged(m) \in JobSet /\ Charged(m).completed = job.completed
                     /\ Charged(m).lost = job.lost /\ Charged(m).spent = job.spent + Streamed + m
                     /\ Charged(m).state = job.state /\ Charged(m).choice = job.choice
  BY <1>1 DEF Types, JobSet, Charged
<1>3. job.spent \in Nat
  BY DEF Types, JobSet
<1>4. Charged(n).completed => Charged(n).spent > 0
  <2>1. job.completed => job.spent > 0
    BY DEF PaidFits
  <2>2. Charged(n).completed = job.completed /\ Charged(n).spent = job.spent + Streamed + n
    BY <1>2
  <2>3. QED
    BY <1>1, <1>3, <2>1, <2>2
<1>5. /\ Completed \in JobSet /\ Completed.completed /\ Completed.lost = job.lost
      /\ Completed.state = job.state /\ Completed.choice = job.choice
      /\ Completed.spent = Charged(0).spent
  <2> DEFINE charged == Charged(0)
  <2>1. /\ charged \in JobSet /\ charged.lost = job.lost
        /\ charged.state = job.state /\ charged.choice = job.choice
    BY <1>2
  <2>2. Completed = [charged EXCEPT !.completed = TRUE]
    BY DEF Completed
  <2> HIDE DEF charged
  <2>3. /\ Completed \in JobSet /\ Completed.completed /\ Completed.lost = job.lost
        /\ Completed.state = job.state /\ Completed.choice = job.choice
        /\ Completed.spent = charged.spent
    BY <2>1, <2>2 DEF JobSet
  <2>4. QED
    BY <2>3 DEF charged
<1>6. run.at = "open" => Completed.spent > 0
  BY <1>1, <1>2, <1>3, <1>5 DEF PaidFits
<1>7. QED
  BY <1>2, <1>4, <1>5, <1>6

\* The job ends, but does not pause.
LEMMA EndPaid ==
  ASSUME NEW charged \in JobSet, charged.completed => charged.spent > 0,
         NEW state \in {"done", "failed", "cancelled"}, NEW told, EndJob(charged, state, told)
  PROVE  PaidFits' /\ PauseStep
<1>1. job'.state = state /\ job'.completed = charged.completed /\ job'.spent = charged.spent
  BY DEF EndJob, JobSet
<1>2. run'.at = "none"
  BY DEF EndJob, NoRun
<1>3. QED
  BY <1>1, <1>2 DEF PaidFits, Pending, PauseStep

LEMMA FailPaid ==
  ASSUME Types, PaidFits, NEW told, Fail(told)
  PROVE  PaidFits' /\ PauseStep
<1>1. Charged(0) \in JobSet /\ (Charged(0).completed => Charged(0).spent > 0)
  BY ChargedPaid
<1>2. QED
  BY <1>1, EndPaid DEF Fail

LEMMA PausePaid ==
  ASSUME WInv, PaidFits, OutOfBudget, run.at \in {"ask", "open"}, UNCHANGED <<material, store, wiki, portions>>
  PROVE  PaidFits' /\ PauseStep
<1> DEFINE shown == IF run.at = "open" THEN Len(run.items) ELSE 0
<1>1. Charged(0) \in JobSet /\ (Charged(0).completed => Charged(0).spent > 0)
  BY ChargedPaid DEF WInv
<1>2. CASE job.completed \/ shown > 0
  <2>1. EndJob(Charged(0), "paused", Told(TakenItems + shown))
    BY <1>2 DEF OutOfBudget
  <2>2. job'.state = "paused" /\ job'.completed = Charged(0).completed /\ job'.spent = Charged(0).spent
    BY <1>1, <2>1 DEF EndJob, JobSet
  <2>3. run'.at = "none"
    BY <2>1 DEF EndJob, NoRun
  <2>4. PaidFits'
    BY <1>1, <2>2, <2>3 DEF PaidFits, Pending
  <2>5. ASSUME Running, ~job.lost, material.at # "gone"
        PROVE  Paid
    <3>1. shown > 0 => run.items # <<>>
      BY DEF WInv, Types, Runs
    <3>2. QED
      BY <1>2, <2>5, <3>1 DEF PaidFits, Pending, Running
  <2>6. QED
    BY <2>4, <2>5 DEF PauseStep, Paid, store
<1>3. CASE ~(job.completed \/ shown > 0)
  BY <1>3, FailPaid DEF OutOfBudget, WInv
<1>4. QED
  BY <1>2, <1>3

\* The job goes on, and an answer that is checked stays.
LEMMA PaidStays ==
  ASSUME PaidFits, kept' = kept, portions' = portions, material'.at # "gone" => material.at # "gone",
         Pending, job'.state # "paused", job'.choice = job.choice, job'.completed = job.completed,
         job'.lost = job.lost, job'.completed \/ run'.at = "open" => job'.spent > 0,
         run'.items \in {<<>>, run.items}, run.at = "keep" => run'.at = "keep"
  PROVE  PaidFits' /\ PauseStep
  BY DEF PaidFits, PauseStep, Paid, Keeps

\* Some answer is lost.
LEMMA LostPaid ==
  ASSUME job'.lost, job'.state # "paused", job'.completed \/ run'.at = "open" => job'.spent > 0
  PROVE  PaidFits' /\ PauseStep
  BY DEF PaidFits, PauseStep

-----------------------------------------------------------------------------
LEMMA InitPaid == RunInit => PaidFits
  BY DEF RunInit, PaidFits, Pending, NoJob, NoRun

LEMMA AddPaid == ASSUME WInv, KInv, PaidFits, NEW c \in Choices, Add(c) PROVE PaidFits' /\ PauseStep
<1>1. ~Running /\ run' = NoRun
  BY DEF Add, Pending, Running, KInv
<1>2. job'.choice = c /\ job'.lost = (c \in Unnamed) /\ job'.completed = FALSE /\ job'.state = "queued"
  BY DEF Add, NoJob
<1>3. QED
  BY <1>1, <1>2 DEF PaidFits, PauseStep, Keeps, NoRun

LEMMA BeginPaid == ASSUME WInv, KInv, PaidFits, Begin PROVE PaidFits' /\ PauseStep
<1>1. Pending /\ run = NoRun /\ kept' = kept /\ UNCHANGED <<material, portions>> /\ job \in JobSet
  BY DEF Begin, Pending, Running, KInv, store, WInv, Types
<1>2. CASE material.at = "gone"
  <2>1. EndJob(job, "failed", 0)
    BY <1>2 DEF Begin
  <2>2. QED
    BY <1>1, <2>1, EndPaid DEF PaidFits
<1>3. CASE material.at # "gone"
  <2>1. job' = [job EXCEPT !.state = "running"]
    BY <1>3 DEF Begin
  <2>2. /\ job'.state = "running" /\ job'.choice = job.choice /\ job'.completed = job.completed
        /\ job'.lost = job.lost /\ job'.spent = job.spent
    BY <1>1, <2>1 DEF JobSet
  <2>3. run'.items = <<>> /\ run'.at # "open" /\ run.at # "keep"
    <3>1. run.at # "keep"
      BY <1>1 DEF NoRun
    <3>2. PICK n \in 1 .. MaxCalls : run' = IF material.checked
                                             THEN [NoRun EXCEPT !.stage = "read"]
                                             ELSE [NoRun EXCEPT !.stage = "check", !.at = "ask", !.left = n]
      BY <1>3 DEF Begin
    <3>3. QED
      BY <3>1, <3>2 DEF NoRun
  <2>4. QED
    BY <1>1, <2>2, <2>3, PaidStays DEF PaidFits
<1>4. QED
  BY <1>2, <1>3

LEMMA ReadPaid == ASSUME WInv, PaidFits, Read PROVE PaidFits' /\ PauseStep
<1>1. CASE material.at = "gone"
  BY <1>1, FailPaid DEF Read, WInv
<1>2. CASE material.at # "gone"
  <2> DEFINE read == [run EXCEPT !.text = material.text]
             now == Prepared(material.text, job.choice)
  <2>1. /\ read \in Runs /\ run' = Step(read, 1) /\ UNCHANGED <<material, portions>>
        /\ Pending /\ job \in JobSet /\ job.state = "running"
    BY <1>2 DEF Read, Running, Pending, WInv, Types, Runs
  <2>2. run'.at = "look" /\ run'.items = <<>>
    <3> HIDE DEF read
    <3>1. QED
      BY <2>1, StepFits
  <2>3. run.at # "keep"
    BY DEF Read, WInv, RunFits
  <2>4. CASE job' = job /\ kept' = kept
    BY <2>1, <2>2, <2>3, <2>4, PaidStays DEF PaidFits
  <2>5. CASE job' = [job EXCEPT !.lost = @ \/ job.spent > 0]
    <3> DEFINE lost == job.lost \/ job.spent > 0
    <3>1. job' = [job EXCEPT !.lost = lost]
      BY <2>5
    <3> HIDE DEF lost
    <3>2. /\ job'.state = "running" /\ job'.choice = job.choice /\ job'.completed = job.completed
          /\ job'.lost = lost /\ job'.spent = job.spent
      BY <2>1, <3>1 DEF JobSet
    <3>3. Keeps' = Keeps
      BY <3>2 DEF Keeps
    <3>4. QED
      BY <2>1, <2>2, <3>2, <3>3 DEF PaidFits, PauseStep, lost
  <2>6. QED
    <3>1. CASE Keeps /\ now.kept = kept
      BY <1>2, <2>4, <3>1 DEF Read
    <3>2. CASE Keeps /\ now.kept # kept
      BY <1>2, <2>5, <3>2 DEF Read
    <3>3. CASE ~Keeps
      BY <1>2, <2>4, <3>3 DEF Read, store
    <3>4. QED
      BY <3>1, <3>2, <3>3
<1>3. QED
  BY <1>1, <1>2

LEMMA RunningOn ==
  ASSUME WInv, PaidFits, Running, kept' = kept, UNCHANGED <<material, portions, job>>,
         run'.items \in {<<>>, run.items}, run.at # "keep", run'.at = "open" => run.at = "open"
  PROVE  PaidFits' /\ PauseStep
<1>1. Pending /\ job'.state # "paused"
  BY DEF Running, Pending
<1>2. job'.completed \/ run'.at = "open" => job'.spent > 0
  BY DEF PaidFits
<1>3. QED
  BY <1>1, <1>2, PaidStays

LEMMA ReusePaid == ASSUME WInv, PaidFits, Reuse PROVE PaidFits' /\ PauseStep
<1>1. Running /\ UNCHANGED <<material, portions>> /\ run.at = "look" /\ run.stage = "write"
  BY DEF Reuse, WInv, RunFits
<1>2. PICK k \in Reusable, calls \in 0 .. MaxCalls :
        IF run.answers = MaxAnswers THEN Fail(0) /\ UNCHANGED store
        ELSE IF Repeats(k.answer) THEN Fail(0) /\ Discard
        ELSE run' = Took(k.answer, 1, calls) /\ UNCHANGED <<store, job>>
  BY DEF Reuse
<1>3. CASE Fail(0)
  BY <1>3, FailPaid DEF WInv
<1>4. CASE run' = Took(k.answer, 1, calls) /\ UNCHANGED <<store, job>>
  <2>1. k.answer \in AnswerSet /\ k.answer.text = run.text /\ calls \in Nat
    BY SizesNat DEF Reusable, CanPut, WInv, Types, KeptFits, KeptSet
  <2>2. TakenFits(run')
    BY <1>1, <1>4, <2>1, TookFits DEF WInv
  <2>3. QED
    BY <1>1, <1>4, <2>2, RunningOn DEF TakenFits, store
<1>5. QED
  BY <1>2, <1>3, <1>4

LEMMA LookPaid == ASSUME WInv, PaidFits, Look PROVE PaidFits' /\ PauseStep
<1>1. CASE Fail(0)
  BY <1>1, FailPaid DEF WInv
<1>2. CASE run' = [run EXCEPT !.at = "ask", !.answers = @ + 1] /\ UNCHANGED job
  <2>1. run'.at = "ask" /\ run'.items = run.items
    BY <1>2 DEF WInv, Types, Runs
  <2>2. QED
    BY <1>2, <2>1, RunningOn DEF Look, store
<1>3. QED
  BY <1>1, <1>2 DEF Look

LEMMA AskPaid == ASSUME WInv, PaidFits, Ask PROVE PaidFits' /\ PauseStep
<1>1. UNCHANGED <<material, store, wiki, portions>> /\ run.at = "ask" /\ Pending
  BY DEF Ask, Running, Pending
<1>2. CASE OutOfBudget
  BY <1>1, <1>2, PausePaid
<1>3. CASE job' = [job EXCEPT !.spent = @ + 1] /\ run' = [run EXCEPT !.at = "open"]
  <2>1. run'.items = run.items
    BY <1>3 DEF WInv, Types, Runs
  <2>2. /\ job'.state = job.state /\ job'.choice = job.choice /\ job'.completed = job.completed
        /\ job'.lost = job.lost /\ job'.spent > 0
    BY <1>3 DEF WInv, Types, JobSet
  <2>3. job'.state # "paused"
    BY <1>1, <2>2 DEF Pending
  <2>4. QED
    BY <1>1, <2>1, <2>2, <2>3, PaidStays DEF store
<1>4. QED
  BY <1>2, <1>3 DEF Ask

\* An answer of this portion is put.
LEMMA PutPaid ==
  ASSUME WInv, PaidFits, Running, job' = job, UNCHANGED <<material, portions>>,
         NEW items, NEW more, (IF Keeps THEN Put(Answer(items, more)) ELSE UNCHANGED store),
         run'.at = "open" => run.at = "open"
  PROVE  PaidFits' /\ PauseStep
<1>1. Keeps' = Keeps /\ job'.state # "paused" /\ Pending /\ Pending'
  BY DEF Keeps, Running, Pending
<1>2. ASSUME Keeps
      PROVE  Paid'
  <2>1. Kept(Answer(items, more)) \in kept'
    BY <1>2 DEF Put
  <2>2. Kept(Answer(items, more)).answer.portion = portions'
    BY DEF Kept, Answer
  <2>3. QED
    BY <2>1, <2>2 DEF Paid
<1>3. QED
  BY <1>1, <1>2 DEF PaidFits, PauseStep

LEMMA ItemPaid == ASSUME WInv, PaidFits, NEW n \in 1 .. MaxItems, Item(n) PROVE PaidFits' /\ PauseStep
<1> DEFINE items == Append(run.items, n)
<1>1. UNCHANGED <<material, wiki, portions>> /\ Running /\ run.at = "open"
  BY DEF Item, Streaming
<1>2. CASE OutOfBudget /\ UNCHANGED store
  BY <1>1, <1>2, PausePaid
<1>3. CASE EndJob(Charged(1), "failed", 0)
  <2>1. Charged(1) \in JobSet /\ (Charged(1).completed => Charged(1).spent > 0)
    BY ChargedPaid DEF WInv
  <2>2. QED
    BY <1>3, <2>1, EndPaid
<1>4. CASE (IF Keeps THEN Put(Answer(items, TRUE)) ELSE UNCHANGED store) /\ UNCHANGED job
  BY <1>1, <1>4, PutPaid
<1>5. QED
  BY <1>2, <1>3, <1>4 DEF Item

LEMMA CirclesPaid == ASSUME WInv, PaidFits, Circles PROVE PaidFits' /\ PauseStep
<1>1. Charged(1) \in JobSet /\ (Charged(1).completed => Charged(1).spent > 0)
  BY ChargedPaid DEF WInv
<1>2. QED
  BY <1>1, EndPaid DEF Circles

LEMMA TakePaid ==
  ASSUME WInv, PaidFits, Running, NEW more, NEW charged \in JobSet,
         charged.state = job.state, charged.choice = job.choice, charged.lost = job.lost,
         charged.completed => charged.spent > 0,
         NEW failures, Take(Answer(run.items, more), charged, failures),
         UNCHANGED <<material, portions>>
  PROVE  PaidFits' /\ PauseStep
<1> DEFINE answer == Answer(run.items, more)
<1>1. CASE Repeats(answer)
  <2>1. EndJob(charged, "failed", Told(TakenItems))
    BY <1>1 DEF Take
  <2>2. QED
    BY <2>1, EndPaid
<1>2. CASE ~Repeats(answer)
  <2>1. /\ run' = [run EXCEPT !.at = "keep", !.more = answer.more, !.failures = failures, !.unsent = 0]
        /\ job' = charged /\ kept' = kept
    BY <1>2 DEF Take, store
  <2>2. run'.at = "keep" /\ run'.items = run.items
    BY <2>1 DEF WInv, Types, Runs
  <2>3. Keeps' = Keeps /\ Pending' = Pending /\ job'.state = "running"
    BY <2>1 DEF Keeps, Pending, Running
  <2>4. QED
    BY <2>1, <2>2, <2>3 DEF PaidFits, PauseStep, Paid
<1>3. QED
  BY <1>1, <1>2

LEMMA AnsweredPaid ==
  ASSUME WInv, PaidFits, NEW more \in BOOLEAN, Answered(more) PROVE PaidFits' /\ PauseStep
<1>1. /\ Completed \in JobSet /\ Completed.spent > 0 /\ Completed.lost = job.lost
      /\ Completed.state = job.state /\ Completed.choice = job.choice
  BY ChargedPaid DEF WInv, Answered, Streaming
<1>2. /\ Take(Answer(run.items, more), Completed, 0) /\ Running /\ UNCHANGED <<material, portions>>
  BY DEF Answered, Streaming
<1>3. QED
  BY <1>1, <1>2, TakePaid

LEMMA MalformedPaid == ASSUME WInv, PaidFits, Malformed PROVE PaidFits' /\ PauseStep
<1> DEFINE paid == [Completed EXCEPT !.lost = TRUE]
<1>1. paid \in JobSet /\ paid.lost /\ paid.spent > 0 /\ paid.state = "running"
  <2>1. Completed \in JobSet /\ Completed.spent > 0 /\ Completed.state = "running"
    BY ChargedPaid DEF WInv, Malformed, Streaming, Running
  <2>2. QED
    BY <2>1 DEF JobSet
<1>2. CASE EndJob(paid, "failed", Told(TakenItems + run.saved)) \/ EndJob(paid, "failed", 0)
  <2> HIDE DEF paid
  <2>1. QED
    BY <1>1, <1>2, EndPaid
<1>3. CASE job' = paid
  <2> HIDE DEF paid
  <2>1. QED
    BY <1>1, <1>3, LostPaid
<1>4. QED
  BY <1>2, <1>3 DEF Malformed

LEMMA BreaksPaid == ASSUME WInv, PaidFits, Breaks PROVE PaidFits' /\ PauseStep
<1>1. Running /\ run.at = "open" /\ UNCHANGED <<material, portions>>
  BY DEF Breaks
<1>2. /\ Charged(0) \in JobSet
      /\ Charged(0).completed => Charged(0).spent > 0
      /\ Charged(0).state = job.state /\ Charged(0).choice = job.choice /\ Charged(0).lost = job.lost
  BY ChargedPaid DEF WInv
<1>3. CASE EndJob(Charged(0), "failed", Told(TakenItems + Len(run.items)))
  BY <1>2, <1>3, EndPaid DEF WInv
<1>4. CASE Take(Answer(run.items, TRUE), Charged(0), 1)
  <2> DEFINE charged == Charged(0)
  <2>1. /\ Take(Answer(run.items, TRUE), charged, 1) /\ charged \in JobSet
        /\ charged.completed => charged.spent > 0
        /\ charged.state = job.state /\ charged.choice = job.choice /\ charged.lost = job.lost
    BY <1>2, <1>4, ChargedPaid DEF WInv
  <2> HIDE DEF charged
  <2>2. QED
    BY <1>1, <2>1, TakePaid
<1>5. CASE run' = [run EXCEPT !.at = "ask", !.failures = 1] /\ UNCHANGED <<store, job>>
  <2>1. run'.at = "ask" /\ run'.items = run.items
    BY <1>5 DEF WInv, Types, Runs
  <2>2. QED
    BY <1>1, <1>5, <2>1, RunningOn DEF store
<1>6. QED
  BY <1>3, <1>4, <1>5 DEF Breaks

LEMMA BusyPaid == ASSUME WInv, PaidFits, Busy PROVE PaidFits' /\ PauseStep
<1>1. CASE Fail(0)
  BY <1>1, FailPaid DEF WInv
<1>2. CASE run' = [run EXCEPT !.at = "ask", !.unsent = @ + 1] /\ UNCHANGED job
  <2>1. run'.at = "ask" /\ run'.items = run.items
    BY <1>2 DEF WInv, Types, Runs
  <2>2. QED
    BY <1>2, <2>1, RunningOn DEF Busy, store
<1>3. QED
  BY <1>1, <1>2 DEF Busy

LEMMA EndsPaid == ASSUME WInv, PaidFits, Refused \/ NothingPasses PROVE PaidFits' /\ PauseStep
  BY FailPaid DEF Refused, NothingPasses, WInv

LEMMA KeepPaid == ASSUME WInv, PaidFits, Keep PROVE PaidFits' /\ PauseStep
<1> DEFINE answer == Answer(run.items, run.more)
<1>1. Running /\ UNCHANGED <<material, portions>> /\ run.at = "keep" /\ run.stage = "write"
  BY DEF Keep, WInv, RunFits
<1>2. CASE Fail(0)
  BY <1>2, FailPaid DEF WInv
<1>3. CASE \E calls \in 0 .. MaxCalls :
             /\ run' = [Took(answer, 0, calls) EXCEPT !.changed = Keeps]
             /\ IF Keeps THEN Put(answer) ELSE UNCHANGED store
             /\ UNCHANGED job
  <2>1. PICK calls \in 0 .. MaxCalls : /\ run' = [Took(answer, 0, calls) EXCEPT !.changed = Keeps]
                                       /\ IF Keeps THEN Put(answer) ELSE UNCHANGED store
                                       /\ UNCHANGED job
    BY <1>3
  <2> DEFINE took == Took(answer, 0, calls)
             named == Keeps
  <2>2. took \in Runs /\ took.at \in {"look", "ask"}
    <3>1. run.items \in Seq(Nat) /\ run.more \in BOOLEAN /\ calls \in Nat
      BY SizesNat DEF WInv, Types, Runs
    <3>2. answer \in AnswerSet /\ answer.text = run.text
      BY <3>1, AnswerTyped DEF WInv
    <3>3. TakenFits(took)
      BY <1>1, <3>1, <3>2, TookFits DEF WInv
    <3>4. QED
      BY <3>3 DEF TakenFits
  <2>3. run'.at # "open"
    <3>1. run' = [took EXCEPT !.changed = named]
      BY <2>1
    <3> HIDE DEF took, named
    <3>2. QED
      BY <2>2, <3>1 DEF Runs
  <2>4. QED
    BY <1>1, <2>1, <2>3, PutPaid
<1>4. QED
  BY <1>2, <1>3 DEF Keep

LEMMA PlainAnsweredPaid == ASSUME WInv, PaidFits, PlainAnswered PROVE PaidFits' /\ PauseStep
<1>1. Completed \in JobSet /\ Completed.spent > 0 /\ Completed.state = "running"
  BY ChargedPaid DEF WInv, PlainAnswered, Running
<1>2. job' = [Completed EXCEPT !.lost = TRUE]
  BY DEF PlainAnswered
<1>3. job'.lost /\ job'.spent > 0 /\ job'.state = "running"
  BY <1>1, <1>2 DEF JobSet
<1>4. QED
  BY <1>3, LostPaid

LEMMA SavePaid == ASSUME WInv, PaidFits, Save PROVE PaidFits' /\ PauseStep
<1>1. CASE Fail(0)
  BY <1>1, FailPaid DEF WInv
<1>2. CASE run' = [run EXCEPT !.stage = "saved", !.at = "none"] /\ UNCHANGED job
  <2>1. run'.at = "none" /\ run'.items = run.items /\ run.at # "keep"
    BY <1>2 DEF Save, WInv, Types, Runs, RunFits
  <2>2. QED
    BY <1>2, <2>1, RunningOn DEF Save, store
<1>3. QED
  BY <1>1, <1>2 DEF Save

LEMMA FinishPaid == ASSUME WInv, PaidFits, Finish PROVE PaidFits' /\ PauseStep
<1>1. EndJob(job, "done", 0) /\ job \in JobSet /\ (job.completed => job.spent > 0)
  BY DEF Finish, WInv, Types, PaidFits
<1>2. QED
  BY <1>1, EndPaid

LEMMA StopPaid == ASSUME WInv, PaidFits, Stop PROVE PaidFits' /\ PauseStep
<1>1. Charged(0) \in JobSet /\ (Charged(0).completed => Charged(0).spent > 0)
  BY ChargedPaid DEF WInv
<1>2. QED
  BY <1>1, EndPaid DEF Stop

LEMMA PutBackPaid ==
  ASSUME WInv, PaidFits, Running, NEW charged \in JobSet, PutBack(charged),
         charged.completed = job.completed, charged.lost = job.lost, charged.choice = job.choice,
         charged.completed => charged.spent > 0
  PROVE  PaidFits' /\ PauseStep
<1> DEFINE lost == charged.lost \/ run.at = "keep"
           back == [charged EXCEPT !.lost = lost]
<1>1. /\ back \in JobSet /\ back.completed = job.completed /\ back.lost = lost /\ back.choice = job.choice
      /\ back.spent = charged.spent
  <2>1. lost \in BOOLEAN
    OBVIOUS
  <2> HIDE DEF lost
  <2>2. QED
    BY <2>1 DEF JobSet
<1>2. EndJob(back, "queued", 0) /\ kept' = kept /\ material' = material /\ portions' = portions
  BY DEF PutBack, store
<1> HIDE DEF back
<1>3. /\ job'.state = "queued" /\ job'.completed = job.completed /\ job'.lost = lost
      /\ job'.choice = job.choice /\ job'.spent = charged.spent
  BY <1>1, <1>2 DEF EndJob, JobSet
<1>4. run'.at = "none" /\ run'.items = <<>>
  BY <1>2 DEF EndJob, NoRun
<1>5. Keeps' = Keeps /\ Pending /\ Paid' = Paid
  BY <1>2, <1>3 DEF Keeps, Running, Pending, Paid
<1>6. QED
  BY <1>2, <1>3, <1>4, <1>5 DEF PaidFits, PauseStep

LEMMA ClosePaid == ASSUME WInv, PaidFits, Close \/ Crash PROVE PaidFits' /\ PauseStep
<1>1. CASE Close
  <2> DEFINE charged == Charged(0)
  <2>1. /\ Running /\ PutBack(charged) /\ charged \in JobSet
        /\ charged.completed = job.completed /\ charged.lost = job.lost /\ charged.choice = job.choice
        /\ charged.completed => charged.spent > 0
    BY <1>1, ChargedPaid DEF Close, WInv
  <2> HIDE DEF charged
  <2>2. QED
    BY <2>1, PutBackPaid
<1>2. CASE Crash
  <2>1. Running /\ PutBack(job) /\ job \in JobSet /\ (job.completed => job.spent > 0)
    BY <1>2 DEF Crash, WInv, Types, PaidFits
  <2>2. QED
    BY <2>1, PutBackPaid
<1>3. QED
  BY <1>1, <1>2

LEMMA MaterialPaid == ASSUME WInv, PaidFits, Edit \/ AskDelete \/ Delete PROVE PaidFits' /\ PauseStep
<1>1. job' = job /\ run' = run /\ portions' = portions
  BY DEF Edit, AskDelete, Delete
<1>2. PauseStep /\ Keeps' = Keeps /\ Pending' = Pending
  BY <1>1 DEF PauseStep, Running, Keeps, Pending
<1>3. CASE Edit \/ AskDelete
  <2>1. kept' = kept /\ material.at # "gone"
    BY <1>3 DEF Edit, AskDelete, store
  <2>2. QED
    BY <1>1, <1>2, <2>1 DEF PaidFits, Paid
<1>4. CASE Delete
  <2>1. material'.at = "gone"
    BY <1>4 DEF Delete, WInv, Types
  <2>2. QED
    BY <1>1, <1>2, <2>1 DEF PaidFits
<1>5. QED
  BY <1>3, <1>4

LEMMA NextPaid == WInv /\ KInv /\ PaidFits /\ [Next]_runVars => PaidFits' /\ [PauseStep]_runVars
<1> SUFFICES ASSUME WInv, KInv, PaidFits, [Next]_runVars
             PROVE  PaidFits' /\ [PauseStep]_runVars
  OBVIOUS
<1>1. CASE UNCHANGED runVars
  BY <1>1 DEF runVars, store, PaidFits, Paid, Keeps, Pending
<1>2. CASE (\E c \in Choices : Add(c)) \/ Begin \/ Read
  BY <1>2, AddPaid, BeginPaid, ReadPaid
<1>3. CASE Reuse \/ Look \/ Ask \/ (\E n \in 1 .. MaxItems : Item(n)) \/ Circles
  BY <1>3, ReusePaid, LookPaid, AskPaid, ItemPaid, CirclesPaid
<1>4. CASE (\E more \in BOOLEAN : Answered(more)) \/ Malformed \/ Breaks \/ Busy \/ Refused \/ Keep
           \/ NothingPasses
  BY <1>4, AnsweredPaid, MalformedPaid, BreaksPaid, BusyPaid, EndsPaid, KeepPaid
<1>5. CASE PlainAnswered \/ Save \/ Finish
  BY <1>5, PlainAnsweredPaid, SavePaid, FinishPaid
<1>6. CASE Stop \/ Close \/ Crash \/ Edit \/ AskDelete \/ Delete
  BY <1>6, StopPaid, ClosePaid, MaterialPaid
<1>7. QED
  BY <1>1, <1>2, <1>3, <1>4, <1>5, <1>6 DEF Next

\* A pause moves the material forward: unless some answer the portion paid for is kept nowhere,
\* one of its answers is in the rows when the job pauses (runner.py, _budget; budget.py).
THEOREM PausesMoveOnHolds == Spec => PausesMoveOn
<1>1. RunInit => KInv
  BY InitKInv
<1>2. WInv /\ KInv /\ [Next]_runVars => KInv'
  BY NextKInv
<1>3. RunInit => PaidFits
  BY InitPaid
<1>4. WInv /\ KInv /\ PaidFits /\ [Next]_runVars => PaidFits' /\ [PauseStep]_runVars
  BY NextPaid
<1>5. QED
  BY <1>1, <1>2, <1>3, <1>4, WInvAlways, PTL DEF Spec, PausesMoveOn, PauseStep
=============================================================================
