# A TLA+ model of SKAZ

SKAZ is a desktop application: an Electron shell (`src/electron`), a React window (`src/frontend`) and a
Python backend (`src/backend/src/skaz`) that records and transcribes speech, keeps a library of materials,
builds a wiki from them with the help of agents (Codex, Claude Code, Hermes, OpenCode), and answers questions
in chats. The backend is one asyncio process over one SQLite database; most of its core logic is in
`skaz/knowledge`. Paths below are relative to `src/backend/src/skaz/knowledge` unless they begin otherwise.

This directory models the parts of that core where concurrent actors meet, model-checks them with TLC and
proves their safety properties with TLAPS.

## The modules

| Module | Code | What it is |
|---|---|---|
| `KeyedThreadLocks` | `keyed_locks.py` | locks by id among threads |
| `StudyBlock` | `study/service.py`, over `KeyedThreadLocks` | the calls that change a deck or a test at once |
| `TestBook` | — | what a test promises about its attempts; `StudyBlock` implements it |
| `IngestQueue` | `ingest/service.py`, `ingest/jobs.py`, `ingest/runner.py` | the queue of wiki jobs |
| `JobLifecycle` | — | what the queue promises about its jobs; `IngestQueue` implements it |
| `WikiRun` | `ingest/runner.py`, `checkpoints.py`, `execution.py`, `budget.py` | one material's run: what it asks, keeps and pays |
| `UpdateGate` | `agents/update_gate.py`, `agents/updates.py` | work of an agent against updates of it |
| `UpdateExclusion` | — | what the gate promises; `UpdateGate` implements it |
| `WikiPermissions` | `permissions/broker.py`, `store.py`, `waits.py`, `wiki_tools.py` | an agent's change of the wiki waits for the user |
| `ChatAnswers` | `chats/service.py`, `permissions/questions.py` | the answers of a chat and what their agents ask the user |
| `ChatThread` | — | what a chat promises about its answers; `ChatAnswers` implements it |
| `LiveRecording` | window: `audio/`, `kb/recording/`; `src/electron/nativeLive.ts`; backend: `live_store.py`, `routes/live.py` | the sound of a recording on its way to the backend |
| `QuitGuard` | `src/electron/quitController.ts`, `kb/recording/recordingStore.ts`, over `LiveRecording` | a quit while there is a recording |
| `AudioLog` | — | what the way of the sound promises; `QuitGuard` implements it |
| `MC…` | — | instances for TLC: the sets and functions the configurations name |
| `…Proofs` | — | inductive invariants and theorems about the module of that name |

`StudyBlock` is composed with the locks it takes, `QuitGuard` with the recording it waits for, and `ChatAnswers`
holds the chat service and the question broker, which call each other. The others meet through values that each
module names: `WikiRun` has a Stop, a close or a crash between any two steps of a run, which is what `IngestQueue`
lets happen to it.

### How a step is chosen

The backend's tasks share one event loop, so one action is the stretch of one task between two awaits, with
every state change, guard and early return of that stretch. `disk_call(f)` runs `f` in a worker thread: the
thread commits (one step; one `db.write()` block is one transaction) and the task resumes later (another step),
and anybody may act in between. Cancelling a task that awaits a `disk_call` does not stop its thread
(`native_io.disk_call` waits for it before it raises), so the commit happens and the code after the await does
not. A `CancelledError` on its way to a task is a value `kill` of its state. Worker threads (`KeyedThreadLocks`,
`StudyBlock`) take steps of their own, atomic only under a lock; each read and each write of rows is one step.
In the window one action is what runs until the next `await`; messages between window, main process and backend
are single places (`hello`, `inbox`, `reply`) because each side sends one message and waits.

## Inventory

Per component: the state it keeps, its operations, whom it talks to, what is hard about it, and what makes it
correct. `PROJECT.json` lists the same components with their status, and the hazards at their lines.

**Locks by id** (`keyed_locks.py`) — a dictionary id → lock and count of users. `hold(id)` registers, waits,
leaves. Used by study, sources and speech from worker threads. `KeyedLocks`, the same for tasks of the event loop, is a
dictionary of `asyncio.Lock`s with a count that no await separates from it; it has no module of its own. Hard: an entry dropped while somebody between
release and leave still counts on it. Correct: one holder per id, the entry lives exactly as long as its users.

**Study** (`study/`) — rows of blocks (state as JSON), attempts, cards; checks of open answers by an agent.
Answer, count an idea, See result, Retake, grade, mark, Save, check, recheck. Every call reads all of a row, changes it
and writes all of it, in a thread, under the block's lock. Hard: a review that comes after the attempt has moved on,
Save twice, calls that take no lock. Correct: nothing given is lost, one page per deck, old attempts stay.

**Ingest queue** (`ingest/service.py`, `jobs.py`) — rows of `jobs`, `_active` (entries with or
without a task), `_telling`, `_pump_task` and `_pump_again`, `_closing`. Request, pump and claim, run, Stop,
close, restart. Called by HTTP, sources, corrections; tells listeners that start wiki follow-ups; calls the
engine of an agent. Hard: everything awaits between a check and its use. Correct: one pending job per material,
no more tasks than slots, no lost kick, a stopped job saved nothing, a crash loses no job.

**Wiki run** (`ingest/runner.py`, `checkpoints.py`, `budget.py`, `execution.py`, `writer.py`) — kept answers of a
material by step, who finished it, counters of an execution root. Read, ask, keep, repair, retry, pause, write. Called by
the queue; calls agents through `run_wiki_turn`. Hard: stop, retry, another choice of model, an edited text and a deletion
in every order; money spent on work that is not kept. Correct: answers about one text, and what a job says is
kept is kept.

**Agent update gate** (`agents/update_gate.py`, `updates.py`) — counts of work per agent, blocked agents, an
event that is replaced at each signal; `_runs` of updates. Guard and hold, exclusive, Update, Roll back, cancel.
Used by every engine run, installs (`install/tasks.py`). Hard: work inside work of the same agent, waiters that
are stopped or cancelled, signals. Correct: an update is alone with its agent, nobody waits for ever.

**Wiki permissions** (`permissions/`) — rows of `permission_requests` and grants, `_futures`, open waits of
a run, files of the wiki. A tool plans a change, asks, applies it, keeps what was there; the user allows, denies,
undoes; Stop and the end of an answer cancel. Talks to chats (cancel_run), the tool server (a call abandoned),
engines (deadlines that stand still). Hard: two clicks, click against Stop, the page changed while a card waits,
a call cancelled while a thread writes. Correct: nothing is changed without leave, the agent hears what the row
says, the user's words stay.

**Chat answers** (`chats/service.py`) — `_reserved`, `_runs`, messages. Send, ask again, resume, edit, Stop,
delete, change a part of an answer, close. Hard: `_reserve` and the start of a run are awaits apart; the end of a run
races close, delete, a changed part and a message sent into it. Correct: one answer at a time, none left streaming,
no change lost, every request returns.

**Questions to the user** (`permissions/questions.py`) — rows of `agent_questions`, `_futures`. Ask, pick an option, pick it
late (it becomes a message), own words (the question is superseded), cancel. Hard: two ways to settle one question.
Correct: the agent hears what the row says.

**Web search consent** (`permissions/web_search.py`, …) — the same shape, with limits of its own. *Planned.*

**Live recording** (window: `src/frontend/src/audio/persistenceQueue.ts`, `nativeWriter.ts`, `kb/recording/`; main:
`src/electron/nativeLive.ts`; backend: `routes/live.py`, `live_store.py`, `native_*.py` of `skaz`) — a bounded queue
of windows with retries, a connection, the transport clock and the audio rows; behind it a recogniser with a replay
buffer. Hard: lost acknowledgements, stale messages, a full queue, a stop whose sound cannot be saved. Correct: the
saved sound is the recorded one without holes. The recogniser side is *planned*.

**Quit and shutdown** (`src/electron/quitController.ts`, `rendererSaveBarrier.ts`, `backend.ts`; `shutdown.py`) — phases of
quitting, the deadline of closing services, child processes. Hard: quit asked for while a stop is saving. Correct: no
quit over unsaved sound without a question. The backend's shutdown is *planned*.

**Wiki pages and follow-up jobs** (`wiki/`) — pages, links, jobs of overviews and connections, the watcher. *Planned.*

**File imports** (`import_service.py`, `import_store.py` of `skaz`) — admissions, tasks, records of remote jobs.
Hard: admissions that await, cancel against completion, resume. *Planned.*

**Agents' adapters, tool server, recognition gateways, sources intake, speech, local decisions** — clients and
servers of external programs. They appear in the models as external events (an engine's answer or interrupt, a
call abandoned by its client); their protocols are I/O.

**Installing agents** (`install/`) — appears in `UpdateGate` as one visit; steps and cancel planned with it.

**Library and search, corrections, profile, notifications, settings, skills, chat content, answer blocks, markdown, HTTP,
store, window, shell** — single transactions, text and presentation; no interleaving worth a model was found.

## Module by module

### KeyedThreadLocks, StudyBlock and TestBook

`Register`, `Acquire`, `TimeOut`, `Release`, `Leave` are the steps of `hold()`; `entry[k]` is the dictionary's
entry with its count, `owner` what the lock objects say. Lock objects are drawn from a finite set, in the run exactly as
many as can be referenced at once.

A call of a block (`job[t]`, how far it is `step[t]`, what it has read `saw[t]`) holds `Block`, a key of the locks. The other
keys are the other users of the same class, one of which may time out.

| Action | Code (`study/service.py`) |
|---|---|
| `AnswerClosed`, `CountIdea`, `Finish`, `Retake`, `Study`, `Save` | a call of the user enters a worker thread and asks for the lock |
| `Look`, `Clear`, `Put`, `WritePage`, `PutCards`, `Show`, `Free`, `Return` | the reads and writes of a call, in the order of its function; `Refused` is its early returns |
| `CheckOpen`, `Hand`, `Said`, `Judged`, `RecheckIdea` | `check_open` and `recheck_idea` on the event loop, and the writes they hand to threads |
| `MarkOnPage`, `MarkPut` | a mark on the deck's page, which takes no lock |
| `Take`, `Other` | acquiring, and the other users of the locks |

A card's state is the set of the calls it has taken in (the schedule itself is data); an open question has one key idea.
`TestBook` says of the attempts alone: a change is to one answer of the current attempt and was made for it, a finished
attempt's total follows its answers, an earlier attempt never changes. `BookKept` is the refinement.

### IngestQueue and JobLifecycle

A job stands for a request about a material and the row it creates. `asking` is where `request_ingest` is
(`reserved` → `clear` → `created`: before, between and after its disk reads), `db` and `order` are the table, `at`
is where `_execute` is, `pump` the pump task and what it read before its await, `stopper` a call of `cancel()`,
`closer` the call of `close()`.

| Action | Code |
|---|---|
| `Request`, `CheckPending`, `Create`, `Created` | `request_ingest` between its awaits |
| `PumpFirst`, `PumpSlots`, `PumpClaim`, `PumpStart`, `PumpDone` | `_pump` and `_start_queued`; `Kick` is the last conjunct of everything that kicks |
| `Begin`, `Prepare`, `WorkLocally`, `Answer`, `Matched`, `Save`, `WritePages`, `Built` | a run; its several model calls are represented by the last one |
| `Unwind`, `End`, `Leave`, `Tell` | the except clauses and the finally block of `_execute` |
| `StopRead`, `StopSwap`, `StopLook`, `StopInterrupted` | `cancel()` |
| `Close`, `CloseInterrupted` | `close()`; it cancels the pump in the step that sets `_closing`, so the branch of `_start_queued` that requeues a claimed job is never taken and is not modelled |
| `Restart` | a crash or the end of the process, and `interrupt_running` at the next start |

`JobLifecycle` says of the table alone: a job is queued when its material has none pending, started when it is the
oldest and a slot is free, finished once, and goes back only from running. `LifecycleKept` is the refinement
(`state <- db`, and `Fitting` the sets of jobs that fit the slots).

### WikiRun

`row` and `kept` are the two tables of checkpoints: the text they belong to, who finished it, and an answer per
step. A step's key is a hash of the conversation so far, so `kept` has the operation and the answers `after` which one was
given. An answer is the sequence of its items (numbers) and whether more will come; it remembers the choice that wrote it (the
column `profile`) and, as history the code does not keep, its text and the portion of the budget that paid it. `run` is `IngestRun` with the
`_Operation` and `_Live` of the step it is at; `job` the row of the job with the totals of its execution root.

| Action | Code |
|---|---|
| `Add` | Add, Retry or Continue: a new job, its own root with a new portion |
| `Begin`, `Read` | `execute()` up to the checkpoints; `Prepared` is `Checkpoints.prepare` |
| `Reuse`, `Look` | `_answers` finds the step in the checkpoints, or asks |
| `Ask`, `Item`, `Circles`, `Answered`, `Malformed`, `Keep` | a streamed answer: `run_wiki_turn`, `_Live.feed`, `RepeatGuard`, the repair, and `put` after the consumer's checks; `OutOfBudget` is `_budget` |
| `Breaks`, `Busy`, `Refused` | the failures `_ask` tells apart |
| `PlainAnswered` | an answer of the recognition check or of the matching |
| `NothingPasses`, `Save`, `Finish` | the end of `execute()`: `clear`, `WikiWriter.write`, `finished` |
| `Stop`, `Close`, `Crash` | what the queue does to a run |
| `Edit`, `AskDelete`, `Delete` | the material changes, or goes (`wiki/service.py`: the check and the deletion are apart) |

### UpdateGate and UpdateExclusion

A *work* is a run of an engine (`guard`) or a whole job that holds its agent (`holding`: a wiki build, a search).
`Outer` says inside which works it is started, `Remote` which of them start by a call over HTTP, whose task does
not inherit the context variable `_HELD`. Whoever waits is in `Sleepers` and goes on only after a `Signal`. An
update is `begun` (task created, no first step), `waiting`, `installing`, `after`, `settling`; `HandInstall` stands
for install, update and repair by the user and for the first check. `Abandon` is a nested call cancelled at its
deadline. `UpdateExclusion` speaks only of the works that are in and the agents under update.

### WikiPermissions

A request is one call of a wiki tool: `idle → planning → adding → added → waiting → applying → applied →
settling → over`, with `failed`, `refusing` on the way out, `dropped` for a call that was cancelled, `lost` at a
restart. `row`, `auto`, `undoable`, `before` are its row; `future` its entry in `_futures`; `page` records whose
change a page holds and whether the user wrote into it (`Note`). A click goes `asked` (row read) → `deciding`
(compare-and-set under way) → `granting` → `telling`; `cancel[u]["stop"]` and `["finish"]` are the two
`cancel_run` calls an answer makes. Kind `edit` stands for edit and rename (grantable for a chat),
`delete` is always asked for; a creation, whose page nobody knows before, is left out. `Plan` merges the planner's read with
the lookup of the grant.

### ChatAnswers and ChatThread

Requests of the user (`req`), answers with their run (`run`, `runs` is `_runs`), questions (`asked` the row, `future` what the
agent waits on). A `CancelledError` under way is `kill`, the flags of `_Run` are `stopping`, `closing`, `deleted`; `cut` says that an
exception has left the save at the end of a run. `PartsFree` is the lock of a message's parts, a `KeyedLocks`.

| Action | Code |
|---|---|
| `Send`, `Looked`, `AskAgain`, `Insert`, `Refused`, `Start` | `send`, `regenerate`, `resume`, `edit`: look for a waiting question, `_reserve`, the transaction, `_start`, and what gives the reservation back |
| `Ask`, `AskAdded`, `AskDropped` | `QuestionBroker.ask`, and a call its agent drops |
| `Pick`, `Picked`, `PickTold`, `PickFails`, `LateAnswered` | `answer`, while somebody waits (compare-and-set, then the future, or the error of a future that is done) and afterwards (a message, then the row) |
| `Words`, `SupersedeReads`, `Supersede`, `SupersedeTold` | `_answer_question` and `supersede` |
| `TurnEnds`, `FinishCancels`, `FinishTells`, `FinishLogs`, `FinishReads`, `FinishSaves`, `FinishEnds` | the end of `_drive` and `_finish`: its reads, its save, and the second save of a part changed during the first |
| `KilledInTurn`, `KilledInFinish`, `KilledInReads`, `KilledInSave` | where the cancellation of a Stop or a close that ran out of time arrives |
| `SaveFails` | a disk error in the block of the save, which drops the run all the same |
| `Stop`, `Delete`, `StopCancels`, `StopTells`, `StopEnds`, `StopTimesOut`, `Remove` | `stop`, `delete` and `_stop_run` |
| `ChangePart`, `PartChanged`, `Checkpoint` | a part of an answer changed by an Undo or a saved card; what has streamed is saved now and then |
| `Close`, `CloseCancels`, `CloseTells`, `CloseEnds`, `CloseTimesOut`, `CloseSaves` | `close` and `_close_run` |
| `Restart` | a crash or the end of the process, and `interrupt_streaming` |

`ChatThread` says of the stored answers alone: one is written at a time, an ended one gives way only to a new answer or is taken
away; of the answer that SKAZ is closing (`closed`) the end being saved may be interrupted first and settle after. An answer given
up (`doomed`: its chat is being deleted, or its last save was cut off) does not count as being written. `ThreadKept` is the
refinement. `AgentHearsTheAnswer` is said of the row and the future of a question: the agent got what the row says
(`HeardIsShown`), an option shown as taken is the agent's unless it has dropped its call (`ShownIsHeard`), and an agent that waits has
a pending row or somebody about to tell it (`NobodyWaitsInVain`).

### LiveRecording, QuitGuard and AudioLog

Windows of sound are numbers, so that the transport clock in samples and the number of the next window are one counter.

| Action | Code |
|---|---|
| `Enqueue`, `Wake` | `persistenceQueue.ts`: the limit with its two protected places, refusal, the pause between attempts |
| `Reopen`, `Opened`, `Send`, `Recovered`, `Acknowledged` | `nativeWriter.ts`: one attempt, on a connection that may have to be opened again and then shows whether the last window had arrived |
| `Break`, `Closed` | `nativeLive.ts`: a time-out, a broken socket; the backend refuses or closes |
| `Hello`, `Accept`, `AppendAudio`, `End`, `StorageFails`, `Leave`, `Cleanup`, `Crash` | `routes/live.py` and `live_store.py`, and a backend that dies and starts again |
| `Stop`, `Flushed`, `RetryAtOnce`, `Keep`, `Finish`, `Ended`, `StopDone` | `capture.ts` and `recordingStore.ts`: stop, drain, one retry at once, keep what is left |
| `KeepSaving`, `Kept` | the retries in the background |
| `Ask`, `Retried`, `Waited`, `Answered`, `Late` (`QuitGuard`) | main asks the window, `prepareQuit` answers, main waits 30 seconds |

`AudioLog` says: the backend has the windows in order, each once; a refused window is followed only by refused ones.
`KeepsTheLog` is the refinement.

## Runs

| Run | Instance | Distinct states | Shows |
|---|---|---|---|
| `thread_locks` | 3 threads (2 run the block's calls), 2 ids, an open and a closed question, 2 cards, 3 calls of a deck or of a test, 2 attempts | 1.7 M | mutual exclusion; one page; a flag that says "checking" has a task; attempts and grades are kept |
| `ingest_queue` | 2 jobs of one material, 1 slot, Stop of one, close, 1 restart, fair | 166 K | slots; rows are owned; stopped means unsaved; nothing starts while closing; the lifecycle; no kick is lost; Stop ends |
| `ingest_close_while_saving` | 2 jobs, close | – | **violated**: finding 1 |
| `wiki_run` | 3 choices, one unnamed; 3 portions of 3 characters; 2 texts; 2 answers of at most 1 item per operation; a check and a matching of at most 1 call; 1 close or crash | 4.6 M | one text per page; a deleted material leaves nothing; when another choice starts over; what a job says is kept; a pause moves on |
| `update_gate` | two agents: a build with a call inside, an answer whose tool searches with the first agent; 1 update each, fair | 78 K | counts do not leak; a stopped run stays out; the exclusion; updates get their turn, waiting work goes on |
| `wiki_permissions` | an edit, 2 clicks, an Undo, the answer's end, a restart, fair | 145 K | the deadline; one verdict; refused is unwritten; an allowed call goes on; calls end with their answer |
| `wiki_permissions_undo` | two edits and a deletion, 2 clicks, 2 Undos | 1.3 M | only with leave; undone is gone; the user's words |
| `wiki_change_without_undo` | an edit and a deletion, 1 click, the answer's end | – | **violated**: finding 2 |
| `live_recording` | 1 window pending, 2 attempts, 1 retry, 4 windows, 2 faults, fair | 557 K | nothing is forgotten; saved means saved; the log; a stop returns |
| `quit_while_finishing` | the same, 2 windows | – | **violated**: finding 3 |
| `chat_answers` | 2 answers, 2 requests at once, 3 altogether, 1 question, close, 1 restart, fair | 568 K | one answer at a time; none left streaming; changes are kept; the agent hears the row; the thread; requests end |
| `chat_own_words` | the same without close and restart | – | **violated**: finding 4 |

**Bounds.** Two workers race for a block and a third thread for another id; three calls are one that loses what another
wrote and one that sees it; two attempts separate a late review from its own. The conflicts of the queue are between
two jobs of one material for one slot; one restart separates a life that left rows running from one that finds them. Three
portions of the budget are a run that finishes or stops, one of another choice, and one that finds what both left; two texts are the
one an answer was given for and the one it must not be used for. The gate's conflicts need two levels of nesting and, for a
cycle of waiting, two agents that call each other. Two clicks race each other; two Undos undo two changes of one page in either
order. Four windows with one pending are one stored, one lost, one protected and one refused; two faults are a failure
and another one during its recovery. Two answers with three requests are one that runs, one that follows, and a request
that meets both. `Stoppable`, `MayClose`, `MaxRestarts`, `MaxUpdates`, `Clicks`, `Undos`, `MayEnd`, `Windows`, `Faults`,
`MaxCalls`, `MaxAttempts`, `MaxRequests`, `MaxTexts`, `MaxPortions`, `MaxBreaks` are bounds of the environment and are named
so in the modules; the theorems hold for all of their values. Symmetry and views are used where values are interchangeable,
and never in a run with liveness.

**Deadlock** checking is off where everything may be finished and nothing is left to do: all runs but `update_gate`, whose
works can always go on.

**Fairness.** Weak fairness of each task that can go on is what the event loop and the thread pool give. Beyond
it: `Kill` of the calls of an answer that is gone (engines end their tools when a turn ends), and `Abandon` of
nested work in the gate (tools have deadlines). In `ChatAnswers` the agent owes nothing: a turn may last for ever, and Stop
has its time-out. One thing is assumed of the engine's adapter: `_stop_run` awaits `engine.interrupt` without a limit
(`chats/service.py:1497-1498`), which is no step of the model and returns. `close` is owed no fairness. In `QuitGuard` the processes of the window, the wire and the route go on; faults, new sound and
time-outs need not happen. Users and crashes have no fairness. An engine's run and an installation end because both have time
limits in the code.

**Mutants.** Each property has a mutant of one definition (a mutant may serve several properties), written before
the definition under a comment that begins with "Mutant": a dropped guard, a missing signal, a swap that does not compare. TLC
finds the property violated with it under the property's own configuration.

## Findings

1. `close()` looks at `run.writing`, awaits the engine's interrupt and cancels without looking again
   (`ingest/service.py:336-338`). A run that began saving meanwhile is cancelled after its write and queued again,
   while the module says that a job already saving finishes (`service.py:7-8`).
2. A tool call cancelled while its thread applies a change (`permissions/wiki_tools.py:260-267`) leaves a changed
   page whose row has no Undo snapshot, against `wiki_tools.py:17-18`.
3. `prepareQuit` looks for unsaved sound once and then waits for a recording that is finishing
   (`kb/recording/recordingStore.ts:526-541`). When that stop cannot save its sound, the answer is "saved" all the same and
   SKAZ quits over it, against `recordingStore.ts:220-221`.
4. The user's words to a waiting question are stored before the question is superseded (`chats/service.py:457`). If
   the question is settled in between, the message stands in the chat and nobody answers it, against
   `permissions/questions.py:6-7`.

Seen in the same state spaces, without a run of their own:

- `cancel()` of an update whose task has not run its first instruction (`agents/updates.py:454`) leaves the entry
  in `_runs`: every later Update of that agent returns at once until SKAZ restarts.
- Stop of a job between its claim and the start of its task answers "This job has already finished."
  (`ingest/service.py:308-309`), and a job requeued by a restart and stopped before it starts again is told that nothing of
  it was saved (`service.py:303`) although an earlier run may have saved pages.
- A search that an agent starts over HTTP inside an answer of the same agent does not inherit the hold and waits for
  an update that waits for the answer (`update_gate.py:88`), until the tool's deadline. This is why
  `NestedWorkNeverWaits` has the hypothesis `Remote = {}`.
- A call cancelled while its row is being added (`broker.py:121`) leaves a pending row and a registered future: its card
  can be allowed, and nothing is written. A question's call does the same (`questions.py`).
- `cancel_run` lists the pending rows once (`broker.py:171`): a row added later waits on a card of an answer that has
  ended until the tools are closed.
- A wiki run with the agent's default model keeps nothing, yet pauses at its budget with "The finished work is kept;
  Continue picks up from it" (`ingest/budget.py:34-37`), and every Continue starts over and may pause again. The same holds
  for a portion spent on a recognition check, a matching or answers in the wrong format, which count as completed calls but
  are kept nowhere. `PausesMoveOn` leaves out exactly these portions (`job.lost`).
- A request that was never sent is charged (`execution.py:177` runs before the engine) though `_ask` says that nothing was
  paid for (`runner.py:220-221`); after a crash the text streamed by the open call is charged to nobody.
- Two overlapping jobs of one material share one entry of `_telling`.
- An answer cancelled by a Stop that timed out before `_finish` is inside its try keeps its entry in `_runs`: the chat
  answers "busy" until SKAZ restarts, and a later delete of it ends without deleting.
- The same cancellation, or a disk error, inside that try (`chats/service.py:1404-1421`) drops the run without a save, or before the
  second one: the stored answer goes on saying "streaming" in a chat that is idle until SKAZ starts again, the next send adds
  a second one, and a part changed at that moment is lost. `StreamingIsAnswering`, `ChangesAreKept` and `ThreadKept` leave out
  exactly these answers (`run[a].cut`).
- An option whose row is written while its agent drops the call: `set_result` on a future that is done
  (`permissions/questions.py:134`) raises, the user gets an error for an option that the chat then shows as taken. A call dropped
  while its row was being added takes an option without an error, and nobody hears it.
- `chats/service.py:1509`: `close()` lists the runs once; a send past its reservation starts a run afterwards. A chat deleted while
  a send is reserved gets a run all the same.
- A mark on a deck's page takes no lock and can overwrite a grade (`study/service.py:768`); `GradesStay` leaves out the
  cards such a mark has written. A review can arrive on a newer answer or review of the same attempt.

## Proofs

All theorems are for every value of the constants; the assumptions are those named in the modules (sets
finite where counts are taken, functions typed, bounds natural numbers, names that stand for "nobody" or "nothing" used
for nothing else, and at least one operation to write).

| Module | Theorems | Argument |
|---|---|---|
| `KeyedThreadLocksProofs` | types, mutual exclusion, the count | `IInv`: every user of an id refers to the lock object of its entry; then two holders own one object. Each step moves one thread in or out of the users of one id, so the count follows from the cardinality theorems |
| `StudyBlockProofs` | `StudyExcludes`, `OnePage`, `GradesAreKept`, `BookIsKept`, `FlagsAreCleared` | `StudyInv` over the locks' `IInv` (every step of the block is a step of the locks or leaves them alone): one call holds the block, so what it has read is still so when it writes (`SawFits`, `BookFits`). The cards are different, a page mark may write them at any moment: `CardsFit` says that whatever such a mark overwrites it leaves its number, which is what `GradesStay` exempts. `FlagInv` says that a flag has a task whose result is not written yet and whose call was not refused, that a call with a task's number is the one write this task waits for, and that a retake shows a blank attempt |
| `IngestQueueProofs` | types, `OnePerMaterialHolds`, `StoppedSavedNothingHolds`, `LifecycleImplemented`, `RunningIsOwnedHolds`, `SlotsRespectedHolds`, `NothingIsStarted` | `QInv`: reservations of one material exclude each other, a request past its check has no rival row, a row runs exactly while its task builds or the pump holds it, and the room the pump saw is still there. `SInv` adds what a stopped task may still do. `StartInv` says that a task that has not begun carries no cancellation, and that a task that may still call a model is cancelled or `close` has yet to visit it. The refinement maps every step to one of `JobLifecycle` or to a stutter |
| `UpdateGateProofs` | types, `UpdatesRunAlone`, `GateLeaksNothing`, `StoppedRunsStayOut`, `NestedWorkNeverWaits`, `GateKeepsExclusion` | `GInv`: the counts are exact, an agent is blocked exactly by its update, uncounted work is covered by counted work of its agent, and an update that runs found nobody. `NInv` adds that inner work runs only inside its outer works |
| `WikiPermissionsProofs` | types, `NothingWithoutLeave`, `RefusedStaysUnwritten`, `AgentHearsTruth`, `RestartLeavesNothing`, `DecidedOnce`, `VerdictIsOne`, `DeadlineExact`, `WordsStay`, `UndoneStaysOut` | `PInv`: what row and future can be at each place of a call (`RowFitsCall`, `FutureFitsCall`), what was written once and stays allowed (`WrittenOnce`), what a click knows (`ClicksKnow`), and that every allowed row comes from a won click or a grant that has one (`LeaveIsGiven`). For undo, `OutStaysOut`: there is a set of changes that are out, which no page and no snapshot still in use holds, and the changes that are in form a chain, so a write or an undo goes by the last of them (`WrittenByName`: what a page holds was written by the call of that name) |
| `QuitGuardProofs` | types, `NothingIsForgotten`, `ClocksAgree`, `QueueIsBounded`, `GuardAlwaysCounts`, `SavedMeansSaved`, `RecordingKeepsTheLog` | `LInv` says where the sound is: the queue holds the windows from `seq` on (`QueueFits`), the log those before it and perhaps `seq` too, which was sent then (`LogFits`), and whatever is still on the wire, from this connection or one given up, can add window `seq` and nothing else (`SocketFits`, `WireFits`). `AttemptFits` and `ScreenFits` say who waits where |
| `ChatAnswersProofs` | types, `NoneLeftStreaming`, `AgentHears`, `AnswersOneAtATime`, `ToldIsKept`, `ThreadIsKept` | `CInv`: the chat is reserved exactly while one request is on its way to a run, and has no entry in `_runs` then (`ReserveFits`); what is stored of an answer follows its run, and a part that changes afterwards writes back a row read when the run was over, but for an answer given up (`StreamFits`); a row that left "pending" never returns, and whoever took it there, a request, the answer's own end or close, tells the future what the row says (`HearFits`). `ToldFits` adds that an agent that waits has a pending row, somebody about to tell it, or a run of its own cancelled on the way there, and that an option won its row for one click only. `StoreFits` compares what is stored with the run: a told change is in the run's message, then in what it saves, then in the row; a change that comes later writes back a row nobody wrote since, but for a close that saves. Every write of a row is then a step of `ChatThread` |
| `WikiRunProofs` | types, `PageHasOneText`, `GoneStaysGone`, `ToldItemsAreKept`, `FinishStartsOver`, `PausesMoveOnHolds` | `WInv`: the rows belong to one text (`KeptFits`) and so do the answers of a run (`RunFits`); an answer passes from one to the other only where the texts agree, and a material that is gone has no row, which is what `put` and the writer look at. `KInv` adds that a run that keeps its answers has the chain of those it has taken in the rows, and the items of the open call under the next step; a Discard or a put of that step leaves the chain alone, and an injection of the items into what `Found` counts gives the number. `LInv`: the rows of an operation are one line (`InLine`), a run is on it and asks only at its end (`OnWay`), so the rows of a finished material are complete and all its last run's (`FinishFits`). `PaidFits`: a completed answer of the portion is kept or checked just now, unless one was lost |

Why the strengthening is needed: no property above is inductive. One pending job per material, for one, is broken by a
request that passed its check long ago, so the invariant says what such a request still excludes; the agent hears the
row only because a click that won still finds its future open or finds it settled by nobody else; the log has no hole
only because a stale message of a connection given up is a window the log has, or the next one.

What a proof showed beyond its theorem: the second half of `StartsOver` never decides. A run of a finished material goes
along its line to the end before it could ask, so nothing new is kept of a finished text until another choice, or another
text, has cleared it; "finished with another choice" alone says who starts over, which is all `prepare` looks at.

Every safety property of a passing run is proved: each invariant, each action property and each refinement. Only
model-checked are the liveness properties (`AllowedCallGoesOn`, `CallsEndWithTheAnswer`, `RequestsEnd`, `QueuedIsStarted`,
`StopEnds`, `UpdateGetsItsTurn`, `WaitingWorkGoesOn`, `StopReturns`): fairness and ENABLED are beyond the prover.
Proved and not run any more: the type invariants of the modules, `CountIsUsers`, `ClockAgrees`, `GuardCounts`.

## Left out, and why

- `StudyBlock`: `study_reviews`, "Unclear" marks, refusing a save, renaming and moving a block, the details of a pass, the
  schedule of a card (data), requests that are cancelled, restarts; a Save that fails midway. More than one key idea per question.
- `IngestQueue`: disk errors of claim and finish; what a run reads and writes is `WikiRun`'s.
- `WikiRun`: several parts of a long material, the limit of characters per operation (`max_chars`), the reading of a stream
  into items (`stream.py`), how near a repeat has to be (`repetition.py`), a kept answer that no longer parses, follow-up jobs that
  share the root's budget, the recognition check by an agent of its own, and how the writer merges pages. `Read` takes the text
  after the recognition check; the code loads it before and again only if the check corrected it (`runner.py:597-611`), so an edit
  during a check that corrects nothing comes, in the model, after `Read`.
- `UpdateGate`: check rounds, the persisted record of the last check, `aclose()`.
- `WikiPermissions`: the creation of a page; a change of several files that fails in the middle, disk errors, an edit by another
  program between the second look and the write under the write lock; more than one Stop of an answer.
- `ChatAnswers`: several chats, several questions of a run, the agent's session with its reseeding, usage and summaries,
  permissions and searches of the run, Save to wiki, feeds; disk errors but those of the save at the end; a request that is
  itself cancelled while its insert commits (`service.py:744-746`), which happens to a server that shuts down and leaves the rows
  a `Restart` between `Insert` and `Start` leaves; the await of `engine.interrupt` in a Stop.
- `KeyedLocks` for tasks (`keyed_locks.py:16-37`).
- `LiveRecording`: pause and resume, a recording continued after a failure, lengths of windows, the recogniser behind the
  route, the retries with which the material is settled; a backend that crashes is there again at once. `QuitGuard`: a second quit
  while the window still works on the first one's question; the backend's shutdown.
- Components marked as I/O or presentation in the inventory.

## Plan

1. Proofs: the lemmas that several proofs repeat (what the end of a job or of a call leaves) stated once per module.
2. `WikiPages`: moving, renaming, retracting and connecting pages under the write lock, and the watcher of files changed outside.
3. `LiveStream`: the recogniser side of a recording (connections, rotation, replay, finish) with an abstract
   `ConfirmedPrefix`: confirmed text is a prefix of what was saved.
4. `WebSearch` as a broker of the shape of `WikiPermissions`; the install steps behind `UpdateGate`; `Imports`.

The runs of a component that is settled are merged when the room is needed for a new one, keeping its properties.
