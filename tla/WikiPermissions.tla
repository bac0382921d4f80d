---------------------------- MODULE WikiPermissions ----------------------------
(***************************************************************************)
(* An agent's wiki change waits for the user: PermissionBroker             *)
(* (knowledge/permissions/broker.py), its rows (store.py), and the wiki    *)
(* tools that ask, apply and undo (wiki_tools.py), together with the end   *)
(* of the chat answer that cancels what still waits (chats/service.py).    *)
(*                                                                         *)
(* A request is one call of a wiki tool.  Each call, each click of the     *)
(* user, each Undo and each cancel_run is an asyncio task; one action is   *)
(* the stretch of a task between two awaits, and a disk_call is two: the   *)
(* thread's work, which a cancellation cannot stop, and the return.        *)
(***************************************************************************)
EXTENDS Naturals, FiniteSets

CONSTANTS
  Requests, Runs, Pages,
  RunOf, PageOf,      \* the chat answer and the page of a request
  ChatOf,             \* the chat of an answer
  Kind,               \* "edit" or "delete"
  Clicks, Undos,      \* bounds: decisions and Undos the user sends
  MayEnd,             \* bound: the answers that end or lose a call while their calls go on
  MaxRestarts         \* bound

ASSUME RequestsTyped == RunOf \in [Requests -> Runs] /\ PageOf \in [Requests -> Pages]
ASSUME KindsTyped == Kind \in [Requests -> {"edit", "delete"}]
ASSUME RequestsFinite == IsFiniteSet(Requests)
ASSUME RestartsNat == MaxRestarts \in Nat
\* Ids are made by the store: none of them is the "none" of a page no agent wrote.
ASSUME RequestsNamed == "none" \notin Requests

Grantable == {"edit"}

VARIABLES
  at,       \* where a call is
  kill,     \* calls with a CancelledError on its way
  seen,     \* the page a change was planned on
  future,   \* _futures: "open", the status it was resolved with, or "none" when it is not there
  open,     \* RunWaits: open waits of a run (its deadline stands still)
  row,      \* permission_requests.status
  auto,     \* permission_requests.auto
  undoable, \* rows with applied = 1 and an Undo snapshot
  before,   \* that snapshot
  grants,   \* permission_grants
  page,     \* a page: whose change it holds, and whether the user wrote into it
  wrote,    \* history: requests whose change was written
  click,    \* what a decide() does
  undo,     \* what an undo() does
  cancel,   \* the cancel_run of a run's Stop and of its end
  answer,   \* the chat answer of a run
  restarts

call == <<at, kill, seen, future, open>>
rows == <<row, auto, undoable, before, grants>>
wiki == <<page, wrote>>
user == <<click, undo>>
runs == <<cancel, answer>>
vars == <<call, rows, wiki, user, runs, restarts>>

Places == {"idle", "planning", "adding", "added", "waiting", "applying", "applied", "failed",
           "settling", "refusing", "over", "dropped", "lost"}
Statuses == {"pending", "allowed", "denied", "cancelled", "undone"}
Choices == {"allow", "allow_chat", "deny"}
None == "none"
Ends == {"stop", "finish"}
NoClick == [at |-> "idle", of |-> None, choice |-> "deny", won |-> FALSE]
NoUndo == [at |-> "idle", of |-> None]
NoCancel == [at |-> "idle", todo |-> {}]

ChatKind(r) == <<ChatOf[RunOf[r]], Kind[r]>>
Deleted(p) == \E r \in Requests : page[p].by = r /\ Kind[r] = "delete"

Init ==
  /\ at = [r \in Requests |-> "idle"]
  /\ kill = {}
  /\ seen = [r \in Requests |-> [by |-> None, note |-> FALSE]]
  /\ future = [r \in Requests |-> None]
  /\ open = [u \in Runs |-> 0]
  /\ row = [r \in Requests |-> None]
  /\ auto = {}
  /\ undoable = {}
  /\ before = [r \in Requests |-> [by |-> None, note |-> FALSE]]
  /\ grants = {}
  /\ page = [p \in Pages |-> [by |-> None, note |-> FALSE]]
  /\ wrote = {}
  /\ click = [c \in Clicks |-> NoClick]
  /\ undo = [u \in Undos |-> NoUndo]
  /\ cancel = [u \in Runs |-> [e \in Ends |-> NoCancel]]
  /\ answer = [u \in Runs |-> "on"]
  /\ restarts = 0

Go(r, place) == at' = [at EXCEPT ![r] = place]

(***************************************************************************)
(* The call of a tool: ask_and_apply and PermissionBroker.request          *)
(***************************************************************************)

\* The tool finds the chat answer of its run (run_ref).
Call(r) ==
  /\ at[r] = "idle"
  /\ answer[RunOf[r]] # "gone"
  /\ Go(r, "planning")
  /\ UNCHANGED <<kill, seen, future, open, rows, wiki, user, runs, restarts>>

\* The planner reads the page: a deleted page is refused, and so is the deletion of a page
\* with the user's words.  Then the grant of the chat is looked up.
Plan(r) ==
  /\ at[r] = "planning"
  /\ r \notin kill
  /\ IF Deleted(PageOf[r]) \/ (Kind[r] = "delete" /\ page[PageOf[r]].note)
     THEN /\ Go(r, "over")
          /\ UNCHANGED <<seen, auto, future>>
     ELSE /\ Go(r, "adding")
          /\ seen' = [seen EXCEPT ![r] = page[PageOf[r]]]
          /\ IF Kind[r] \in Grantable /\ ChatKind(r) \in grants
             THEN auto' = auto \cup {r} /\ UNCHANGED future
             ELSE future' = [future EXCEPT ![r] = "open"] /\ UNCHANGED auto
  /\ UNCHANGED <<kill, open, row, undoable, before, grants, wiki, user, runs, restarts>>

\* add_permission
Add(r) ==
  /\ at[r] = "adding"
  /\ row' = [row EXCEPT ![r] = IF r \in auto THEN "allowed" ELSE "pending"]
  /\ Go(r, "added")
  /\ UNCHANGED <<kill, seen, future, open, auto, undoable, before, grants, wiki, user, runs, restarts>>

Added(r) ==
  /\ at[r] = "added"
  /\ r \notin kill
  /\ IF r \in auto
     THEN Go(r, "applying") /\ UNCHANGED open
     ELSE Go(r, "waiting") /\ open' = [open EXCEPT ![RunOf[r]] = @ + 1]
  /\ UNCHANGED <<kill, seen, future, rows, wiki, user, runs, restarts>>

\* The finally of request.
Waited(r) ==
  /\ open' = [open EXCEPT ![RunOf[r]] = IF @ = 0 THEN 0 ELSE @ - 1]
  /\ future' = [future EXCEPT ![r] = None]

\* The future is resolved: an allowed change is applied, anything else ends the call.
Decided(r) ==
  /\ at[r] = "waiting"
  /\ r \notin kill
  /\ future[r] # "open"
  /\ Go(r, IF future[r] = "allowed" THEN "applying" ELSE "over")
  /\ Waited(r)
  /\ UNCHANGED <<kill, seen, rows, wiki, user, runs, restarts>>

Changed(r) == [by |-> r, note |-> page[PageOf[r]].note /\ Kind[r] = "edit"]

\* _apply under the library's write lock: re-checked against the page as it is now.
Apply(r) ==
  /\ at[r] = "applying"
  /\ LET p == PageOf[r] IN
     \/ /\ ~Deleted(p)
        /\ ~(Kind[r] = "delete" /\ page[p].note)
        /\ Go(r, "applied")
        /\ before' = [before EXCEPT ![r] = page[p]]
        /\ page' = [page EXCEPT ![p] = Changed(r)]
        /\ wrote' = wrote \cup {r}
     \/ /\ page[p] # seen[r]
        /\ Go(r, "failed")
        /\ UNCHANGED <<before, wiki>>
  /\ UNCHANGED <<kill, seen, future, open, row, auto, undoable, grants, user, runs, restarts>>

\* The thread of _apply returned: settle.
Applied(r) ==
  /\ at[r] \in {"applied", "failed"}
  /\ r \notin kill
  /\ Go(r, IF at[r] = "applied" THEN "settling" ELSE "refusing")
  /\ UNCHANGED <<kill, seen, future, open, rows, wiki, user, runs, restarts>>

\* settle: applied with its Undo snapshot, or cancelled because the page had changed.
Settle(r) ==
  /\ at[r] \in {"settling", "refusing"}
  /\ IF at[r] = "settling"
     THEN undoable' = undoable \cup {r} /\ UNCHANGED row
     ELSE row' = [row EXCEPT ![r] = "cancelled"] /\ UNCHANGED undoable
  /\ Go(r, "over")
  /\ kill' = kill \ {r}
  /\ UNCHANGED <<seen, future, open, auto, before, grants, wiki, user, runs, restarts>>

\* The engine ends its tools, or the client of an HTTP call goes away.
Kill(r) ==
  /\ RunOf[r] \in MayEnd
  /\ at[r] \notin {"idle", "over", "dropped", "lost"}
  /\ kill' = kill \cup {r}
  /\ UNCHANGED <<at, seen, future, open, rows, wiki, user, runs, restarts>>

\* Mutant: the wait of an abandoned call is not ended.
DroppedCounted(r) ==
  /\ r \in kill
  /\ at[r] \in {"planning", "added", "waiting", "applied", "failed"}
  /\ row' = IF at[r] = "waiting" /\ row[r] = "pending" THEN [row EXCEPT ![r] = "cancelled"] ELSE row
  /\ future' = IF at[r] = "waiting" THEN [future EXCEPT ![r] = None] ELSE future
  /\ Go(r, "dropped")
  /\ kill' = kill \ {r}
  /\ UNCHANGED <<open, seen, auto, undoable, before, grants, wiki, user, runs, restarts>>

\* Mutant: a waiting call does not notice that it was abandoned.
DroppedUnlessWaiting(r) ==
  /\ r \in kill
  /\ at[r] \in {"planning", "added", "applied", "failed"}
  /\ Go(r, "dropped")
  /\ kill' = kill \ {r}
  /\ UNCHANGED <<row, future, open, seen, auto, undoable, before, grants, wiki, user, runs, restarts>>

\* The CancelledError is raised, after the thread of a disk_call has returned.  Only a call
\* that waits for the user cancels its request.
Dropped(r) ==
  /\ r \in kill
  /\ at[r] \in {"planning", "added", "waiting", "applied", "failed"}
  /\ IF at[r] = "waiting"
     THEN /\ row' = IF row[r] = "pending" THEN [row EXCEPT ![r] = "cancelled"] ELSE row
          /\ Waited(r)
     ELSE UNCHANGED <<row, future, open>>
  /\ Go(r, "dropped")
  /\ kill' = kill \ {r}
  /\ UNCHANGED <<seen, auto, undoable, before, grants, wiki, user, runs, restarts>>

(***************************************************************************)
(* The user's decision: PermissionBroker.decide                            *)
(***************************************************************************)
Press(c, f, v) == click' = [click EXCEPT ![c][f] = v]

\* The row was read as pending.
Decide(c, r, choice) ==
  /\ click[c].at = "idle"
  /\ row[r] = "pending"
  /\ choice = "allow_chat" => Kind[r] \in Grantable
  /\ click' = [click EXCEPT ![c] = [at |-> "asked", of |-> r, choice |-> choice, won |-> FALSE]]
  /\ UNCHANGED <<call, rows, wiki, undo, runs, restarts>>

\* The future tells whether a call still waits.
LookUp(c) ==
  /\ click[c].at = "asked"
  /\ Press(c, "at", IF future[click[c].of] = "open" THEN "deciding" ELSE "stale")
  /\ UNCHANGED <<call, rows, wiki, undo, runs, restarts>>

Outcome(c) == IF click[c].choice = "deny" THEN "denied" ELSE "allowed"

\* Mutant: the row is written whatever its status has become.
RecordAnyway(c) ==
  /\ click[c].at = "deciding"
  /\ row' = [row EXCEPT ![click[c].of] = Outcome(c)]
  /\ click' = [click EXCEPT ![c].at = IF click[c].choice = "allow_chat" THEN "granting" ELSE "telling",
                            ![c].won = TRUE]
  /\ UNCHANGED <<call, auto, undoable, before, grants, wiki, undo, runs, restarts>>

\* Mutant: a click that lost still grants the chat.
RecordLoserGrants(c) ==
  /\ click[c].at = "deciding"
  /\ row' = IF row[click[c].of] = "pending" THEN [row EXCEPT ![click[c].of] = Outcome(c)] ELSE row
  /\ click' = [click EXCEPT ![c].at = IF click[c].choice = "allow_chat" THEN "granting" ELSE "telling",
                            ![c].won = row[click[c].of] = "pending"]
  /\ UNCHANGED <<call, auto, undoable, before, grants, wiki, undo, runs, restarts>>

\* update_permission(expect=("pending",)): one decision wins, the others are refused.
Record(c) ==
  /\ click[c].at = "deciding"
  /\ IF row[click[c].of] = "pending"
     THEN /\ row' = [row EXCEPT ![click[c].of] = Outcome(c)]
          /\ click' = [click EXCEPT ![c].at = IF click[c].choice = "allow_chat" THEN "granting" ELSE "telling",
                                    ![c].won = TRUE]
     ELSE /\ Press(c, "at", "over")
          /\ UNCHANGED row
  /\ UNCHANGED <<call, auto, undoable, before, grants, wiki, undo, runs, restarts>>

\* Mutant: the row is cancelled whatever its status has become.
RecordStaleAnyway(c) ==
  /\ click[c].at = "stale"
  /\ row' = [row EXCEPT ![click[c].of] = "cancelled"]
  /\ Press(c, "at", "over")
  /\ UNCHANGED <<call, auto, undoable, before, grants, wiki, undo, runs, restarts>>

\* Nobody waits for the row any more.
RecordStale(c) ==
  /\ click[c].at = "stale"
  /\ row' = IF row[click[c].of] = "pending" THEN [row EXCEPT ![click[c].of] = "cancelled"] ELSE row
  /\ Press(c, "at", "over")
  /\ UNCHANGED <<call, auto, undoable, before, grants, wiki, undo, runs, restarts>>

\* "Allow in this chat"
Grant(c) ==
  /\ click[c].at = "granting"
  /\ grants' = grants \cup {ChatKind(click[c].of)}
  /\ Press(c, "at", "telling")
  /\ UNCHANGED <<call, row, auto, undoable, before, wiki, undo, runs, restarts>>

Resolve(r, status) ==
  future' = IF future[r] = "open" THEN [future EXCEPT ![r] = status] ELSE future

\* Mutant: the waiting call is not told.
TellNobody(c) ==
  /\ click[c].at = "telling"
  /\ Press(c, "at", "over")
  /\ UNCHANGED <<call, rows, wiki, undo, runs, restarts>>

Tell(c) ==
  /\ click[c].at = "telling"
  /\ Resolve(click[c].of, Outcome(c))
  /\ Press(c, "at", "over")
  /\ UNCHANGED <<at, kill, seen, open, rows, wiki, undo, runs, restarts>>

(***************************************************************************)
(* The end of an answer: Stop, and _finish, each with its cancel_run       *)
(***************************************************************************)

\* The rows of the run that still wait are listed.
List(u, e) ==
  cancel' = [cancel EXCEPT ![u][e] =
    [at |-> "rows", todo |-> {r \in Requests : RunOf[r] = u /\ row[r] = "pending"}]]

\* The user stops the answer (once: bound).
Stop(u) ==
  /\ u \in MayEnd
  /\ answer[u] # "gone"
  /\ cancel[u]["stop"].at = "idle"
  /\ List(u, "stop")
  /\ UNCHANGED <<call, rows, wiki, user, answer, restarts>>

\* The engine's stream of events has ended.
Finish(u) ==
  /\ u \in MayEnd
  /\ answer[u] = "on"
  /\ answer' = [answer EXCEPT ![u] = "finishing"]
  /\ List(u, "finish")
  /\ UNCHANGED <<call, rows, wiki, user, restarts>>

\* A row that is still pending is cancelled, and then its call learns it.
CancelRow(u, e, r) ==
  /\ cancel[u][e].at = "rows"
  /\ r \in cancel[u][e].todo
  /\ IF row[r] = "pending"
     THEN row' = [row EXCEPT ![r] = "cancelled"] /\ Resolve(r, "cancelled")
     ELSE UNCHANGED <<row, future>>
  /\ cancel' = [cancel EXCEPT ![u][e].todo = @ \ {r}]
  /\ UNCHANGED <<at, kill, seen, open, auto, undoable, before, grants, wiki, user, answer, restarts>>

\* All rows are done.  At its end the answer leaves _runs.
Cancelled(u, e) ==
  /\ cancel[u][e].at = "rows"
  /\ cancel[u][e].todo = {}
  /\ cancel' = [cancel EXCEPT ![u][e].at = "done"]
  /\ answer' = IF e = "finish" THEN [answer EXCEPT ![u] = "gone"] ELSE answer
  /\ UNCHANGED <<call, rows, wiki, user, restarts>>

(***************************************************************************)
(* Undo, and the user's own words                                          *)
(***************************************************************************)
AskUndo(x, r) ==
  /\ undo[x].at = "idle"
  /\ row[r] = "allowed"
  /\ r \in undoable
  /\ undo' = [undo EXCEPT ![x] = [at |-> "restoring", of |-> r]]
  /\ UNCHANGED <<call, rows, wiki, click, runs, restarts>>

\* The page still is what the change left: the hash of the file.
Untouched(r) == page[PageOf[r]] = [by |-> r, note |-> before[r].note /\ Kind[r] = "edit"]

\* Mutant: the page is put back without looking at it.
RestoreBlindly(x) ==
  /\ undo[x].at = "restoring"
  /\ page' = [page EXCEPT ![PageOf[undo[x].of]] = before[undo[x].of]]
  /\ undo' = [undo EXCEPT ![x].at = "settling"]
  /\ UNCHANGED <<call, rows, wrote, click, runs, restarts>>

\* _restore under the write lock.
Restore(x) ==
  /\ undo[x].at = "restoring"
  /\ IF Untouched(undo[x].of)
     THEN /\ page' = [page EXCEPT ![PageOf[undo[x].of]] = before[undo[x].of]]
          /\ undo' = [undo EXCEPT ![x].at = "settling"]
     ELSE /\ undo' = [undo EXCEPT ![x].at = "over"]
          /\ UNCHANGED page
  /\ UNCHANGED <<call, rows, wrote, click, runs, restarts>>

Undone(x) ==
  /\ undo[x].at = "settling"
  /\ row' = IF row[undo[x].of] = "allowed" THEN [row EXCEPT ![undo[x].of] = "undone"] ELSE row
  /\ undo' = [undo EXCEPT ![x].at = "over"]
  /\ UNCHANGED <<call, auto, undoable, before, grants, wiki, click, runs, restarts>>

\* The user writes into the page, in SKAZ or in another editor.
Note(p) ==
  /\ ~Deleted(p)
  /\ page' = [page EXCEPT ![p].note = TRUE]
  /\ UNCHANGED <<call, rows, wrote, user, runs, restarts>>

(***************************************************************************)
(* SKAZ ends at any point and starts again                                 *)
(***************************************************************************)

\* recover: what was left pending is cancelled.
Recover == row' = [r \in Requests |-> IF row[r] = "pending" THEN "cancelled" ELSE row[r]]

Restart ==
  /\ restarts < MaxRestarts
  /\ restarts' = restarts + 1
  /\ at' = [r \in Requests |-> IF at[r] \in {"idle", "over", "dropped"} THEN at[r] ELSE "lost"]
  /\ kill' = {}
  /\ future' = [r \in Requests |-> None]
  /\ open' = [u \in Runs |-> 0]
  /\ Recover
  /\ click' = [c \in Clicks |-> IF click[c].at = "idle" THEN click[c] ELSE [click[c] EXCEPT !.at = "over"]]
  /\ undo' = [x \in Undos |-> IF undo[x].at = "idle" THEN undo[x] ELSE [undo[x] EXCEPT !.at = "over"]]
  /\ cancel' = [u \in Runs |-> [e \in Ends |-> NoCancel]]
  /\ answer' = [u \in Runs |-> "gone"]
  /\ UNCHANGED <<seen, auto, undoable, before, grants, wiki>>

(***************************************************************************)
(* The specification                                                       *)
(***************************************************************************)
Working(r) ==
  Plan(r) \/ Add(r) \/ Added(r) \/ Decided(r) \/ Apply(r) \/ Applied(r) \/ Settle(r) \/ Dropped(r)

Answering(c) == LookUp(c) \/ Record(c) \/ RecordStale(c) \/ Grant(c) \/ Tell(c)

Ending(u, e) == Cancelled(u, e) \/ \E r \in Requests : CancelRow(u, e, r)

Undoing(x) == Restore(x) \/ Undone(x)

Next ==
  \/ \E r \in Requests : Call(r) \/ Working(r) \/ Kill(r)
  \/ \E c \in Clicks : Answering(c) \/ \E r \in Requests, choice \in Choices : Decide(c, r, choice)
  \/ \E u \in Runs : Stop(u) \/ Finish(u) \/ \E e \in Ends : Ending(u, e)
  \/ \E x \in Undos : Undoing(x) \/ \E r \in Requests : AskUndo(x, r)
  \/ \E p \in Pages : Note(p)
  \/ Restart

Spec == Init /\ [][Next]_vars

\* The event loop runs every task that can go on; disk work ends; the engine of an answer
\* that has ended ends its tools.
Fairness ==
  /\ \A r \in Requests : WF_vars(Working(r)) /\ WF_vars(answer[RunOf[r]] = "gone" /\ r \notin kill /\ Kill(r))
  /\ \A c \in Clicks : WF_vars(Answering(c))
  /\ \A u \in Runs, e \in Ends : WF_vars(Ending(u, e))
  /\ \A x \in Undos : WF_vars(Undoing(x))

FairSpec == Spec /\ Fairness

(***************************************************************************)
(* Properties                                                              *)
(***************************************************************************)
Versions == [by : Requests \cup {None}, note : BOOLEAN]

CallTypes ==
  /\ at \in [Requests -> Places]
  /\ kill \subseteq Requests
  /\ seen \in [Requests -> Versions]
  /\ future \in [Requests -> {None, "open", "allowed", "denied", "cancelled"}]
  /\ open \in [Runs -> Nat]

RowTypes ==
  /\ row \in [Requests -> Statuses \cup {None}]
  /\ auto \subseteq Requests
  /\ undoable \subseteq Requests
  /\ before \in [Requests -> Versions]
  /\ grants \subseteq {ChatKind(r) : r \in {q \in Requests : Kind[q] \in Grantable}}

WikiTypes ==
  /\ page \in [Pages -> Versions]
  /\ wrote \subseteq Requests

ClickStates == [at : {"idle", "asked", "deciding", "stale", "granting", "telling", "over"},
                of : Requests \cup {None}, choice : Choices, won : BOOLEAN]
UndoStates == [at : {"idle", "restoring", "settling", "over"}, of : Requests \cup {None}]
UserTypes ==
  /\ click \in [Clicks -> ClickStates]
  /\ undo \in [Undos -> UndoStates]

CancelStates == [at : {"idle", "rows", "done"}, todo : SUBSET Requests]
RunTypes ==
  /\ cancel \in [Runs -> [Ends -> CancelStates]]
  /\ answer \in [Runs -> {"on", "finishing", "gone"}]
  /\ restarts \in 0 .. MaxRestarts

TypeOK == CallTypes /\ RowTypes /\ WikiTypes /\ UserTypes /\ RunTypes

Won(r, choices) == \E c \in Clicks : click[c].won /\ click[c].of = r /\ click[c].choice \in choices

\* No page is changed by an agent unless the user allowed this change, or allowed changes of
\* this kind in this chat before; a deletion is always asked for.
OnlyWithLeave ==
  \A r \in wrote :
    \/ Won(r, {"allow", "allow_chat"})
    \/ /\ r \in auto
       /\ Kind[r] # "delete"
       /\ \E q \in Requests : ChatKind(q) = ChatKind(r) /\ Won(q, {"allow_chat"})

\* A change whose row says denied or cancelled is not in the wiki, however Stop, Deny, a
\* restart and a changed page follow each other.
RefusedIsNotWritten == \A r \in wrote : row[r] \notin {"pending", "denied", "cancelled"}

\* "decide answers a pending request once": of several clicks one wins.
OneDecision ==
  \A c, d \in Clicks : (click[c].won /\ click[d].won /\ click[c].of = click[d].of) => c = d

\* What the waiting call learns is what the row says.
AgentHearsTheRow ==
  \A r \in Requests : future[r] \in Statuses => row[r] = future[r]

\* The deadline of a run stands still exactly while one of its calls waits for the user.
DeadlineStandsStill ==
  \A u \in Runs : open[u] = Cardinality({r \in Requests : RunOf[r] = u /\ at[r] = "waiting"})

\* A change that was undone is not in the page, and no later Undo brings it back.
UndoneIsGone == \A r \in Requests : row[r] = "undone" => page[PageOf[r]].by # r

\* "After a restart nothing waits any more."
NothingWaitsAfterRestart == \A r \in Requests : at[r] = "lost" => row[r] # "pending"

\* A request has one verdict, however clicks, Stop and restarts interleave: one click wins, the
\* waiting call learns what the row says, and no row waits for a call that is lost.
OneVerdict == OneDecision /\ AgentHearsTheRow /\ NothingWaitsAfterRestart

\* Neither a change nor an Undo removes what the user wrote into the page.
UsersWordsStay == [][\A p \in Pages : page[p].note => page'[p].note]_page

\* An allowed change is carried out or its call ends; a call of an answer that is gone ends.
Ended(r) == at[r] \in {"over", "dropped", "lost"}
AllowedCallGoesOn == \A r \in Requests : row[r] \in {"allowed", "denied"} ~> Ended(r)
CallsEndWithTheAnswer ==
  \A r \in Requests : (answer[RunOf[r]] = "gone" /\ at[r] # "idle") ~> Ended(r)

\* "The files it touches are kept as they were before, so Undo can put them back while
\* nobody changed them" (wiki_tools.py:17-18).
WrittenCanBeUndone ==
  \A r \in wrote : (Ended(r) /\ at[r] # "lost" /\ page[PageOf[r]].by = r) => r \in undoable

===============================================================================
