------------------------ MODULE WikiPermissionsProofs ------------------------
(***************************************************************************)
(* Proofs about WikiPermissions for any number of requests, answers,       *)
(* clicks, Undos and restarts.                                             *)
(***************************************************************************)
EXTENDS WikiPermissions, FiniteSetTheorems, TLAPS

(***************************************************************************)
(* The inductive invariant: what the row and the future of a request can   *)
(* be at each place of its call, what a click knows, and where a leave     *)
(* comes from.                                                             *)
(***************************************************************************)
RowFitsCall ==
  \A r \in Requests :
    /\ at[r] \in {"idle", "planning", "adding"} => row[r] = None
    /\ at[r] \in {"idle", "planning"} => r \notin auto
    /\ at[r] = "added" /\ r \in auto => row[r] = "allowed"
    /\ at[r] \in {"applying", "applied", "settling"} => row[r] = "allowed"
    /\ at[r] = "lost" => row[r] # "pending"

FutureFitsCall ==
  \A r \in Requests :
    /\ future[r] # None => at[r] \in {"adding", "added", "waiting", "dropped"} /\ r \notin auto
    /\ future[r] \in Statuses => row[r] = future[r]

WrittenOnce ==
  /\ \A r \in wrote :
       /\ at[r] \in {"applied", "settling", "over", "dropped", "lost"}
       /\ row[r] \in {"allowed", "undone"}
       /\ future[r] = None
  /\ \A r \in undoable : r \in wrote /\ at[r] = "over"
  /\ \A r \in Requests : at[r] \in {"applied", "settling"} => r \in wrote
  /\ \A x \in Undos : undo[x].at \in {"restoring", "settling"} => undo[x].of \in undoable

ClicksKnow ==
  \A c \in Clicks :
    /\ click[c].at # "idle" =>
         /\ click[c].of \in Requests
         /\ row[click[c].of] # None
         /\ click[c].choice = "allow_chat" => Kind[click[c].of] \in Grantable
    /\ click[c].at \in {"granting", "telling"} => click[c].won
    /\ click[c].at = "granting" => click[c].choice = "allow_chat"
    /\ click[c].won => click[c].at \in {"granting", "telling", "over"} /\ row[click[c].of] # "pending"
    /\ (click[c].at \in {"granting", "telling"} /\ future[click[c].of] = "open")
         => row[click[c].of] = Outcome(c)

LeaveIsGiven ==
  /\ \A r \in Requests \ auto :
       row[r] \in {"allowed", "undone"} => Won(r, {"allow", "allow_chat"})
  /\ \A r \in auto : Kind[r] \in Grantable /\ ChatKind(r) \in grants
  /\ \A k \in grants : \E q \in Requests : ChatKind(q) = k /\ Won(q, {"allow_chat"})

LEMMA CallTypesStep ==
  ASSUME TypeOK, WrittenOnce, ClicksKnow, [Next]_vars
  PROVE  CallTypes'
<1> USE RequestsTyped, RestartsNat DEF TypeOK, CallTypes, WikiTypes, UserTypes, Places,
        None, user, rows, runs, wiki
<1>1. ASSUME NEW r \in Requests, Call(r) PROVE CallTypes'
  BY <1>1 DEF Call, Go
<1>2. ASSUME NEW r \in Requests, Plan(r) PROVE CallTypes'
  BY <1>2 DEF Plan, Go
<1>3. ASSUME NEW r \in Requests, Add(r) PROVE CallTypes'
  BY <1>3 DEF Add, Go
<1>4. ASSUME NEW r \in Requests, Added(r) PROVE CallTypes'
  BY <1>4 DEF Added, Go
<1>5. ASSUME NEW r \in Requests, Decided(r) PROVE CallTypes'
  <2>1. at' \in [Requests -> Places] /\ UNCHANGED <<kill, seen>>
    BY <1>5 DEF Decided, Go, Waited
  <2>2. \A n \in Nat : (IF n = 0 THEN 0 ELSE n - 1) \in Nat
    OBVIOUS
  <2>3. open' \in [Runs -> Nat]
    BY <1>5, <2>2 DEF Decided, Waited
  <2>4. future' \in [Requests -> {None, "open", "allowed", "denied", "cancelled"}]
    BY <1>5 DEF Decided, Waited
  <2>5. QED
    BY <2>1, <2>3, <2>4
<1>6. ASSUME NEW r \in Requests, Apply(r) PROVE CallTypes'
  BY <1>6 DEF Apply, Go, Changed
<1>7. ASSUME NEW r \in Requests, Applied(r) PROVE CallTypes'
  BY <1>7 DEF Applied, Go
<1>8. ASSUME NEW r \in Requests, Settle(r) PROVE CallTypes'
  BY <1>8 DEF Settle, Go
<1>9. ASSUME NEW r \in Requests, Kill(r) PROVE CallTypes'
  BY <1>9 DEF Kill
<1>10. ASSUME NEW r \in Requests, Dropped(r) PROVE CallTypes'
  <2>1. at' \in [Requests -> Places] /\ kill' \subseteq Requests /\ UNCHANGED seen
    BY <1>10 DEF Dropped, Go
  <2>2. \A n \in Nat : (IF n = 0 THEN 0 ELSE n - 1) \in Nat
    OBVIOUS
  <2>3. open' \in [Runs -> Nat]
    BY <1>10, <2>2 DEF Dropped, Waited
  <2>4. future' \in [Requests -> {None, "open", "allowed", "denied", "cancelled"}]
    BY <1>10 DEF Dropped, Waited
  <2>5. QED
    BY <2>1, <2>3, <2>4
<1>11. ASSUME NEW c \in Clicks, Tell(c) PROVE CallTypes'
  BY <1>11 DEF Tell, Press, Resolve, Outcome
<1>12. ASSUME NEW u \in Runs, NEW e \in Ends, NEW r \in Requests, CancelRow(u, e, r) PROVE CallTypes'
  BY <1>12 DEF CancelRow, Resolve
<1>13. ASSUME Restart PROVE CallTypes'
  BY <1>13 DEF Restart, Recover
<1>14. CASE UNCHANGED <<at, kill, seen, future, open>>
  BY <1>14
<1>15. QED
  BY <1>1, <1>2, <1>3, <1>4, <1>5, <1>6, <1>7, <1>8, <1>9, <1>10, <1>11, <1>12, <1>13, <1>14
     DEF Next, Working, Answering, Ending, Undoing, vars, call, rows, wiki, user, runs,
        Decide, LookUp, Record, RecordStale, Grant, Stop, Finish, Cancelled, AskUndo,
        Restore, Undone, Note

LEMMA RowTypesStep ==
  ASSUME TypeOK, WrittenOnce, ClicksKnow, [Next]_vars
  PROVE  RowTypes'
<1> USE RequestsTyped, RestartsNat DEF TypeOK, RowTypes, WikiTypes, UserTypes, ClicksKnow,
        Statuses, None, ChatKind
<1>1. ASSUME NEW r \in Requests, Plan(r) PROVE RowTypes'
  BY <1>1 DEF Plan, Go
<1>2. ASSUME NEW r \in Requests, Add(r) PROVE RowTypes'
  BY <1>2 DEF Add, Go
<1>3. ASSUME NEW r \in Requests, Apply(r) PROVE RowTypes'
  BY <1>3 DEF Apply, Go, Changed
<1>4. ASSUME NEW r \in Requests, Settle(r) PROVE RowTypes'
  BY <1>4 DEF Settle, Go
<1>5. ASSUME NEW r \in Requests, Dropped(r) PROVE RowTypes'
  BY <1>5 DEF Dropped, Go, Waited
<1>6. ASSUME NEW c \in Clicks, Record(c) PROVE RowTypes'
  BY <1>6 DEF Record, Press, Outcome
<1>7. ASSUME NEW c \in Clicks, RecordStale(c) PROVE RowTypes'
  BY <1>7 DEF RecordStale, Press
<1>8. ASSUME NEW c \in Clicks, Grant(c) PROVE RowTypes'
  BY <1>8 DEF Grant, Press
<1>9. ASSUME NEW u \in Runs, NEW e \in Ends, NEW r \in Requests, CancelRow(u, e, r) PROVE RowTypes'
  BY <1>9 DEF CancelRow, Resolve
<1>10. ASSUME NEW x \in Undos, Undone(x) PROVE RowTypes'
  BY <1>10 DEF Undone
<1>11. ASSUME Restart PROVE RowTypes'
  BY <1>11 DEF Restart, Recover
<1>12. CASE UNCHANGED <<row, auto, undoable, before, grants>>
  BY <1>12
<1>13. QED
  BY <1>1, <1>2, <1>3, <1>4, <1>5, <1>6, <1>7, <1>8, <1>9, <1>10, <1>11, <1>12
     DEF Next, Working, Answering, Ending, Undoing, vars, call, rows, wiki, user, runs,
        Call, Added, Decided, Applied, Kill, Decide, LookUp, Tell, Stop, Finish, Cancelled,
        AskUndo, Restore, Note

LEMMA WikiTypesStep ==
  ASSUME TypeOK, WrittenOnce, [Next]_vars
  PROVE  WikiTypes'
<1>0. page \in [Pages -> Versions] /\ wrote \subseteq Requests
  BY DEF TypeOK, WikiTypes
<1>1. ASSUME NEW r \in Requests, Apply(r) PROVE WikiTypes'
  <2>1. Changed(r) \in Versions
    <3>1. PageOf[r] \in Pages /\ page[PageOf[r]] \in Versions
      BY <1>0, RequestsTyped
    <3>2. QED
      BY <3>1 DEF Changed, Versions
  <2>2. \/ UNCHANGED <<page, wrote>>
        \/ page' = [page EXCEPT ![PageOf[r]] = Changed(r)] /\ wrote' = wrote \cup {r}
    BY <1>1 DEF Apply, wiki
  <2>3. QED
    BY <1>0, <2>1, <2>2 DEF WikiTypes
<1>2. ASSUME NEW x \in Undos, Restore(x) PROVE WikiTypes'
  <2>1. undo[x].of \in Requests
    BY <1>2, <1>0 DEF Restore, WrittenOnce
  <2>2. before[undo[x].of] \in Versions
    BY <2>1 DEF TypeOK, RowTypes
  <2>3. wrote' = wrote /\ (page' = page \/ page' = [page EXCEPT ![PageOf[undo[x].of]] = before[undo[x].of]])
    BY <1>2 DEF Restore
  <2>4. QED
    BY <1>0, <2>2, <2>3 DEF WikiTypes
<1>3. ASSUME NEW p \in Pages, Note(p) PROVE WikiTypes'
  <2>1. page[p] \in Versions
    BY <1>0
  <2>2. [page[p] EXCEPT !.note = TRUE] \in Versions
    BY <2>1 DEF Versions
  <2>3. page' = [page EXCEPT ![p] = [page[p] EXCEPT !.note = TRUE]] /\ wrote' = wrote
    BY <1>3 DEF Note
  <2>4. QED
    BY <1>0, <2>2, <2>3 DEF WikiTypes
<1>4. CASE UNCHANGED <<page, wrote>>
  BY <1>0, <1>4 DEF WikiTypes
<1>5. QED
  BY <1>1, <1>2, <1>3, <1>4, ZenonT(40)
     DEF Next, Working, Answering, Ending, Undoing, vars, call, rows, wiki, user, runs, Call,
        Plan, Add, Added, Decided, Applied, Settle, Kill, Dropped, Decide, LookUp, Record,
        RecordStale, Grant, Tell, Stop, Finish, CancelRow, Cancelled, AskUndo, Undone, Restart

LEMMA UserTypesStep ==
  ASSUME TypeOK, WrittenOnce, ClicksKnow, [Next]_vars
  PROVE  UserTypes'
<1> USE RequestsTyped, RestartsNat DEF TypeOK, UserTypes, ClickStates, UndoStates, Choices
<1>1. ASSUME NEW c \in Clicks, NEW r \in Requests, NEW choice \in Choices, Decide(c, r, choice) PROVE UserTypes'
  BY <1>1 DEF Decide
<1>2. ASSUME NEW c \in Clicks, LookUp(c) PROVE UserTypes'
  BY <1>2 DEF LookUp, Press
<1>3. ASSUME NEW c \in Clicks, Record(c) PROVE UserTypes'
  BY <1>3 DEF Record, Press, Outcome
<1>4. ASSUME NEW c \in Clicks, RecordStale(c) PROVE UserTypes'
  BY <1>4 DEF RecordStale, Press
<1>5. ASSUME NEW c \in Clicks, Grant(c) PROVE UserTypes'
  BY <1>5, SMTT(30) DEF Grant, Press
<1>6. ASSUME NEW c \in Clicks, Tell(c) PROVE UserTypes'
  BY <1>6 DEF Tell, Press, Resolve, Outcome
<1>7. ASSUME NEW x \in Undos, NEW r \in Requests, AskUndo(x, r) PROVE UserTypes'
  BY <1>7 DEF AskUndo
<1>8. ASSUME NEW x \in Undos, Restore(x) PROVE UserTypes'
  BY <1>8 DEF Restore
<1>9. ASSUME NEW x \in Undos, Undone(x) PROVE UserTypes'
  BY <1>9 DEF Undone
<1>10. ASSUME Restart PROVE UserTypes'
  BY <1>10, ZenonT(40) DEF Restart, Recover
<1>11. CASE UNCHANGED <<click, undo>>
  BY <1>11
<1>12. QED
  BY <1>1, <1>2, <1>3, <1>4, <1>5, <1>6, <1>7, <1>8, <1>9, <1>10, <1>11, SMTT(30)
     DEF Next, Working, Answering, Ending, Undoing, vars, call, rows, wiki, user, runs,
        Call, Plan, Add, Added, Decided, Apply, Applied, Settle, Kill, Dropped, Stop,
        Finish, CancelRow, Cancelled, Note

LEMMA RunTypesStep ==
  ASSUME TypeOK, WrittenOnce, ClicksKnow, [Next]_vars
  PROVE  RunTypes'
<1> USE RequestsTyped, RestartsNat DEF TypeOK, RunTypes, CancelStates, Ends, NoCancel
<1>1. ASSUME NEW u \in Runs, Stop(u) PROVE RunTypes'
  BY <1>1 DEF Stop, List
<1>2. ASSUME NEW u \in Runs, Finish(u) PROVE RunTypes'
  BY <1>2 DEF Finish, List
<1>3. ASSUME NEW u \in Runs, NEW e \in Ends, NEW r \in Requests, CancelRow(u, e, r) PROVE RunTypes'
  BY <1>3 DEF CancelRow, Resolve
<1>4. ASSUME NEW u \in Runs, NEW e \in Ends, Cancelled(u, e) PROVE RunTypes'
  BY <1>4 DEF Cancelled
<1>5. ASSUME Restart PROVE RunTypes'
  BY <1>5 DEF Restart, Recover
<1>6. CASE UNCHANGED <<cancel, answer, restarts>>
  BY <1>6
<1>7. QED
  BY <1>1, <1>2, <1>3, <1>4, <1>5, <1>6
     DEF Next, Working, Answering, Ending, Undoing, vars, call, rows, wiki, user, runs,
        Call, Plan, Add, Added, Decided, Apply, Applied, Settle, Kill, Dropped, Decide,
        LookUp, Record, RecordStale, Grant, Tell, AskUndo, Restore, Undone, Note

LEMMA RowStep ==
  ASSUME TypeOK, RowFitsCall, FutureFitsCall, WrittenOnce, ClicksKnow, [Next]_vars
  PROVE  RowFitsCall' /\ FutureFitsCall' /\ WrittenOnce'
<1> USE KindsTyped DEF TypeOK, CallTypes, RowTypes, WikiTypes, UserTypes, RowFitsCall,
        FutureFitsCall, WrittenOnce, Statuses, None, Places, call, rows, wiki, user, runs,
        ClicksKnow, Outcome
<1>1. ASSUME NEW r \in Requests, Call(r) PROVE RowFitsCall' /\ FutureFitsCall' /\ WrittenOnce'
  BY <1>1 DEF Call, Go
<1>2. ASSUME NEW r \in Requests, Plan(r) PROVE RowFitsCall' /\ FutureFitsCall' /\ WrittenOnce'
  BY <1>2 DEF Plan, Go
<1>3. ASSUME NEW r \in Requests, Add(r) PROVE RowFitsCall' /\ FutureFitsCall' /\ WrittenOnce'
  BY <1>3 DEF Add, Go
<1>4. ASSUME NEW r \in Requests, Added(r) PROVE RowFitsCall' /\ FutureFitsCall' /\ WrittenOnce'
  BY <1>4 DEF Added, Go
<1>5. ASSUME NEW r \in Requests, Decided(r) PROVE RowFitsCall' /\ FutureFitsCall' /\ WrittenOnce'
  BY <1>5 DEF Decided, Go, Waited
<1>6. ASSUME NEW r \in Requests, Apply(r) PROVE RowFitsCall' /\ FutureFitsCall' /\ WrittenOnce'
  BY <1>6 DEF Apply, Go, Changed
<1>7. ASSUME NEW r \in Requests, Applied(r) PROVE RowFitsCall' /\ FutureFitsCall' /\ WrittenOnce'
  BY <1>7 DEF Applied, Go
<1>8. ASSUME NEW r \in Requests, Settle(r) PROVE RowFitsCall' /\ FutureFitsCall' /\ WrittenOnce'
  BY <1>8 DEF Settle, Go
<1>9. ASSUME NEW r \in Requests, Kill(r) PROVE RowFitsCall' /\ FutureFitsCall' /\ WrittenOnce'
  BY <1>9 DEF Kill
<1>10. ASSUME NEW r \in Requests, Dropped(r) PROVE RowFitsCall' /\ FutureFitsCall' /\ WrittenOnce'
  BY <1>10 DEF Dropped, Go, Waited
<1>11. ASSUME NEW c \in Clicks, NEW r \in Requests, NEW choice \in Choices, Decide(c, r, choice) PROVE RowFitsCall' /\ FutureFitsCall' /\ WrittenOnce'
  BY <1>11 DEF Decide
<1>12. ASSUME NEW c \in Clicks, LookUp(c) PROVE RowFitsCall' /\ FutureFitsCall' /\ WrittenOnce'
  BY <1>12 DEF LookUp, Press
<1>13. ASSUME NEW c \in Clicks, Record(c) PROVE RowFitsCall' /\ FutureFitsCall' /\ WrittenOnce'
  BY <1>13 DEF Record, Press, Outcome
<1>14. ASSUME NEW c \in Clicks, RecordStale(c) PROVE RowFitsCall' /\ FutureFitsCall' /\ WrittenOnce'
  BY <1>14 DEF RecordStale, Press
<1>15. ASSUME NEW c \in Clicks, Grant(c) PROVE RowFitsCall' /\ FutureFitsCall' /\ WrittenOnce'
  BY <1>15 DEF Grant, Press
<1>16. ASSUME NEW c \in Clicks, Tell(c) PROVE RowFitsCall' /\ FutureFitsCall' /\ WrittenOnce'
  BY <1>16 DEF Tell, Press, Resolve, Outcome
<1>17. ASSUME NEW u \in Runs, Stop(u) PROVE RowFitsCall' /\ FutureFitsCall' /\ WrittenOnce'
  BY <1>17 DEF Stop, List
<1>18. ASSUME NEW u \in Runs, Finish(u) PROVE RowFitsCall' /\ FutureFitsCall' /\ WrittenOnce'
  BY <1>18 DEF Finish, List
<1>19. ASSUME NEW u \in Runs, NEW e \in Ends, NEW r \in Requests, CancelRow(u, e, r) PROVE RowFitsCall' /\ FutureFitsCall' /\ WrittenOnce'
  BY <1>19 DEF CancelRow, Resolve
<1>20. ASSUME NEW u \in Runs, NEW e \in Ends, Cancelled(u, e) PROVE RowFitsCall' /\ FutureFitsCall' /\ WrittenOnce'
  BY <1>20 DEF Cancelled
<1>21. ASSUME NEW x \in Undos, NEW r \in Requests, AskUndo(x, r) PROVE RowFitsCall' /\ FutureFitsCall' /\ WrittenOnce'
  BY <1>21 DEF AskUndo
<1>22. ASSUME NEW x \in Undos, Restore(x) PROVE RowFitsCall' /\ FutureFitsCall' /\ WrittenOnce'
  <2>1. UNCHANGED <<at, row, future, auto, undoable, wrote>>
    BY <1>22 DEF Restore
  <2>2. undo' \in [Undos -> UndoStates] /\ \A y \in Undos : undo'[y].of = undo[y].of
    BY <1>22 DEF Restore, UndoStates
  <2>3. \A y \in Undos : undo'[y].at \in {"restoring", "settling"} => undo[y].at \in {"restoring", "settling"}
    <3>1. undo[x].at = "restoring" /\ undo \in [Undos -> UndoStates]
      BY <1>22 DEF Restore
    <3>2. \A y \in Undos \ {x} : undo'[y] = undo[y]
      BY <1>22, <3>1 DEF Restore
    <3>3. QED
      BY <3>1, <3>2
  <2>4. QED
    BY <2>1, <2>2, <2>3
<1>23. ASSUME NEW x \in Undos, Undone(x) PROVE RowFitsCall' /\ FutureFitsCall' /\ WrittenOnce'
  BY <1>23 DEF Undone
<1>24. ASSUME NEW p \in Pages, Note(p) PROVE RowFitsCall' /\ FutureFitsCall' /\ WrittenOnce'
  BY <1>24 DEF Note
<1>25. ASSUME Restart PROVE RowFitsCall' /\ FutureFitsCall' /\ WrittenOnce'
  BY <1>25 DEF Restart, Recover
<1>26. CASE UNCHANGED vars
  BY <1>26 DEF vars
<1> HIDE DEF TypeOK, CallTypes, RowTypes, WikiTypes, UserTypes, RowFitsCall, FutureFitsCall,
        WrittenOnce, ClicksKnow, Outcome, Statuses, Places, None, call, rows, wiki, user, runs
<1>27. QED
  BY <1>1, <1>2, <1>3, <1>4, <1>5, <1>6, <1>7, <1>8, <1>9, <1>10, <1>11, <1>12, <1>13,
        <1>14, <1>15, <1>16, <1>17, <1>18, <1>19, <1>20, <1>21, <1>22, <1>23, <1>24, <1>25,
        <1>26
     DEF Next, Working, Answering, Ending, Undoing

LEMMA ClickStep ==
  ASSUME TypeOK, RowFitsCall, FutureFitsCall, WrittenOnce, ClicksKnow, [Next]_vars
  PROVE  ClicksKnow'
<1> USE KindsTyped DEF TypeOK, CallTypes, RowTypes, WikiTypes, UserTypes, ClickStates,
        Choices, ClicksKnow, RowFitsCall, FutureFitsCall, WrittenOnce, Outcome, Statuses,
        None, Places, call, rows, wiki, user, runs
<1>1. ASSUME NEW r \in Requests, Call(r) PROVE ClicksKnow'
  BY <1>1 DEF Call, Go
<1>2. ASSUME NEW r \in Requests, Plan(r) PROVE ClicksKnow'
  BY <1>2 DEF Plan, Go
<1>3. ASSUME NEW r \in Requests, Add(r) PROVE ClicksKnow'
  BY <1>3 DEF Add, Go
<1>4. ASSUME NEW r \in Requests, Added(r) PROVE ClicksKnow'
  BY <1>4 DEF Added, Go
<1>5. ASSUME NEW r \in Requests, Decided(r) PROVE ClicksKnow'
  BY <1>5 DEF Decided, Go, Waited
<1>6. ASSUME NEW r \in Requests, Apply(r) PROVE ClicksKnow'
  BY <1>6 DEF Apply, Go, Changed
<1>7. ASSUME NEW r \in Requests, Applied(r) PROVE ClicksKnow'
  BY <1>7 DEF Applied, Go
<1>8. ASSUME NEW r \in Requests, Settle(r) PROVE ClicksKnow'
  BY <1>8 DEF Settle, Go
<1>9. ASSUME NEW r \in Requests, Kill(r) PROVE ClicksKnow'
  BY <1>9 DEF Kill
<1>10. ASSUME NEW r \in Requests, Dropped(r) PROVE ClicksKnow'
  BY <1>10 DEF Dropped, Go, Waited
<1>11. ASSUME NEW c \in Clicks, NEW r \in Requests, NEW choice \in Choices, Decide(c, r, choice) PROVE ClicksKnow'
  BY <1>11 DEF Decide
<1>12. ASSUME NEW c \in Clicks, LookUp(c) PROVE ClicksKnow'
  BY <1>12 DEF LookUp, Press
<1>13. ASSUME NEW c \in Clicks, Record(c) PROVE ClicksKnow'
  BY <1>13 DEF Record, Press, Outcome
<1>14. ASSUME NEW c \in Clicks, RecordStale(c) PROVE ClicksKnow'
  BY <1>14 DEF RecordStale, Press
<1>15. ASSUME NEW c \in Clicks, Grant(c) PROVE ClicksKnow'
  BY <1>15 DEF Grant, Press
<1>16. ASSUME NEW c \in Clicks, Tell(c) PROVE ClicksKnow'
  BY <1>16 DEF Tell, Press, Resolve, Outcome
<1>17. ASSUME NEW u \in Runs, Stop(u) PROVE ClicksKnow'
  BY <1>17 DEF Stop, List
<1>18. ASSUME NEW u \in Runs, Finish(u) PROVE ClicksKnow'
  BY <1>18 DEF Finish, List
<1>19. ASSUME NEW u \in Runs, NEW e \in Ends, NEW r \in Requests, CancelRow(u, e, r) PROVE ClicksKnow'
  BY <1>19 DEF CancelRow, Resolve
<1>20. ASSUME NEW u \in Runs, NEW e \in Ends, Cancelled(u, e) PROVE ClicksKnow'
  BY <1>20 DEF Cancelled
<1>21. ASSUME NEW x \in Undos, NEW r \in Requests, AskUndo(x, r) PROVE ClicksKnow'
  BY <1>21 DEF AskUndo
<1>22. ASSUME NEW x \in Undos, Restore(x) PROVE ClicksKnow'
  BY <1>22 DEF Restore
<1>23. ASSUME NEW x \in Undos, Undone(x) PROVE ClicksKnow'
  BY <1>23 DEF Undone
<1>24. ASSUME NEW p \in Pages, Note(p) PROVE ClicksKnow'
  BY <1>24 DEF Note
<1>25. ASSUME Restart PROVE ClicksKnow'
  BY <1>25 DEF Restart, Recover
<1>26. CASE UNCHANGED vars
  BY <1>26 DEF vars
<1> HIDE DEF TypeOK, CallTypes, RowTypes, WikiTypes, UserTypes, ClickStates,
        RowFitsCall, FutureFitsCall,
        WrittenOnce, ClicksKnow, Outcome, Statuses, Choices, Places, None, call, rows, wiki, user, runs
<1>27. QED
  BY <1>1, <1>2, <1>3, <1>4, <1>5, <1>6, <1>7, <1>8, <1>9, <1>10, <1>11, <1>12, <1>13,
        <1>14, <1>15, <1>16, <1>17, <1>18, <1>19, <1>20, <1>21, <1>22, <1>23, <1>24, <1>25,
        <1>26
     DEF Next, Working, Answering, Ending, Undoing

\* A decision that won is never forgotten.
LEMMA WonStays ==
  ASSUME TypeOK, ClicksKnow, [Next]_vars
  PROVE  \A q \in Requests : \A C : Won(q, C) => Won(q, C)'
<1> USE DEF TypeOK, UserTypes, ClickStates, ClicksKnow
<1> DEFINE Kept(b) == click[b].won =>
             click'[b].won /\ click'[b].of = click[b].of /\ click'[b].choice = click[b].choice
<1> SUFFICES \A b \in Clicks : Kept(b)
  BY DEF Won
<1>1. ASSUME NEW c \in Clicks, NEW r \in Requests, NEW choice \in Choices, Decide(c, r, choice)
      PROVE  \A b \in Clicks : Kept(b)
  BY <1>1 DEF Decide
<1>2. ASSUME NEW c \in Clicks, LookUp(c) PROVE \A b \in Clicks : Kept(b)
  BY <1>2 DEF LookUp, Press
<1>3. ASSUME NEW c \in Clicks, Record(c) PROVE \A b \in Clicks : Kept(b)
  BY <1>3 DEF Record, Press
<1>4. ASSUME NEW c \in Clicks, RecordStale(c) PROVE \A b \in Clicks : Kept(b)
  BY <1>4 DEF RecordStale, Press
<1>5. ASSUME NEW c \in Clicks, Grant(c) PROVE \A b \in Clicks : Kept(b)
  BY <1>5 DEF Grant, Press
<1>6. ASSUME NEW c \in Clicks, Tell(c) PROVE \A b \in Clicks : Kept(b)
  BY <1>6 DEF Tell, Press
<1>7. ASSUME Restart PROVE \A b \in Clicks : Kept(b)
  BY <1>7 DEF Restart
<1>8. CASE UNCHANGED click
  BY <1>8
<1>9. QED
  BY <1>1, <1>2, <1>3, <1>4, <1>5, <1>6, <1>7, <1>8, ZenonT(40)
     DEF Next, Working, Answering, Ending, Undoing, vars, call, rows, wiki, user, runs, Call,
        Plan, Add, Added, Decided, Apply, Applied, Settle, Kill, Dropped, Stop, Finish, CancelRow,
        Cancelled, AskUndo, Restore, Undone, Note

LEMMA LeaveStep ==
  ASSUME TypeOK, RowFitsCall, FutureFitsCall, WrittenOnce, ClicksKnow, LeaveIsGiven, [Next]_vars
  PROVE  LeaveIsGiven'
<1> USE DEF ChatKind
<1>0. \A q \in Requests : \A C : Won(q, C) => Won(q, C)'
  BY WonStays
<1>a. row \in [Requests -> Statuses \cup {None}] /\ auto \subseteq Requests
  BY DEF TypeOK, RowTypes
\* A row that becomes neither allowed nor undone needs no leave.
<1>b. ASSUME NEW r \in Requests, UNCHANGED <<auto, grants>>,
             \E status \in {"pending", "denied", "cancelled"} : row' = [row EXCEPT ![r] = status]
      PROVE  LeaveIsGiven'
  BY <1>0, <1>a, <1>b DEF LeaveIsGiven
<1>c. CASE UNCHANGED <<row, auto, grants>>
  BY <1>0, <1>a, <1>c DEF LeaveIsGiven
<1>1. ASSUME NEW r \in Requests, Plan(r) PROVE LeaveIsGiven'
  <2>1. UNCHANGED <<row, grants>> /\ row[r] = None
    BY <1>1 DEF Plan, RowFitsCall
  <2>2. auto' = auto \/ (auto' = auto \cup {r} /\ Kind[r] \in Grantable /\ ChatKind(r) \in grants)
    BY <1>1 DEF Plan
  <2>3. QED
    BY <2>1, <2>2, <1>0, <1>a DEF LeaveIsGiven
<1>2. ASSUME NEW r \in Requests, Add(r) PROVE LeaveIsGiven'
  <2>1. CASE r \in auto
    BY <2>1, <1>0, <1>a, <1>2 DEF Add, LeaveIsGiven
  <2>2. CASE r \notin auto
    BY <2>2, <1>2, <1>b DEF Add
  <2>3. QED
    BY <2>1, <2>2
<1>3. ASSUME NEW r \in Requests, Settle(r) PROVE LeaveIsGiven'
  BY <1>3, <1>b, <1>c DEF Settle
<1>4. ASSUME NEW r \in Requests, Dropped(r) PROVE LeaveIsGiven'
  BY <1>4, <1>b, <1>c DEF Dropped
<1>5. ASSUME NEW c \in Clicks, Record(c) PROVE LeaveIsGiven'
  <2>1. CASE row[click[c].of] # "pending"
    BY <2>1, <1>5, <1>c DEF Record
  <2>2. CASE row[click[c].of] = "pending"
    <3>1. PICK q \in Requests : q = click[c].of
      BY <1>5 DEF Record, ClicksKnow
    <3>2. row' = [row EXCEPT ![q] = Outcome(c)] /\ UNCHANGED <<auto, grants>>
      BY <1>5, <2>2, <3>1 DEF Record
    <3>3. CASE click[c].choice = "deny"
      BY <3>1, <3>2, <3>3, <1>b DEF Outcome
    <3>4. CASE click[c].choice # "deny"
      <4>1. click[c].choice \in {"allow", "allow_chat"}
        BY <3>4 DEF TypeOK, UserTypes, ClickStates, Choices
      <4>2. Won(q, {"allow", "allow_chat"})'
        BY <3>1, <4>1, <1>5, <2>2 DEF Record, Won, TypeOK, UserTypes, ClickStates
      <4>3. QED
        BY <4>2, <3>1, <3>2, <1>0, <1>a DEF LeaveIsGiven
    <3>5. QED
      BY <3>3, <3>4
  <2>3. QED
    BY <2>1, <2>2
<1>6. ASSUME NEW c \in Clicks, RecordStale(c) PROVE LeaveIsGiven'
  BY <1>6, <1>b, <1>c DEF RecordStale, ClicksKnow
<1>7. ASSUME NEW c \in Clicks, Grant(c) PROVE LeaveIsGiven'
  <2>1. click[c].of \in Requests /\ Won(click[c].of, {"allow_chat"})
    BY <1>7 DEF Grant, ClicksKnow, Won
  <2>2. UNCHANGED <<row, auto>> /\ grants' = grants \cup {ChatKind(click[c].of)}
    BY <1>7 DEF Grant
  <2>3. QED
    BY <2>1, <2>2, <1>0, <1>a DEF LeaveIsGiven
<1>8. ASSUME NEW u \in Runs, NEW e \in Ends, NEW r \in Requests, CancelRow(u, e, r)
      PROVE  LeaveIsGiven'
  BY <1>8, <1>b, <1>c DEF CancelRow
<1>9. ASSUME NEW x \in Undos, Undone(x) PROVE LeaveIsGiven'
  <2>1. CASE UNCHANGED row
    BY <2>1, <1>9, <1>c DEF Undone
  <2>2. CASE row[undo[x].of] = "allowed"
    BY <2>2, <1>9, <1>0, <1>a DEF Undone, LeaveIsGiven
  <2>3. QED
    BY <2>1, <2>2, <1>9 DEF Undone
<1>10. ASSUME Restart PROVE LeaveIsGiven'
  BY <1>10, <1>0, <1>a DEF Restart, Recover, LeaveIsGiven
<1>11. QED
  BY <1>1, <1>2, <1>3, <1>4, <1>5, <1>6, <1>7, <1>8, <1>9, <1>10, <1>c
     DEF Next, Working, Answering, Ending, Undoing, vars, call, rows, wiki, user, runs, Call,
        Added, Decided, Apply, Applied, Kill, Decide, LookUp, Tell, Stop, Finish, Cancelled,
        AskUndo, Restore, Note

(***************************************************************************)
(* The invariant holds                                                     *)
(***************************************************************************)
PInv == TypeOK /\ RowFitsCall /\ FutureFitsCall /\ WrittenOnce /\ ClicksKnow /\ LeaveIsGiven

LEMMA InitPInv == Init => PInv
<1> SUFFICES ASSUME Init PROVE PInv
  OBVIOUS
<1>1. TypeOK
  BY RequestsTyped, RestartsNat
     DEF Init, TypeOK, CallTypes, RowTypes, WikiTypes, UserTypes, RunTypes, ClickStates, UndoStates,
         CancelStates, Versions, NoClick, NoUndo, NoCancel, Places, Choices, Ends, None
<1>2. RowFitsCall /\ FutureFitsCall /\ WrittenOnce
  BY DEF Init, RowFitsCall, FutureFitsCall, WrittenOnce, NoUndo, None, Statuses
<1>3. ClicksKnow /\ LeaveIsGiven
  BY DEF Init, ClicksKnow, LeaveIsGiven, NoClick, None
<1>4. QED
  BY <1>1, <1>2, <1>3 DEF PInv

LEMMA NextPInv == PInv /\ [Next]_vars => PInv'
<1> SUFFICES ASSUME PInv, [Next]_vars PROVE PInv'
  OBVIOUS
<1> USE DEF PInv
<1>1. TypeOK'
  BY CallTypesStep, RowTypesStep, WikiTypesStep, UserTypesStep, RunTypesStep DEF TypeOK
<1>2. QED
  BY <1>1, RowStep, ClickStep, LeaveStep

LEMMA AlwaysPInv == Spec => []PInv
<1>1. QED
  BY InitPInv, NextPInv, PTL DEF Spec

\* The type invariant of PermissionBroker's requests, rows, clicks and runs.
THEOREM PermissionTypes == Spec => []TypeOK
<1>1. PInv => TypeOK
  BY DEF PInv
<1>2. QED
  BY <1>1, AlwaysPInv, PTL

\* No wiki tool changes a page without the user's leave for this change or for its kind in
\* its chat: PermissionBroker.request and decide.
THEOREM NothingWithoutLeave == Spec => []OnlyWithLeave
<1>1. PInv => OnlyWithLeave
  <2> SUFFICES ASSUME PInv, NEW r \in wrote, ~Won(r, {"allow", "allow_chat"})
               PROVE  /\ r \in auto
                      /\ Kind[r] # "delete"
                      /\ \E q \in Requests : ChatKind(q) = ChatKind(r) /\ Won(q, {"allow_chat"})
    BY DEF OnlyWithLeave
  <2>1. r \in Requests /\ row[r] \in {"allowed", "undone"}
    BY DEF PInv, TypeOK, WikiTypes, WrittenOnce
  <2>2. r \in auto
    BY <2>1 DEF PInv, LeaveIsGiven
  <2>3. QED
    BY <2>2 DEF PInv, LeaveIsGiven, Grantable
<1>2. QED
  BY <1>1, AlwaysPInv, PTL

\* The row of a written change never says pending, denied or cancelled.
THEOREM RefusedStaysUnwritten == Spec => []RefusedIsNotWritten
<1>1. PInv => RefusedIsNotWritten
  BY DEF PInv, WrittenOnce, RefusedIsNotWritten
<1>2. QED
  BY <1>1, AlwaysPInv, PTL

\* What resolves the future of a waiting call is what the row says (decide, cancel_run).
THEOREM AgentHearsTruth == Spec => []AgentHearsTheRow
<1>1. PInv => AgentHearsTheRow
  BY DEF PInv, FutureFitsCall, AgentHearsTheRow
<1>2. QED
  BY <1>1, AlwaysPInv, PTL

\* recover leaves no lost call with a pending row.
THEOREM RestartLeavesNothing == Spec => []NothingWaitsAfterRestart
<1>1. PInv => NothingWaitsAfterRestart
  BY DEF PInv, RowFitsCall, NothingWaitsAfterRestart
<1>2. QED
  BY <1>1, AlwaysPInv, PTL

\* Of all the clicks on a request one wins: update_permission(expect=("pending",)).
THEOREM DecidedOnce == Spec => []OneDecision
<1>1. Init => OneDecision
  BY DEF Init, OneDecision, NoClick
<1>2. PInv /\ OneDecision /\ [Next]_vars => OneDecision'
  <2> SUFFICES ASSUME PInv, OneDecision, [Next]_vars PROVE OneDecision'
    OBVIOUS
  <2> USE DEF PInv, TypeOK, UserTypes, ClickStates, ClicksKnow, OneDecision
  <2>1. ASSUME NEW c \in Clicks, NEW r \in Requests, NEW choice \in Choices, Decide(c, r, choice)
        PROVE  OneDecision'
    BY <2>1 DEF Decide
  <2>2. ASSUME NEW c \in Clicks, LookUp(c) PROVE OneDecision'
    BY <2>2 DEF LookUp, Press
  <2>3. ASSUME NEW c \in Clicks, Record(c) PROVE OneDecision'
    BY <2>3 DEF Record, Press
  <2>4. ASSUME NEW c \in Clicks, RecordStale(c) PROVE OneDecision'
    BY <2>4 DEF RecordStale, Press
  <2>5. ASSUME NEW c \in Clicks, Grant(c) PROVE OneDecision'
    BY <2>5 DEF Grant, Press
  <2>6. ASSUME NEW c \in Clicks, Tell(c) PROVE OneDecision'
    BY <2>6 DEF Tell, Press
  <2>7. ASSUME Restart PROVE OneDecision'
    BY <2>7 DEF Restart
  <2>8. CASE UNCHANGED click
    BY <2>8
  <2>9. QED
    BY <2>1, <2>2, <2>3, <2>4, <2>5, <2>6, <2>7, <2>8, ZenonT(40)
       DEF Next, Working, Answering, Ending, Undoing, vars, call, rows, wiki, user, runs, Call,
          Plan, Add, Added, Decided, Apply, Applied, Settle, Kill, Dropped, Stop, Finish, CancelRow,
          Cancelled, AskUndo, Restore, Undone, Note
<1>3. QED
  BY <1>1, <1>2, AlwaysPInv, PTL DEF Spec

\* A request has one verdict: the three facts above together.
THEOREM VerdictIsOne == Spec => []OneVerdict
<1>1. OneDecision /\ AgentHearsTheRow /\ NothingWaitsAfterRestart => OneVerdict
  BY DEF OneVerdict
<1>2. QED
  BY <1>1, DecidedOnce, AgentHearsTruth, RestartLeavesNothing, PTL

\* The waits of a run are counted exactly, whether a call is decided, cancelled or abandoned
\* (RunWaits.begin and end): its deadline never stands still for a call that is gone.
THEOREM DeadlineExact == Spec => []DeadlineStandsStill
<1> DEFINE W(u) == {r \in Requests : RunOf[r] = u /\ at[r] = "waiting"}
<1>1. Init => DeadlineStandsStill
  <2> SUFFICES ASSUME Init, NEW u \in Runs PROVE open[u] = Cardinality(W(u))
    BY DEF DeadlineStandsStill
  <2>1. W(u) = {}
    BY DEF Init
  <2>2. QED
    BY <2>1, FS_EmptySet DEF Init
<1>2. PInv /\ DeadlineStandsStill /\ [Next]_vars => DeadlineStandsStill'
  <2> SUFFICES ASSUME PInv, DeadlineStandsStill, [Next]_vars, NEW v \in Runs
               PROVE  open'[v] = Cardinality(W(v)')
    BY DEF DeadlineStandsStill
  <2>0. at \in [Requests -> Places] /\ open \in [Runs -> Nat] /\ RunOf \in [Requests -> Runs]
    BY RequestsTyped DEF PInv, TypeOK, CallTypes
  <2>a. IsFiniteSet(W(v)) /\ Cardinality(W(v)) \in Nat /\ open[v] = Cardinality(W(v))
    BY RequestsFinite, FS_Subset, FS_CardinalityType DEF DeadlineStandsStill
  \* A call that moves without waiting before or after.
  <2>b. ASSUME NEW r \in Requests, NEW place \in Places \ {"waiting"}, at[r] # "waiting",
               Go(r, place), UNCHANGED open
        PROVE  open'[v] = Cardinality(W(v)')
    <3>1. W(v)' = W(v)
      BY <2>0, <2>b DEF Go
    <3>2. QED
      BY <2>a, <2>b, <3>1
  \* A call that no longer waits.
  <2>c. ASSUME NEW r \in Requests, NEW place \in Places \ {"waiting"}, at[r] = "waiting",
               Go(r, place), Waited(r)
        PROVE  open'[v] = Cardinality(W(v)')
    <3>1. CASE RunOf[r] = v
      <4>1. W(v)' = W(v) \ {r} /\ r \in W(v)
        BY <2>0, <2>c, <3>1 DEF Go
      <4>2. Cardinality(W(v)') = Cardinality(W(v)) - 1 /\ W(v) # {}
        BY <2>a, <4>1, FS_RemoveElement
      <4>3. Cardinality(W(v)) # 0
        BY <2>a, <4>2, FS_EmptySet
      <4>4. open'[v] = IF open[v] = 0 THEN 0 ELSE open[v] - 1
        BY <2>0, <2>c, <3>1 DEF Waited
      <4>5. QED
        BY <2>a, <4>2, <4>3, <4>4
    <3>2. CASE RunOf[r] # v
      <4>1. W(v)' = W(v)
        BY <2>0, <2>c, <3>2 DEF Go
      <4>2. open'[v] = open[v]
        BY <2>0, <2>c, <3>2 DEF Waited
      <4>3. QED
        BY <2>a, <4>1, <4>2
    <3>3. QED
      BY <3>1, <3>2
  <2>1. ASSUME NEW r \in Requests, Added(r) PROVE open'[v] = Cardinality(W(v)')
    <3>1. CASE r \in auto
      BY <2>1, <2>b, <3>1 DEF Added, Places
    <3>2. CASE r \notin auto /\ RunOf[r] = v
      <4>1. W(v)' = W(v) \cup {r} /\ r \notin W(v)
        BY <2>0, <2>1, <3>2 DEF Added, Go
      <4>2. Cardinality(W(v)') = Cardinality(W(v)) + 1
        BY <2>a, <4>1, FS_AddElement
      <4>3. open'[v] = open[v] + 1
        BY <2>0, <2>1, <3>2 DEF Added
      <4>4. QED
        BY <2>a, <4>2, <4>3
    <3>3. CASE r \notin auto /\ RunOf[r] # v
      <4>1. W(v)' = W(v)
        BY <2>0, <2>1, <3>3 DEF Added, Go
      <4>2. open'[v] = open[v]
        BY <2>0, <2>1, <3>3 DEF Added
      <4>3. QED
        BY <2>a, <4>1, <4>2
    <3>4. QED
      BY <3>1, <3>2, <3>3
  <2>2. ASSUME NEW r \in Requests, Decided(r) PROVE open'[v] = Cardinality(W(v)')
    BY <2>2, <2>c DEF Decided, Places
  <2>3. ASSUME NEW r \in Requests, Dropped(r) PROVE open'[v] = Cardinality(W(v)')
    <3>1. CASE at[r] = "waiting"
      BY <2>3, <2>c, <3>1 DEF Dropped, Places
    <3>2. CASE at[r] # "waiting"
      BY <2>3, <2>b, <3>2 DEF Dropped, Places
    <3>3. QED
      BY <3>1, <3>2
  <2>4. ASSUME NEW r \in Requests,
               Call(r) \/ Plan(r) \/ Add(r) \/ Apply(r) \/ Applied(r) \/ Settle(r)
        PROVE  open'[v] = Cardinality(W(v)')
    <3>1. PICK place \in Places \ {"waiting"} : Go(r, place)
      BY <2>4 DEF Call, Plan, Add, Apply, Applied, Settle, Places, Go
    <3>2. at[r] # "waiting" /\ UNCHANGED open
      BY <2>4 DEF Call, Plan, Add, Apply, Applied, Settle
    <3>3. QED
      BY <3>1, <3>2, <2>b
  <2>5. ASSUME Restart PROVE open'[v] = Cardinality(W(v)')
    <3>1. W(v)' = {}
      BY <2>5 DEF Restart
    <3>2. QED
      BY <2>5, <3>1, FS_EmptySet DEF Restart
  <2>6. CASE UNCHANGED <<at, open>>
    BY <2>6, <2>a
  <2>7. QED
    BY <2>1, <2>2, <2>3, <2>4, <2>5, <2>6
       DEF Next, Working, Answering, Ending, Undoing, vars, call, rows, wiki, user, runs, Kill,
          Decide, LookUp, Record, RecordStale, Grant, Tell, Stop, Finish, CancelRow, Cancelled,
          AskUndo, Restore, Undone, Note
<1>3. QED
  BY <1>1, <1>2, AlwaysPInv, PTL DEF Spec

\* Neither _apply nor _restore removes the user's words: both look at the page again under
\* the write lock.
THEOREM WordsStay == Spec => UsersWordsStay
<1> DEFINE Safe == \A p \in Pages : page[p].note => page'[p].note
<1>1. PInv /\ [Next]_vars => [Safe]_page
  <2> SUFFICES ASSUME PInv, [Next]_vars, page' # page PROVE Safe
    OBVIOUS
  <2>0. page \in [Pages -> Versions]
    BY DEF PInv, TypeOK, WikiTypes
  <2>1. ASSUME NEW r \in Requests, Apply(r) PROVE Safe
    <3>1. page' = [page EXCEPT ![PageOf[r]] = Changed(r)] /\ ~(Kind[r] = "delete" /\ page[PageOf[r]].note)
      BY <2>1 DEF Apply, wiki
    <3>2. page[PageOf[r]].note => Changed(r).note
      BY <3>1, KindsTyped DEF Changed
    <3>3. QED
      BY <2>0, <3>1, <3>2
  <2>2. ASSUME NEW x \in Undos, Restore(x) PROVE Safe
    <3> DEFINE r == undo[x].of
    <3>1. page' = [page EXCEPT ![PageOf[r]] = before[r]] /\ Untouched(r)
      BY <2>2 DEF Restore
    <3>2. page[PageOf[r]].note => before[r].note
      <4>1. page[PageOf[r]].note = (before[r].note /\ Kind[r] = "edit")
        BY <3>1 DEF Untouched
      <4>2. QED
        BY <4>1
    <3>3. QED
      BY <2>0, <3>1, <3>2
  <2>3. ASSUME NEW p \in Pages, Note(p) PROVE Safe
    <3>1. page' = [page EXCEPT ![p] = [page[p] EXCEPT !.note = TRUE]] /\ page[p] \in Versions
      BY <2>3, <2>0 DEF Note
    <3>2. [page[p] EXCEPT !.note = TRUE].note
      BY <3>1 DEF Versions
    <3>3. QED
      BY <2>0, <3>1, <3>2
  <2>4. QED
    BY <2>1, <2>2, <2>3, ZenonT(40)
       DEF Next, Working, Answering, Ending, Undoing, vars, call, rows, wiki, user, runs, Call,
          Plan, Add, Added, Decided, Applied, Settle, Kill, Dropped, Decide, LookUp, Record,
          RecordStale, Grant, Tell, Stop, Finish, CancelRow, Cancelled, AskUndo, Undone, Restart
<1>2. QED
  BY <1>1, AlwaysPInv, PTL DEF Spec, UsersWordsStay

(***************************************************************************)
(* An undone change stays out                                              *)
(***************************************************************************)
By(p) == page[p].by
Was(q) == before[q].by

\* Every version of a page, and every snapshot, names a change of that page that was written.
WrittenByName ==
  /\ \A p \in Pages : By(p) # None => By(p) \in wrote /\ PageOf[By(p)] = p
  /\ \A q \in wrote : Was(q) # None => Was(q) \in wrote /\ PageOf[Was(q)] = PageOf[q]

\* S is the set of changes that were taken out.  No page holds one, and no snapshot from which a
\* page may still be put back; the changes that are in are a chain: each was written over a
\* different one, and none over the last.
Chain(S) ==
  /\ S \subseteq wrote
  /\ \A p \in Pages : By(p) \notin S
  /\ \A q \in wrote \ S : Was(q) \notin S
  /\ \A q \in wrote \ S : Was(q) # None => Was(q) # By(PageOf[q])
  /\ \A q, r \in wrote \ S : Was(q) # None /\ Was(q) = Was(r) => q = r
  /\ \A r \in Requests : row[r] = "undone" => r \in S
  /\ \A x \in Undos : undo[x].at = "settling" => undo[x].of \in S

OutStaysOut == \E S \in SUBSET Requests : Chain(S)

LEMMA NameStep == PInv /\ WrittenByName /\ [Next]_vars => WrittenByName'
<1> SUFFICES ASSUME PInv, WrittenByName, [Next]_vars PROVE WrittenByName'
  OBVIOUS
<1>0. /\ page \in [Pages -> Versions]
      /\ before \in [Requests -> Versions]
      /\ wrote \subseteq Requests
  BY DEF PInv, TypeOK, WikiTypes, RowTypes
<1>1. ASSUME NEW r \in Requests, Apply(r) PROVE WrittenByName'
  <2>1. CASE UNCHANGED <<before, wiki>>
    BY <2>1 DEF WrittenByName, By, Was, wiki
  <2>2. CASE /\ before' = [before EXCEPT ![r] = page[PageOf[r]]]
             /\ page' = [page EXCEPT ![PageOf[r]] = Changed(r)]
             /\ wrote' = wrote \cup {r}
    <3>1. Changed(r).by = r /\ PageOf[r] \in Pages
      BY RequestsTyped DEF Changed
    <3>2. \A p \in Pages : By(p)' = IF p = PageOf[r] THEN r ELSE By(p)
      BY <1>0, <2>2, <3>1 DEF By
    <3>3. \A q \in Requests : Was(q)' = IF q = r THEN By(PageOf[r]) ELSE Was(q)
      BY <1>0, <2>2 DEF By, Was
    <3>4. QED
      BY <1>0, <2>2, <3>1, <3>2, <3>3 DEF WrittenByName
  <2>3. QED
    BY <1>1, <2>1, <2>2 DEF Apply
<1>2. ASSUME NEW x \in Undos, Restore(x) PROVE WrittenByName'
  <2>1. PICK r \in wrote : r = undo[x].of
    BY <1>2 DEF Restore, PInv, WrittenOnce
  <2>2. CASE UNCHANGED page
    BY <1>2, <2>2 DEF Restore, rows, WrittenByName, By, Was
  <2>3. CASE page' = [page EXCEPT ![PageOf[r]] = before[r]]
    <3>1. \A p \in Pages : By(p)' = IF p = PageOf[r] THEN Was(r) ELSE By(p)
      BY <1>0, <2>3 DEF By, Was
    <3>2. UNCHANGED wrote /\ \A q \in Requests : Was(q)' = Was(q)
      BY <1>2 DEF Restore, rows, Was
    <3>3. QED
      BY <1>0, <2>1, <3>1, <3>2 DEF WrittenByName
  <2>4. QED
    BY <1>2, <2>1, <2>2, <2>3 DEF Restore
<1>3. ASSUME NEW p \in Pages, Note(p) PROVE WrittenByName'
  <2>1. \A q \in Pages : By(q)' = By(q)
    <3>1. page' = [page EXCEPT ![p] = [page[p] EXCEPT !.note = TRUE]] /\ page[p] \in Versions
      BY <1>0, <1>3 DEF Note
    <3>2. [page[p] EXCEPT !.note = TRUE].by = page[p].by
      BY <3>1 DEF Versions
    <3>3. QED
      BY <1>0, <3>1, <3>2 DEF By
  <2>2. UNCHANGED wrote /\ \A q \in Requests : Was(q)' = Was(q)
    BY <1>3 DEF Note, rows, Was
  <2>3. QED
    BY <1>0, <2>1, <2>2 DEF WrittenByName
<1>4. CASE UNCHANGED <<page, before, wrote>>
  BY <1>4 DEF WrittenByName, By, Was
<1>5. QED
  BY <1>1, <1>2, <1>3, <1>4, ZenonT(40)
     DEF Next, Working, Answering, Ending, Undoing, vars, call, rows, wiki, user, runs, Call,
        Plan, Add, Added, Decided, Applied, Settle, Kill, Dropped, Decide, LookUp, Record,
        RecordStale, Grant, Tell, Stop, Finish, CancelRow, Cancelled, AskUndo, Undone, Restart

\* A change is written over the last one: nothing that was taken out comes back with it.
LEMMA ApplyChains ==
  ASSUME PInv, WrittenByName, NEW S \in SUBSET Requests, Chain(S), NEW r \in Requests, Apply(r)
  PROVE  Chain(S)'
<1>0. /\ page \in [Pages -> Versions]
      /\ before \in [Requests -> Versions]
      /\ wrote \subseteq Requests
      /\ PageOf[r] \in Pages
  BY RequestsTyped DEF PInv, TypeOK, WikiTypes, RowTypes
<1>1. CASE UNCHANGED <<before, wiki>>
  BY <1>1 DEF Apply, user, wiki, Chain, By, Was
<1>2. CASE /\ before' = [before EXCEPT ![r] = page[PageOf[r]]]
           /\ page' = [page EXCEPT ![PageOf[r]] = Changed(r)]
           /\ wrote' = wrote \cup {r}
  <2>1. r \notin wrote
    BY DEF Apply, PInv, WrittenOnce
  <2>2. Changed(r).by = r
    BY DEF Changed
  <2>3. \A p \in Pages : By(p)' = IF p = PageOf[r] THEN r ELSE By(p)
    BY <1>0, <1>2, <2>2 DEF By
  <2>4. \A q \in Requests : Was(q)' = IF q = r THEN By(PageOf[r]) ELSE Was(q)
    BY <1>0, <1>2 DEF By, Was
  <2>5. By(PageOf[r]) # r /\ r # None
    BY <1>0, <2>1, RequestsNamed DEF WrittenByName, None
  <2>6. \A q \in wrote : Was(q) # r
    BY <2>1, <2>5 DEF WrittenByName
  <2>7. UNCHANGED <<row, undo>>
    BY DEF Apply, user
  <2>8. (S \subseteq wrote)' /\ r \notin S
    BY <1>2, <2>1 DEF Chain
  <2>9. /\ \A p \in Pages : By(p)' \notin S
        /\ \A q \in wrote' \ S : Was(q)' \notin S
    BY <1>0, <1>2, <2>3, <2>4, <2>8 DEF Chain
  <2>10. \A q \in wrote' \ S : Was(q)' # None => Was(q)' # By(PageOf[q])'
    <3> SUFFICES ASSUME NEW q \in wrote' \ S, Was(q)' # None PROVE Was(q)' # By(PageOf[q])'
      OBVIOUS
    <3>1. q \in Requests /\ PageOf[q] \in Pages
      BY <1>0, <1>2, RequestsTyped
    <3>2. CASE q = r
      BY <3>1, <3>2, <2>3, <2>4, <2>5
    <3>3. CASE q # r
      BY <3>1, <3>3, <1>2, <2>3, <2>4, <2>6 DEF Chain
    <3>4. QED
      BY <3>2, <3>3
  <2>11. \A q \in wrote \ S : Was(q) # None => Was(q) # By(PageOf[r])
    BY <1>0 DEF Chain, WrittenByName
  <2>12. \A p, q \in wrote' \ S : Was(p)' # None /\ Was(p)' = Was(q)' => p = q
    <3> SUFFICES ASSUME NEW p \in wrote' \ S, NEW q \in wrote' \ S, Was(p)' # None, Was(p)' = Was(q)'
                 PROVE  p = q
      OBVIOUS
    <3>1. p \in wrote \cup {r} /\ q \in wrote \cup {r}
      BY <1>2
    <3>2. QED
      BY <1>0, <3>1, <2>4, <2>11 DEF Chain
  <2>13. QED
    BY <2>7, <2>8, <2>9, <2>10, <2>12 DEF Chain
<1>3. QED
  BY <1>1, <1>2 DEF Apply

\* The last change is taken out: what it was written over is in, and is the last one again.
LEMMA RestoreChains ==
  ASSUME PInv, WrittenByName, NEW S \in SUBSET Requests, Chain(S), NEW x \in Undos, Restore(x)
  PROVE  OutStaysOut'
<1>0. /\ page \in [Pages -> Versions]
      /\ before \in [Requests -> Versions]
      /\ wrote \subseteq Requests
      /\ undo \in [Undos -> UndoStates]
  BY DEF PInv, TypeOK, WikiTypes, RowTypes, UserTypes
<1>1. PICK r \in wrote : r = undo[x].of
  BY DEF Restore, PInv, WrittenOnce
<1>2. UNCHANGED <<row, before, wrote>> /\ \A q \in Requests : Was(q)' = Was(q)
  BY DEF Restore, rows, Was
<1>3. CASE ~Untouched(r)
  <2>1. page' = page /\ undo' = [undo EXCEPT ![x].at = "over"]
    BY <1>1, <1>3 DEF Restore
  <2>2. \A y \in Undos : undo'[y].at = "settling" => undo[y].at = "settling" /\ undo'[y].of = undo[y].of
    BY <1>0, <2>1 DEF UndoStates
  <2>3. Chain(S)'
    BY <1>2, <2>1, <2>2 DEF Chain, By, Was
  <2>4. QED
    BY <2>3 DEF OutStaysOut
<1>4. CASE Untouched(r)
  <2> DEFINE T == S \cup {r}
  <2>1. page' = [page EXCEPT ![PageOf[r]] = before[r]] /\ undo' = [undo EXCEPT ![x].at = "settling"]
    BY <1>1, <1>4 DEF Restore
  <2>2. \A p \in Pages : By(p)' = IF p = PageOf[r] THEN Was(r) ELSE By(p)
    BY <1>0, <2>1 DEF By, Was
  <2>3. By(PageOf[r]) = r /\ PageOf[r] \in Pages /\ r \in Requests
    BY <1>0, <1>1, <1>4, RequestsTyped DEF Untouched, By
  <2>4. r \notin S
    BY <2>3 DEF Chain
  <2>5. Was(r) \notin T
    BY <1>1, <2>3, <2>4, RequestsNamed DEF Chain, None
  <2>6. \A p \in Pages : By(p)' \notin T
    BY <2>2, <2>3, <2>5, RequestsNamed DEF Chain, WrittenByName, None
  <2>7. \A q \in wrote \ T : Was(q) \notin T
    BY <1>0, <2>3, RequestsNamed DEF Chain, WrittenByName, None
  <2>8. \A q \in wrote \ T : Was(q) # None => Was(q) # By(PageOf[q])'
    BY <1>0, <1>1, <2>2, <2>4, RequestsTyped DEF Chain
  <2>9. \A y \in Undos : undo'[y].at = "settling" => undo'[y].of \in T
    BY <1>0, <1>1, <2>1 DEF Chain, UndoStates
  <2>10. Chain(T)'
    BY <1>0, <1>1, <1>2, <2>6, <2>7, <2>8, <2>9 DEF Chain
  <2>11. T \in SUBSET Requests
    BY <2>3
  <2>12. QED
    BY <2>10, <2>11 DEF OutStaysOut
<1>5. QED
  BY <1>3, <1>4

LEMMA OutStep == PInv /\ WrittenByName /\ OutStaysOut /\ [Next]_vars => OutStaysOut'
<1> SUFFICES ASSUME PInv, WrittenByName, OutStaysOut, [Next]_vars PROVE OutStaysOut'
  OBVIOUS
<1>0. PICK S \in SUBSET Requests : Chain(S)
  BY DEF OutStaysOut
<1>t. row \in [Requests -> Statuses \cup {None}] /\ undo \in [Undos -> UndoStates]
  BY DEF PInv, TypeOK, RowTypes, UserTypes
<1>c. ASSUME Chain(S)' PROVE OutStaysOut'
  BY <1>c DEF OutStaysOut
\* A step that takes nothing out.
<1>b. ASSUME \A p \in Pages : By(p)' = By(p), UNCHANGED <<before, wrote>>,
             \A r \in Requests : row'[r] = "undone" => r \in S,
             \A x \in Undos : undo'[x].at = "settling" => undo[x].at = "settling" /\ undo'[x].of = undo[x].of
      PROVE  OutStaysOut'
  <2>1. \A q \in wrote : Was(q)' = Was(q) /\ By(PageOf[q])' = By(PageOf[q])
    BY <1>b, RequestsTyped DEF Was, PInv, TypeOK, WikiTypes
  <2>2. Chain(S)'
    BY <1>0, <1>b, <2>1 DEF Chain
  <2>3. QED
    BY <2>2, <1>c
<1>1. ASSUME NEW r \in Requests, Apply(r) PROVE OutStaysOut'
  BY <1>0, <1>1, <1>c, ApplyChains
<1>2. ASSUME NEW x \in Undos, Restore(x) PROVE OutStaysOut'
  BY <1>0, <1>2, RestoreChains
<1>3. ASSUME NEW p \in Pages, Note(p) PROVE OutStaysOut'
  <2>0. page \in [Pages -> Versions]
    BY DEF PInv, TypeOK, WikiTypes
  <2>1. page' = [page EXCEPT ![p] = [page[p] EXCEPT !.note = TRUE]] /\ page[p] \in Versions
    BY <1>3, <2>0 DEF Note
  <2>2. [page[p] EXCEPT !.note = TRUE].by = page[p].by
    BY <2>1 DEF Versions
  <2>3. \A q \in Pages : By(q)' = By(q)
    BY <2>0, <2>1, <2>2 DEF By
  <2>4. UNCHANGED <<before, wrote, row, undo>>
    BY <1>3 DEF Note, rows, user
  <2>5. QED
    BY <1>0, <1>b, <2>3, <2>4 DEF Chain
<1>4. ASSUME UNCHANGED <<page, before, wrote, undo>>,
             \A r \in Requests : row'[r] = "undone" => row[r] = "undone"
      PROVE  OutStaysOut'
  BY <1>0, <1>4, <1>b DEF Chain, By
<1>5. ASSUME NEW r \in Requests, UNCHANGED <<page, before, wrote, undo>>,
             \E status \in Statuses \ {"undone"} : row' = [row EXCEPT ![r] = status] \/ row' = row
      PROVE  OutStaysOut'
  BY <1>t, <1>4, <1>5
<1>6. ASSUME NEW r \in Requests, Add(r) \/ Settle(r) \/ Dropped(r) PROVE OutStaysOut'
  BY <1>5, <1>6 DEF Add, Settle, Dropped, Statuses, wiki, user
<1>7. ASSUME NEW c \in Clicks, Record(c) \/ RecordStale(c) PROVE OutStaysOut'
  <2>1. click[c].of \in Requests
    BY <1>7 DEF PInv, ClicksKnow, Record, RecordStale
  <2>2. UNCHANGED <<page, before, wrote, undo>>
    BY <1>7 DEF Record, RecordStale, wiki
  <2>3. \E status \in Statuses \ {"undone"} : row' = [row EXCEPT ![click[c].of] = status] \/ row' = row
    BY <1>7 DEF Record, RecordStale, Outcome, Statuses
  <2>4. QED
    BY <1>t, <1>4, <2>1, <2>2, <2>3
<1>8. ASSUME NEW u \in Runs, NEW e \in Ends, NEW r \in Requests, CancelRow(u, e, r)
      PROVE  OutStaysOut'
  BY <1>5, <1>8 DEF CancelRow, Statuses, wiki, user
<1>9. ASSUME NEW x \in Undos, NEW r \in Requests, AskUndo(x, r) PROVE OutStaysOut'
  <2>1. \A y \in Undos : undo'[y].at = "settling" => undo[y].at = "settling" /\ undo'[y].of = undo[y].of
    BY <1>t, <1>9 DEF AskUndo, UndoStates
  <2>2. QED
    BY <1>0, <1>9, <1>b, <2>1 DEF AskUndo, rows, wiki, Chain, By
<1>10. ASSUME NEW x \in Undos, Undone(x) PROVE OutStaysOut'
  <2>1. undo[x].of \in S
    BY <1>0, <1>10 DEF Undone, Chain
  <2>2. \A y \in Undos : undo'[y].at = "settling" => undo[y].at = "settling" /\ undo'[y].of = undo[y].of
    BY <1>t, <1>10 DEF Undone, UndoStates
  <2>3. \A r \in Requests : row'[r] = "undone" => r \in S
    BY <1>0, <1>t, <1>10, <2>1 DEF Undone, Chain
  <2>4. QED
    BY <1>10, <1>b, <2>2, <2>3 DEF Undone, wiki, By
<1>11. ASSUME Restart PROVE OutStaysOut'
  <2>1. \A r \in Requests : row'[r] = "undone" => r \in S
    BY <1>0, <1>11 DEF Restart, Recover, Chain
  <2>2. \A y \in Undos : undo'[y].at # "settling"
    BY <1>t, <1>11 DEF Restart, UndoStates
  <2>3. QED
    BY <1>11, <1>b, <2>1, <2>2 DEF Restart, wiki, By
<1>12. CASE UNCHANGED <<page, before, wrote, undo, row>>
  BY <1>4, <1>12
<1>13. QED
  BY <1>1, <1>2, <1>3, <1>6, <1>7, <1>8, <1>9, <1>10, <1>11, <1>12, ZenonT(40)
     DEF Next, Working, Answering, Ending, Undoing, vars, call, rows, wiki, user, runs, Call,
        Plan, Added, Decided, Applied, Kill, Decide, LookUp, Grant, Tell, Stop, Finish, Cancelled

\* An undone change is in no page and no later Undo brings it back: _restore looks at the page
\* under the write lock, and puts back only what the last change was written over.
THEOREM UndoneStaysOut == Spec => []UndoneIsGone
<1>1. Init => WrittenByName /\ OutStaysOut
  <2> SUFFICES ASSUME Init PROVE WrittenByName /\ OutStaysOut
    OBVIOUS
  <2>1. \A p \in Pages : By(p) = None
    BY DEF Init, By
  <2>2. Chain({})
    BY <2>1 DEF Init, Chain, NoUndo, None
  <2>3. QED
    BY <2>1, <2>2 DEF Init, WrittenByName, OutStaysOut
<1>2. OutStaysOut => UndoneIsGone
  BY RequestsTyped DEF OutStaysOut, Chain, UndoneIsGone, By
<1>3. QED
  BY <1>1, <1>2, AlwaysPInv, NameStep, OutStep, PTL DEF Spec
===============================================================================
