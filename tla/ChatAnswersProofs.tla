---------------------------- MODULE ChatAnswersProofs ----------------------------
(***************************************************************************)
(* Theorems about ChatAnswers, for any number of answers, requests, agents *)
(* that ask, and restarts.                                                 *)
(*                                                                         *)
(* A chat has one way to a run: a request that found the chat free and     *)
(* reserved it (ReserveFits).  What is stored of an answer follows the run *)
(* of it, and a part changed afterwards writes back what was read when the *)
(* run was over (StreamFits); a row whose last save was cut off follows    *)
(* nobody, and both invariants leave it out by name (GivenUp).  A row of a *)
(* question that has left "pending" is never pending again, and whoever    *)
(* took it there tells its future what the row says (HearFits).  An agent  *)
(* that waits has a pending row, somebody about to tell it, or its own     *)
(* cancelled run, and an option that won its row is told once (ToldFits).  *)
(* A changed part is in the message of the run, then in what the run       *)
(* saves, then in the row, and a change that is read later writes back a   *)
(* row nobody has written since, but a close (StoreFits).                  *)
(***************************************************************************)
EXTENDS ChatAnswers, FiniteSetTheorems, SequenceTheorems, TLAPS

Ids == Answers \cup {None}
Rows == [state : States, parts : SUBSET Requests]
Working == {"cancels", "tells", "logs", "reads", "saves", "saved"}
RunAts == {"none", "turn", "ended"} \cup Working
RunSet == [at : RunAts, parts : SUBSET Requests, saved : SUBSET Requests, state : States,
           stopping : BOOLEAN, closing : BOOLEAN, deleted : BOOLEAN, kill : BOOLEAN,
           cut : BOOLEAN]
Statuses == {"none", "pending", "answered", "late", "superseded", "cancelled"}
Futures == {"none", "adding", "waits", "leaked", "gone", "option", "words", "stopped"}
ReqAts == {"idle", "asking", "inserted", "look", "late", "words", "closing", "close", "closed", "pick",
           "picked", "failed", "stops", "stopTells", "waits", "gathers", "removes", "changes"}
Kinds == {"none", "send", "late", "regenerate", "resume", "edit", "stop", "delete"}
ReqSet == [at : ReqAts, kind : Kinds, on : Ids, list : SUBSET Answers, seen : Rows]
Closers == [at : {"open", "cancels", "tells", "waits", "saves", "killed", "over"},
            on : Ids, seen : SUBSET Requests]

Types ==
  /\ exists \in BOOLEAN /\ thread \in Seq(Answers)
  /\ to \in [Answers -> Ids] /\ kept \in [Answers -> Rows]
  /\ asked \in [Answers -> Statuses] /\ future \in [Answers -> Futures]
  /\ runs \in Ids /\ reserved \in BOOLEAN /\ run \in [Answers -> RunSet]
  /\ req \in [Requests -> ReqSet]
  /\ acked \in [Answers -> SUBSET Requests] /\ unheard \subseteq Requests
  /\ closer \in Closers
  /\ begun \in Nat /\ restarts \in Nat

LEMMA NoneIsNone == None \notin Answers /\ None \in Ids
  BY AnswersNumbered DEF None, Ids

LEMMA Constants ==
  /\ NoRow \in Rows /\ NoRun \in RunSet /\ NoRequest \in ReqSet /\ CloserOpen \in Closers
  /\ "streaming" \in States /\ Ended \subseteq States
<1>1. NoRow \in Rows /\ NoRun \in RunSet /\ CloserOpen \in Closers /\ "streaming" \in States /\ Ended \subseteq States
  BY DEF NoRow, Rows, NoRun, RunSet, RunAts, States, Ended, CloserOpen, Closers, Ids
<1>2. NoRequest \in ReqSet
  BY <1>1 DEF NoRequest, ReqSet, ReqAts, Kinds, Ids
<1>3. QED
  BY <1>1, <1>2

LEMMA InitTypes == Init => Types
<1> SUFFICES ASSUME Init PROVE Types
  OBVIOUS
<1>1. thread \in Seq(Answers)
  BY DEF Init
<1>6. exists \in BOOLEAN /\ reserved \in BOOLEAN
  BY Zenon DEF Init
<1>2. /\ to \in [Answers -> Ids] /\ kept \in [Answers -> Rows] /\ runs \in Ids
      /\ run \in [Answers -> RunSet] /\ req \in [Requests -> ReqSet] /\ closer \in Closers
  BY Constants, NoneIsNone DEF Init
<1>3. asked \in [Answers -> Statuses] /\ future \in [Answers -> Futures]
  BY DEF Init, Statuses, Futures
<1>4. /\ acked \in [Answers -> SUBSET Requests] /\ unheard \subseteq Requests
      /\ begun \in Nat /\ restarts \in Nat
  BY DEF Init
<1>5. QED
  BY <1>1, <1>2, <1>3, <1>4, <1>6 DEF Types

-----------------------------------------------------------------------------
(* The requests *)

Others(c) == \A d \in Requests \ {c} : req'[d] = req[d]

LEMMA GoIs ==
  ASSUME Types, NEW c \in Requests, NEW place \in ReqAts, Go(c, place)
  PROVE  /\ req' \in [Requests -> ReqSet] /\ Others(c)
         /\ req'[c].at = place /\ req'[c].kind = req[c].kind /\ req'[c].on = req[c].on
         /\ req'[c].list = req[c].list /\ req'[c].seen = req[c].seen
  BY DEF Types, Go, Others, ReqSet

Listed(r, place, list) == [r EXCEPT !.at = place, !.list = list]

LEMMA ListedIs ==
  ASSUME NEW r \in ReqSet, NEW place \in ReqAts, NEW list \in SUBSET Answers
  PROVE  /\ Listed(r, place, list) \in ReqSet
         /\ Listed(r, place, list).at = place
         /\ Listed(r, place, list).list = list
         /\ Listed(r, place, list).kind = r.kind /\ Listed(r, place, list).on = r.on
  BY DEF ReqSet, Listed

LEMMA ListIs ==
  ASSUME Types, NEW c \in Requests, NEW place \in ReqAts, NEW list \in SUBSET Answers,
         req' = [req EXCEPT ![c].at = place, ![c].list = list]
  PROVE  /\ req' \in [Requests -> ReqSet] /\ Others(c) /\ req'[c].at = place /\ req'[c].list = list
         /\ req'[c].kind = req[c].kind /\ req'[c].on = req[c].on
<1>1. req[c] \in ReqSet /\ req'[c] = [req[c] EXCEPT !.at = place, !.list = list]
  BY DEF Types
<1>2. DEFINE r == Listed(req[c], place, list)
<1>3. r \in ReqSet /\ r.at = place /\ r.list = list /\ r.kind = req[c].kind /\ r.on = req[c].on
  BY <1>1, ListedIs
<1>4. req'[c] = r
  BY <1>1 DEF Listed
<1>. HIDE DEF r
<1>5. /\ req'[c] \in ReqSet /\ req'[c].at = place /\ req'[c].list = list
      /\ req'[c].kind = req[c].kind /\ req'[c].on = req[c].on
  BY <1>3, <1>4
<1>6. QED
  BY <1>5 DEF Types, Others

\* Marks on a run, and a task that begins, leave what it has streamed.
LEMMA RunMarks ==
  ASSUME NEW r \in RunSet
  PROVE  /\ [r EXCEPT !.stopping = TRUE] \in RunSet /\ [r EXCEPT !.kill = TRUE] \in RunSet
         /\ [r EXCEPT !.at = "turn"] \in RunSet
<1>1. [r EXCEPT !.stopping = TRUE] \in RunSet /\ [r EXCEPT !.kill = TRUE] \in RunSet
  BY DEF RunSet
<1>2. [r EXCEPT !.at = "turn"] \in RunSet
  BY DEF RunSet, RunAts
<1>3. QED
  BY <1>1, <1>2

LEMMA OverIs ==
  ASSUME Types, NEW c \in Requests, Over(c)
  PROVE  req' \in [Requests -> ReqSet] /\ Others(c) /\ req'[c].at = "idle" /\ req'[c].kind = "none"
<1>1. req'[c] = NoRequest /\ NoRequest.at = "idle" /\ NoRequest.kind = "none"
  BY DEF Types, Over, NoRequest
<1>2. QED
  BY <1>1, Constants DEF Types, Over, Others

\* A request that begins, or goes on to another thing.
Anew(place, kind, a) == [NoRequest EXCEPT !.at = place, !.kind = kind, !.on = a]

LEMMA AnewIs ==
  ASSUME Types, NEW c \in Requests, NEW place \in ReqAts, NEW kind \in Kinds, NEW a \in Ids,
         req' = [req EXCEPT ![c] = Anew(place, kind, a)]
  PROVE  /\ req' \in [Requests -> ReqSet] /\ Others(c)
         /\ req'[c].at = place /\ req'[c].kind = kind /\ req'[c].on = a /\ req'[c].list = {}
<1>1. /\ Anew(place, kind, a) \in ReqSet
      /\ Anew(place, kind, a).at = place /\ Anew(place, kind, a).kind = kind
      /\ Anew(place, kind, a).on = a /\ Anew(place, kind, a).list = {}
  BY Constants DEF Anew, ReqSet, NoRequest
<1>2. req'[c] = Anew(place, kind, a)
  BY DEF Types
<1>3. QED
  BY <1>1, <1>2 DEF Types, Others

\* What a request sends: the chat is reserved for it, or it is refused.
LEMMA ReserveIs ==
  ASSUME Types, NEW c \in Requests, NEW kind \in Kinds, NEW a \in Ids, Reserve(c, kind, a)
  PROVE  /\ req' \in [Requests -> ReqSet] /\ Others(c) /\ reserved' \in BOOLEAN
         /\ \/ Free /\ reserved' = TRUE /\ req'[c].at = "asking" /\ req'[c].kind = kind /\ req'[c].on = a
            \/ reserved' = reserved /\ req'[c].at = "idle" /\ req'[c].kind = "none"
<1>1. CASE Free
  <2>1. reserved' = TRUE /\ req' = [req EXCEPT ![c] = Anew("asking", kind, a)]
    BY <1>1 DEF Reserve, Anew
  <2>2. "asking" \in ReqAts
    BY DEF ReqAts
  <2>3. QED
    BY <1>1, <2>1, <2>2, AnewIs
<1>2. CASE ~Free
  BY <1>2, OverIs DEF Reserve, Types
<1>3. QED
  BY <1>1, <1>2

LEMMA SendFromIs ==
  ASSUME Types, NEW c \in Requests, NEW kind \in Kinds, NEW a \in Ids, SendFrom(c, kind, a)
  PROVE  /\ req' \in [Requests -> ReqSet] /\ Others(c) /\ reserved' \in BOOLEAN
         /\ \/ Free /\ reserved' = TRUE /\ req'[c].at = "asking" /\ req'[c].kind = kind /\ req'[c].on = a
            \/ reserved' = reserved /\ req'[c].at = "idle" /\ req'[c].kind = "none"
            \/ reserved' = reserved /\ req'[c].at = "look" /\ req'[c].kind = kind /\ req'[c].on = a
<1>1. CASE runs # None
  <2>1. "look" \in ReqAts /\ req' = [req EXCEPT ![c] = Anew("look", kind, a)] /\ reserved' = reserved
    BY <1>1 DEF ReqAts, SendFrom, Anew
  <2>2. QED
    BY <2>1, AnewIs DEF Types
<1>2. CASE runs = None
  <2>1. Reserve(c, kind, a)
    BY <1>2 DEF SendFrom
  <2>2. QED
    BY <2>1, ReserveIs
<1>3. QED
  BY <1>1, <1>2

LEMMA AfterWordsIs ==
  ASSUME Types, NEW c \in Requests, AfterWords(c)
  PROVE  /\ req' \in [Requests -> ReqSet] /\ Others(c) /\ req'[c].at \in {"idle", "late"}
         /\ \/ req'[c].at = "idle" /\ req'[c].kind = "none"
            \/ req[c].kind = "late" /\ req'[c].kind = "late" /\ req'[c].on = req[c].on
<1>1. CASE req[c].kind = "late"
  BY <1>1, GoIs DEF AfterWords, ReqAts
<1>2. CASE req[c].kind # "late"
  BY <1>2, OverIs DEF AfterWords
<1>3. QED
  BY <1>1, <1>2

LEMMA Rowed ==
  ASSUME Types, NEW a, NEW status \in Statuses
  PROVE  RowBecomes(a, status) \in [Answers -> Statuses]
  BY DEF Types, RowBecomes

LEMMA Resolved ==
  ASSUME Types, NEW a, NEW reply \in Futures
  PROVE  Resolve(a, reply) \in [Answers -> Futures]
  BY DEF Types, Resolve

LEMMA StoredTyped ==
  ASSUME Types, NEW a, NEW row \in Rows
  PROVE  Stored(a, row) \in [Answers -> Rows]
  BY DEF Types, Stored

-----------------------------------------------------------------------------
(* The thread *)

LEMMA Smallest ==
  ASSUME NEW T \in SUBSET Nat, T # {}
  PROVE  \E x \in T : \A y \in T : x <= y
<1> DEFINE below == {0 .. i : i \in T}
<1>1. IsWellFoundedOn(StrictSubsetOrdering(Nat), FiniteSubsetsOf(Nat))
  BY FS_StrictSubsetOrderingWellFounded
<1>2. below \subseteq FiniteSubsetsOf(Nat) /\ below # {}
  <2>1. \A i \in T : IsFiniteSet(0 .. i)
    BY FS_Interval
  <2>2. \A i \in T : 0 .. i \in SUBSET Nat
    OBVIOUS
  <2>3. \A i \in T : 0 .. i \in FiniteSubsetsOf(Nat)
    BY <2>1, <2>2 DEF FiniteSubsetsOf
  <2>4. QED
    BY <2>3
<1>3. PICK b \in below : \A c \in below : <<c, b>> \notin StrictSubsetOrdering(Nat)
  <2> HIDE DEF below
  <2>1. QED
    BY <1>1, <1>2, WFMin
<1>4. PICK x \in T : b = 0 .. x
  OBVIOUS
<1>5. ASSUME NEW y \in T, y < x PROVE FALSE
  <2>1. 0 .. y \in below /\ 0 .. y \in SUBSET Nat /\ 0 .. x \in SUBSET Nat
    OBVIOUS
  <2>2. 0 .. y \subseteq 0 .. x
    BY <1>5
  <2>3. x \in 0 .. x /\ x \notin 0 .. y
    BY <1>5
  <2>4. <<0 .. y, 0 .. x>> \in StrictSubsetOrdering(Nat)
    BY <2>1, <2>2, <2>3 DEF StrictSubsetOrdering
  <2>5. QED
    BY <1>3, <1>4, <2>1, <2>4
<1>6. QED
  BY <1>5

\* An edit goes back to the first answer of its question.
LEMMA FirstIs ==
  ASSUME Types, NEW a \in Shown
  PROVE  (CHOOSE i \in DOMAIN thread :
            to[thread[i]] = to[a] /\ \A k \in 1 .. i - 1 : to[thread[k]] # to[a]) \in DOMAIN thread
<1> DEFINE T == {i \in DOMAIN thread : to[thread[i]] = to[a]}
<1>1. thread \in Seq(Answers) /\ DOMAIN thread = 1 .. Len(thread)
  BY DEF Types
<1>2. T \in SUBSET Nat /\ T # {}
  BY <1>1 DEF Shown
<1>3. PICK x \in T : \A y \in T : x <= y
  <2> HIDE DEF T
  <2>1. QED
    BY <1>2, Smallest
<1>4. x \in 1 .. Len(thread) /\ \A k \in 1 .. x - 1 : k \in DOMAIN thread
  BY <1>1
<1>5. \A k \in 1 .. x - 1 : to[thread[k]] # to[a]
  BY <1>3, <1>4
<1>6. QED
  BY <1>5

\* The stored answers after a question: the new one, and some of those before.
LEMMA AskedIs ==
  ASSUME Types, NEW kind \in Kinds, NEW a, MayAsk(kind, a), kind \in {"send", "late"} \/ a \in Shown, NEW n \in Answers
  PROVE  /\ Asked(kind, a, n) \in Seq(Answers)
         /\ \A i \in DOMAIN Asked(kind, a, n) : Asked(kind, a, n)[i] \in Shown \cup {n}
<1> DEFINE at == CHOOSE i \in DOMAIN thread : thread[i] = a
           first == CHOOSE i \in DOMAIN thread :
                      to[thread[i]] = to[a] /\ \A k \in 1 .. i - 1 : to[thread[k]] # to[a]
<1>1. thread \in Seq(Answers) /\ DOMAIN thread = 1 .. Len(thread) /\ \A i \in DOMAIN thread : thread[i] \in Shown
  BY DEF Types, Shown
<1>2. CASE kind = "resume"
  <2>1. Asked(kind, a, n) = [thread EXCEPT ![at] = n]
    BY <1>2 DEF Asked
  <2> HIDE DEF at
  <2>2. \A i \in DOMAIN thread : [thread EXCEPT ![at] = n][i] \in Shown \cup {n}
    BY <1>1
  <2>3. [thread EXCEPT ![at] = n] \in Seq(Answers)
    <3>1. Len(thread) \in Nat /\ thread \in [1 .. Len(thread) -> Answers]
      BY <1>1
    <3>2. [thread EXCEPT ![at] = n] \in [1 .. Len(thread) -> Answers]
      BY <3>1
    <3>3. QED
      BY <3>1, <3>2, SeqDef
  <2>4. DOMAIN [thread EXCEPT ![at] = n] = DOMAIN thread
    OBVIOUS
  <2>5. QED
    BY <2>1, <2>2, <2>3, <2>4
<1>3. CASE kind = "edit"
  <2>1. Asked(kind, a, n) = Append(SubSeq(thread, 1, first - 1), n)
    BY <1>3 DEF Asked
  <2>2. first \in DOMAIN thread
    BY <1>3, FirstIs
  <2> HIDE DEF first
  <2>3. first \in Nat /\ first >= 1 /\ first <= Len(thread)
    BY <1>1, <2>2
  <2> DEFINE before == SubSeq(thread, 1, first - 1)
  <2>4. before \in Seq(Answers) /\ Len(before) = first - 1 /\ \A i \in 1 .. first - 1 : before[i] = thread[i]
    BY <1>1, <2>3
  <2> HIDE DEF before
  <2>5. \A i \in 1 .. first - 1 : before[i] \in Shown
    BY <1>1, <2>3, <2>4
  <2>6. Append(before, n) \in Seq(Answers) /\ \A i \in 1 .. first : Append(before, n)[i] \in Shown \cup {n}
    BY <2>3, <2>4, <2>5
  <2>7. DOMAIN Append(before, n) = 1 .. first
    BY <2>3, <2>4
  <2>8. QED
    BY <2>1, <2>6, <2>7 DEF before
<1>4. CASE kind \notin {"resume", "edit"}
  <2>1. Asked(kind, a, n) = Append(thread, n)
    BY <1>4 DEF Asked
  <2>2. QED
    BY <1>1, <2>1
<1>5. QED
  BY <1>2, <1>3, <1>4

-----------------------------------------------------------------------------
(* The invariant *)

\* What a request that may begin an answer is.
Sends == {"send", "late", "regenerate", "resume", "edit"}
KindFits == \A c \in Requests : req[c].at \in {"asking", "look"} => req[c].kind \in Sends

\* A request on its way to a run.
Starting(c) == req[c].at \in {"asking", "inserted"}
Works(a) == run[a].at \notin {"none", "ended"}

\* The chat is reserved for at most one request, and only while it has no run.
ReserveFits ==
  /\ reserved <=> \E c \in Requests : Starting(c)
  /\ \A c, d \in Requests : Starting(c) /\ Starting(d) => c = d
  /\ reserved => runs = None
  /\ \A a \in Answers : Works(a) => runs = a

\* A part that changes afterwards writes back what was stored when its run was over.
ChangeFits(c) ==
  LET a == req[c].on
  IN  a \in Answers /\ run[a].at = "ended" /\ runs # a /\ (req[c].seen.state \in Ended \/ GivenUp(a))

\* What is stored follows the run.
StreamFits ==
  /\ \A a \in Answers : run[a].at \in Working => run[a].state \in Ended
  /\ \A a \in Shown : run[a].at = "saved" => kept[a].state \in Ended
  /\ \A a \in Answers : to[a] = None => run[a].at = "none"
  /\ \A a \in Shown : to[a] # None
  /\ \A c \in Requests : req[c].at = "inserted" =>
       \E n \in Answers : req[c].list = {n} /\ run[n].at = "none" /\ to[n] # None
  /\ \A c \in Requests : req[c].at = "changes" => ChangeFits(c)
  /\ StreamingIsAnswering

Replies == {"option", "words", "stopped"}
\* The row says what the agent is told.
Says(a, reply) ==
  /\ reply = "option" => asked[a] = "answered"
  /\ reply = "words" => asked[a] \in {"superseded", "late"}
  /\ reply = "stopped" => asked[a] \in {"cancelled", "late"}

\* A request that has taken a row and is about to tell it.
Tells(c, a, reply) ==
  \/ req[c].at = "picked" /\ a = req[c].on /\ reply = "option"
  \/ req[c].at = "closed" /\ a = First(req[c].list) /\ reply = "words"
  \/ req[c].at = "stopTells" /\ a = req[c].on /\ reply = "stopped"

HearFits ==
  exists =>
    /\ \A a \in Answers, reply \in Replies : future[a] = reply => Says(a, reply)
    /\ \A a \in Answers : future[a] \in {"none", "adding"} => asked[a] = "none"
    /\ \A c \in Requests, a \in Answers, reply \in Replies : Tells(c, a, reply) => Says(a, reply)
    /\ \A a \in Answers : run[a].at = "tells" => Says(a, "stopped")
    /\ \A a \in Answers : closer.at = "tells" /\ closer.on = a => Says(a, "stopped")

CInv == Types /\ KindFits /\ ReserveFits /\ StreamFits /\ HearFits

LEMMA InitCInv == Init => CInv
<1> SUFFICES ASSUME Init PROVE CInv
  OBVIOUS
<1>1. /\ \A c \in Requests : req[c].at = "idle"
      /\ \A a \in Answers : run[a].at = "none" /\ to[a] = None /\ future[a] = "none" /\ asked[a] = "none"
      /\ runs = None /\ reserved = FALSE /\ closer.at = "open" /\ Shown = {}
  BY DEF Init, NoRequest, NoRun, CloserOpen, Shown
<1>2. ReserveFits
  BY <1>1 DEF ReserveFits, Starting, Works
<1>3. StreamFits
  BY <1>1 DEF StreamFits, Working, StreamingIsAnswering
<1>4. HearFits
  BY <1>1 DEF HearFits, Replies, Tells
<1>5. KindFits
  BY <1>1 DEF KindFits
<1>6. QED
  BY <1>2, <1>3, <1>4, <1>5, InitTypes DEF CInv

\* Nobody sets out to a run, none begins; one may be over.
LEMMA ReserveKept ==
  ASSUME ReserveFits, reserved' = reserved,
         \A c \in Requests : req'[c].at \in {"asking", "inserted"} <=> Starting(c),
         \A a \in Answers : run'[a].at \notin {"none", "ended"} => Works(a) /\ runs' = runs,
         runs' \in {runs, None}
  PROVE  ReserveFits'
  BY DEF ReserveFits, Starting, Works

\* Requests that do not insert and start, and change parts only from what was stored after a run.
LEMMA StreamKept ==
  ASSUME StreamFits, Shown' \subseteq Shown, Shown \subseteq Answers, UNCHANGED <<to, runs>>,
         \A c \in Requests : \/ req'[c].at = req[c].at /\ req'[c].on = req[c].on
                                /\ req'[c].list = req[c].list /\ req'[c].seen = req[c].seen
                             \/ req'[c].at \notin {"inserted", "changes"} /\ req[c].at # "inserted",
         \A a \in Answers : /\ run'[a].at = run[a].at /\ run'[a].state = run[a].state
                            /\ GivenUp(a) => GivenUp(a)',
         \A a \in Shown : \/ kept'[a].state = kept[a].state
                          \/ kept'[a].state \in Ended
                          \/ GivenUp(a) /\ run[a].at # "saved"
  PROVE  StreamFits'
<1>1. /\ \A a \in Answers : run'[a].at \in Working => run'[a].state \in Ended
      /\ \A a \in Shown' : run'[a].at = "saved" => kept'[a].state \in Ended
      /\ \A a \in Answers : to'[a] = None => run'[a].at = "none"
      /\ \A a \in Shown' : to'[a] # None
  BY DEF StreamFits
<1>2. \A c \in Requests : req'[c].at = "inserted" =>
        \E n \in Answers : req'[c].list = {n} /\ run'[n].at = "none" /\ to'[n] # None
  BY DEF StreamFits
<1>3. \A c \in Requests : req'[c].at = "changes" => ChangeFits(c)'
  BY DEF StreamFits, ChangeFits
<1>4. ASSUME NEW a \in Shown', kept'[a].state = "streaming", ~GivenUp(a)'
      PROVE  runs' = a \/ \E c \in Requests : req'[c].at = "inserted" /\ a \in req'[c].list
  <2>1. a \in Shown /\ a \in Answers /\ ~GivenUp(a)
    BY <1>4
  <2>2. kept[a].state = "streaming"
    BY <1>4, <2>1 DEF Ended
  <2>3. runs = a \/ \E c \in Requests : req[c].at = "inserted" /\ a \in req[c].list
    BY <2>1, <2>2 DEF StreamFits, StreamingIsAnswering
  <2>4. QED
    BY <2>3
<1>5. QED
  BY <1>1, <1>2, <1>3, <1>4 DEF StreamFits, StreamingIsAnswering

\* A step of one run.
LEMMA StreamOfRun ==
  ASSUME Types, StreamFits, ReserveFits, NEW a \in Answers, Works(a), UNCHANGED <<thread, to, req>>,
         \A b \in Answers \ {a} : run'[b] = run[b] /\ kept'[b] = kept[b],
         run'[a].at # "none",
         run'[a].at \in Working => run'[a].state \in Ended,
         a \in Shown /\ run'[a].at = "saved" => kept'[a].state \in Ended,
         \/ runs' = runs
         \/ runs' = None /\ (a \in Shown /\ ~GivenUp(a)' => kept'[a].state \in Ended)
  PROVE  StreamFits'
<1>1. Shown' = Shown /\ Shown \subseteq Answers /\ runs = a
  BY DEF Types, Shown, ReserveFits
<1>2. /\ \A b \in Answers : run'[b].at \in Working => run'[b].state \in Ended
      /\ \A b \in Shown' : run'[b].at = "saved" => kept'[b].state \in Ended
      /\ \A b \in Shown' : to'[b] # None
  BY <1>1 DEF StreamFits
<1>3. \A b \in Answers : to'[b] = None => run'[b].at = "none"
  BY DEF StreamFits, Works
<1>4. \A c \in Requests : req'[c].at = "inserted" =>
        \E n \in Answers : req'[c].list = {n} /\ run'[n].at = "none" /\ to'[n] # None
  BY DEF StreamFits, Works
<1>5. \A c \in Requests : req'[c].at = "changes" => ChangeFits(c)'
  <2>1. ASSUME NEW c \in Requests, req'[c].at = "changes" PROVE ChangeFits(c)'
    <3>1. ChangeFits(c) /\ req'[c] = req[c]
      BY <2>1 DEF StreamFits
    <3>2. req[c].on # a /\ req[c].on \in Answers
      BY <3>1 DEF ChangeFits, Works
    <3>3. runs' # req[c].on
      BY <1>1, <3>1, <3>2, NoneIsNone DEF ChangeFits
    <3>4. QED
      BY <3>1, <3>2, <3>3 DEF ChangeFits, GivenUp
  <2>2. QED
    BY <2>1
<1>6. ASSUME NEW b \in Shown', kept'[b].state = "streaming", ~GivenUp(b)'
      PROVE  runs' = b \/ \E c \in Requests : req'[c].at = "inserted" /\ b \in req'[c].list
  <2>1. b \in Shown /\ b \in Answers
    BY <1>1
  <2>2. CASE b = a
    BY <1>1, <1>6, <2>1, <2>2 DEF Ended
  <2>3. CASE b # a
    <3>1. kept[b].state = "streaming" /\ ~GivenUp(b)
      BY <1>6, <2>1, <2>3 DEF GivenUp
    <3>2. runs # b
      BY <1>1, <2>3
    <3>3. QED
      BY <2>1, <3>1, <3>2 DEF StreamFits, StreamingIsAnswering
  <2>4. QED
    BY <2>2, <2>3
<1>7. QED
  BY <1>2, <1>3, <1>4, <1>5, <1>6 DEF StreamFits, StreamingIsAnswering

\* A row that is no longer pending does not go back, and says at most that a message of its own
\* gave the answer.
Moved ==
  \A a \in Answers : \/ asked'[a] = asked[a]
                     \/ asked[a] = "pending"
                     \/ asked[a] \in {"superseded", "cancelled"} /\ asked'[a] = "late"
                     \/ asked[a] = "none" /\ future'[a] \notin {"none", "adding"}

LEMMA SaysStays ==
  ASSUME Moved, NEW a \in Answers, NEW reply \in Replies, Says(a, reply)
  PROVE  Says(a, reply)'
  BY DEF Moved, Says, Replies

LEMMA HearKept ==
  ASSUME HearFits, exists' => exists, Moved,
         exists => \A a \in Answers : \/ future'[a] = future[a]
                                      \/ future'[a] \in {"leaked", "gone", "waits"}
                                      \/ future[a] = "none" /\ future'[a] = "adding"
                                      \/ \E reply \in Replies : future'[a] = reply /\ Says(a, reply)',
         exists => \A c \in Requests, a \in Answers, reply \in Replies :
                     Tells(c, a, reply)' => Tells(c, a, reply) \/ Says(a, reply)',
         exists => \A a \in Answers : run'[a].at = "tells" => run[a].at = "tells" \/ Says(a, "stopped")',
         exists => \A a \in Answers : closer'.at = "tells" /\ closer'.on = a =>
                                        (closer.at = "tells" /\ closer.on = a) \/ Says(a, "stopped")'
  PROVE  HearFits'
<1> SUFFICES ASSUME exists', exists PROVE
      /\ \A a \in Answers, reply \in Replies : future'[a] = reply => Says(a, reply)'
      /\ \A a \in Answers : future'[a] \in {"none", "adding"} => asked'[a] = "none"
      /\ \A c \in Requests, a \in Answers, reply \in Replies : Tells(c, a, reply)' => Says(a, reply)'
      /\ \A a \in Answers : run'[a].at = "tells" => Says(a, "stopped")'
      /\ \A a \in Answers : closer'.at = "tells" /\ closer'.on = a => Says(a, "stopped")'
  BY DEF HearFits
<1>1. \A a \in Answers, reply \in Replies : future'[a] = reply => Says(a, reply)'
  <2> SUFFICES ASSUME NEW a \in Answers, NEW reply \in Replies, future'[a] = reply PROVE Says(a, reply)'
    OBVIOUS
  <2>1. CASE future'[a] = future[a]
    BY <2>1, SaysStays DEF HearFits
  <2>2. CASE future'[a] # future[a]
    BY <2>2 DEF Replies
  <2>3. QED
    BY <2>1, <2>2
<1>2. \A a \in Answers : future'[a] \in {"none", "adding"} => asked'[a] = "none"
  <2> SUFFICES ASSUME NEW a \in Answers, future'[a] \in {"none", "adding"} PROVE asked'[a] = "none"
    OBVIOUS
  <2>1. future[a] \in {"none", "adding"}
    BY DEF Replies
  <2>2. asked[a] = "none"
    BY <2>1 DEF HearFits
  <2>3. QED
    BY <2>2 DEF Moved
<1>3. \A c \in Requests, a \in Answers, reply \in Replies : Tells(c, a, reply)' => Says(a, reply)'
  BY SaysStays DEF HearFits
<1>4. "stopped" \in Replies
  BY DEF Replies
<1>5. \A a \in Answers : run'[a].at = "tells" => Says(a, "stopped")'
  BY <1>4, SaysStays DEF HearFits
<1>6. \A a \in Answers : closer'.at = "tells" /\ closer'.on = a => Says(a, "stopped")'
  BY <1>4, SaysStays DEF HearFits
<1>7. QED
  BY <1>1, <1>2, <1>3, <1>5, <1>6

-----------------------------------------------------------------------------
(* Requests on their way to a run *)

\* One request goes on, past nothing the runs or the agent see.
LEMMA QuietStream ==
  ASSUME Types, StreamFits, NEW c \in Requests, Others(c), UNCHANGED <<thread, to, kept, runs, run>>,
         req[c].at # "inserted", req'[c].at \notin {"inserted", "changes"}
  PROVE  StreamFits'
<1>1. Shown' = Shown /\ Shown \subseteq Answers
  BY DEF Shown, Types
<1>2. \A d \in Requests : \/ req'[d].at = req[d].at /\ req'[d].on = req[d].on
                             /\ req'[d].list = req[d].list /\ req'[d].seen = req[d].seen
                          \/ req'[d].at \notin {"inserted", "changes"} /\ req[d].at # "inserted"
  BY DEF Others
<1>3. QED
  BY <1>1, <1>2, StreamKept DEF GivenUp

LEMMA QuietHear ==
  ASSUME HearFits, NEW c \in Requests, Others(c), UNCHANGED <<exists, asked, future, closer, run>>,
         req'[c].at \notin {"picked", "closed", "stopTells"}
  PROVE  HearFits'
<1>1. \A d \in Requests, a \in Answers, reply \in Replies : Tells(d, a, reply)' => Tells(d, a, reply)
  BY DEF Tells, Others
<1>2. Moved
  BY DEF Moved
<1>3. exists' => exists
  BY Zenon
<1>4. \A a \in Answers : future'[a] = future[a] /\ run'[a] = run[a]
  OBVIOUS
<1>5. closer' = closer
  OBVIOUS
<1>6. QED
  BY <1>1, <1>2, <1>3, <1>4, <1>5, HearKept

LEMMA QuietTypes ==
  ASSUME Types, req' \in [Requests -> ReqSet], reserved' \in BOOLEAN, begun' \in Nat,
         UNCHANGED <<store, question, runs, run, acked, unheard, closer, restarts>>
  PROVE  Types'
<1>1. exists' \in BOOLEAN
  BY Zenon DEF Types, store
<1>2. QED
  BY <1>1 DEF Types, store, question

LEMMA QuietKinds ==
  ASSUME KindFits, NEW c \in Requests, Others(c),
         req'[c].at \in {"asking", "look"} => req'[c].kind \in Sends
  PROVE  KindFits'
  BY DEF KindFits, Others

\* A request that does not reserve leaves the reservation alone.
LEMMA QuietReserve ==
  ASSUME ReserveFits, NEW c \in Requests, Others(c), reserved' = reserved, UNCHANGED <<runs, run>>,
         ~Starting(c), req'[c].at \notin {"asking", "inserted"}
  PROVE  ReserveFits'
<1>1. \A d \in Requests : req'[d].at \in {"asking", "inserted"} <=> Starting(d)
  BY DEF Others, Starting
<1>2. \A a \in Answers : run'[a].at \notin {"none", "ended"} => Works(a) /\ runs' = runs
  BY DEF Works
<1>3. QED
  BY <1>1, <1>2, ReserveKept

LEMMA ReserveBegins ==
  ASSUME ReserveFits, NEW c \in Requests, Others(c), Free, reserved' = TRUE, UNCHANGED <<runs, run>>,
         req'[c].at = "asking"
  PROVE  ReserveFits'
<1>1. \A d \in Requests : ~Starting(d)
  BY DEF ReserveFits, Free
<1>2. \A d \in Requests : Starting(d)' <=> d = c
  BY <1>1 DEF Others, Starting
<1>3. \A a \in Answers : Works(a)' => runs' = a
  BY DEF ReserveFits, Works
<1>4. runs' = None
  BY DEF Free
<1>5. QED
  BY <1>2, <1>3, <1>4 DEF ReserveFits

\* A step of one request that may reserve and changes nothing else.
LEMMA QuietKeeps ==
  ASSUME CInv, NEW c \in Requests, req' \in [Requests -> ReqSet], Others(c), begun' \in Nat,
         UNCHANGED <<store, question, runs, run, acked, unheard, closer, restarts>>,
         req[c].at # "inserted",
         \/ Free /\ reserved' = TRUE /\ req'[c].at = "asking" /\ req'[c].kind \in Sends
         \/ /\ reserved' = reserved /\ ~Starting(c)
            /\ req'[c].at \notin {"asking", "inserted", "changes", "picked", "closed", "stopTells"}
            /\ req'[c].at = "look" => req'[c].kind \in Sends
  PROVE  CInv'
<1>1. reserved' \in BOOLEAN
  BY DEF CInv, Types
<1>2. Types'
  BY <1>1, QuietTypes DEF CInv
<1>3. UNCHANGED <<thread, to, kept, runs, run>> /\ UNCHANGED <<exists, asked, future, closer, run>>
  BY DEF store, question
<1>4. KindFits'
  BY QuietKinds DEF CInv
<1>5. StreamFits'
  BY <1>3, QuietStream DEF CInv
<1>6. HearFits'
  BY <1>3, QuietHear DEF CInv
<1>7. ReserveFits'
  BY <1>3, QuietReserve, ReserveBegins DEF CInv
<1>8. QED
  BY <1>2, <1>4, <1>5, <1>6, <1>7 DEF CInv

LEMMA ReserveKeeps ==
  ASSUME CInv, NEW c \in Requests, NEW kind \in Sends, NEW a \in Ids, Reserve(c, kind, a), begun' \in Nat,
         req[c].at \in {"idle", "look"},
         UNCHANGED <<store, question, runs, run, acked, unheard, closer, restarts>>
  PROVE  CInv'
<1>1. kind \in Kinds
  BY DEF Kinds, Sends
<1>2. /\ req' \in [Requests -> ReqSet] /\ Others(c)
      /\ \/ Free /\ reserved' = TRUE /\ req'[c].at = "asking" /\ req'[c].kind = kind
         \/ reserved' = reserved /\ req'[c].at = "idle"
  BY <1>1, ReserveIs DEF CInv
<1>3. ~Starting(c)
  BY DEF Starting
<1>4. QED
  BY <1>2, <1>3, QuietKeeps

LEMMA SendFromKeeps ==
  ASSUME CInv, NEW c \in Requests, NEW kind \in Sends, NEW a \in Ids, SendFrom(c, kind, a), begun' \in Nat,
         req[c].at = "idle",
         UNCHANGED <<store, question, runs, run, acked, unheard, closer, restarts>>
  PROVE  CInv'
<1>1. kind \in Kinds
  BY DEF Kinds, Sends
<1>2. /\ req' \in [Requests -> ReqSet] /\ Others(c)
      /\ \/ Free /\ reserved' = TRUE /\ req'[c].at = "asking" /\ req'[c].kind = kind
         \/ reserved' = reserved /\ req'[c].at = "idle"
         \/ reserved' = reserved /\ req'[c].at = "look" /\ req'[c].kind = kind
  BY <1>1, SendFromIs DEF CInv
<1>3. ~Starting(c)
  BY DEF Starting
<1>4. QED
  BY <1>2, <1>3, QuietKeeps

LEMMA Begins ==
  ASSUME CInv, NEW c \in Requests, Begin(c)
  PROVE  req[c].at = "idle" /\ begun' \in Nat
  BY DEF Begin, Idle, CInv, Types

LEMMA SendKeeps == ASSUME CInv, NEW c \in Requests, Send(c) PROVE CInv'
<1>1. "send" \in Sends /\ None \in Ids
  BY NoneIsNone DEF Sends
<1>2. QED
  BY <1>1, SendFromKeeps, Begins DEF Send

LEMMA LookedKeeps == ASSUME CInv, NEW c \in Requests, Looked(c) PROVE CInv'
<1>1. begun' \in Nat /\ req[c].at = "look" /\ req[c].kind \in Sends /\ req[c].on \in Ids
  BY DEF Looked, bounds, CInv, Types, KindFits, ReqSet
<1>2. UNCHANGED <<store, question, runs, run, acked, unheard, closer, restarts>>
  BY DEF Looked, bounds
<1>3. CASE WaitingIn
  <2>1. Go(c, "words") /\ reserved' = reserved /\ "words" \in ReqAts
    BY <1>3 DEF Looked, ReqAts
  <2>2. req' \in [Requests -> ReqSet] /\ Others(c) /\ req'[c].at = "words"
    BY <2>1, GoIs DEF CInv
  <2>3. QED
    BY <1>1, <1>2, <2>1, <2>2, QuietKeeps DEF Starting
<1>4. CASE ~WaitingIn
  BY <1>1, <1>2, <1>4, ReserveKeeps DEF Looked
<1>5. QED
  BY <1>3, <1>4

LEMMA AskAgainKeeps ==
  ASSUME CInv, NEW c \in Requests, NEW kind, NEW a \in Answers, AskAgain(c, kind, a) PROVE CInv'
<1>1. kind \in Sends /\ a \in Ids
  BY DEF AskAgain, Sends, Ids
<1>2. QED
  BY <1>1, ReserveKeeps, Begins DEF AskAgain

LEMMA PickKeeps == ASSUME CInv, NEW c \in Requests, NEW a \in Answers, Pick(c, a) PROVE CInv'
<1>1. a \in Ids /\ "late" \in Sends /\ req[c].at = "idle" /\ begun' \in Nat
  BY Begins DEF Pick, Ids, Sends
<1>2. UNCHANGED <<store, question, runs, run, acked, unheard, closer, restarts>>
  BY DEF Pick
<1>3. CASE asked[a] = "pending" /\ future[a] \in {"waits", "leaked"}
  <2> DEFINE picks == [NoRequest EXCEPT !.at = "pick", !.on = a]
  <2>1. req' = [req EXCEPT ![c] = picks] /\ reserved' = reserved
    BY <1>3 DEF Pick
  <2>2. picks \in ReqSet /\ picks.at = "pick"
    BY <1>1, Constants DEF NoRequest, ReqSet, ReqAts
  <2> HIDE DEF picks
  <2>3. req' \in [Requests -> ReqSet] /\ Others(c) /\ req'[c].at = "pick"
    BY <2>1, <2>2 DEF CInv, Types, Others
  <2>4. QED
    BY <1>1, <1>2, <2>1, <2>3, QuietKeeps DEF Starting
<1>4. CASE ~(asked[a] = "pending" /\ future[a] \in {"waits", "leaked"})
  BY <1>1, <1>2, <1>4, SendFromKeeps DEF Pick
<1>5. QED
  BY <1>3, <1>4

\* It is refused after all: nobody else had reserved the chat.
LEMMA RefusedKeeps == ASSUME CInv, NEW c \in Requests, Refused(c) PROVE CInv'
<1>1. /\ req' \in [Requests -> ReqSet] /\ Others(c) /\ req'[c].at = "idle" /\ req[c].at = "asking"
      /\ reserved' = FALSE /\ begun' \in Nat
      /\ UNCHANGED <<store, question, runs, run, acked, unheard, closer, restarts>>
  BY OverIs DEF Refused, CInv, bounds, Types
<1>2. UNCHANGED <<thread, to, kept, runs, run>> /\ UNCHANGED <<exists, asked, future, closer, run>>
  BY <1>1 DEF store, question
<1>3. Types'
  BY <1>1, QuietTypes DEF CInv
<1>4. KindFits' /\ StreamFits' /\ HearFits'
  BY <1>1, <1>2, QuietKinds, QuietStream, QuietHear DEF CInv
<1>5. ReserveFits'
  <2>1. \A d \in Requests : ~Starting(d)'
    <3>1. ASSUME NEW d \in Requests, d # c PROVE ~Starting(d)'
      <4>1. ~Starting(d)
        BY <1>1, <3>1 DEF CInv, ReserveFits, Starting
      <4>2. QED
        BY <1>1, <3>1, <4>1 DEF Others, Starting
    <3>2. QED
      BY <1>1, <3>1 DEF Starting
  <2>2. \A a \in Answers : Works(a)' => runs' = a
    BY <1>2 DEF CInv, ReserveFits, Works
  <2>3. QED
    BY <1>1, <2>1, <2>2 DEF ReserveFits
<1>6. QED
  BY <1>3, <1>4, <1>5 DEF CInv

\* The new answer is stored: it has no run yet, and the request knows it.
LEMMA InsertKeeps == ASSUME CInv, NEW c \in Requests, Insert(c) PROVE CInv'
<1>1. /\ req[c].at = "asking" /\ MayAsk(req[c].kind, req[c].on) /\ req[c].kind \in Sends
      /\ req[c].on \in Ids
  BY DEF Insert, CInv, KindFits, Types, ReqSet
<1>2. PICK n \in Answers :
        /\ Fresh(n)
        /\ thread' = Asked(req[c].kind, req[c].on, n)
        /\ to' = [to EXCEPT ![n] = IF req[c].kind \in {"send", "late"} THEN n ELSE to[req[c].on]]
        /\ req' = [req EXCEPT ![c].at = "inserted", ![c].list = {n}]
  BY DEF Insert
<1>3. UNCHANGED <<exists, kept, question, answering, acked, unheard, closer, bounds>>
  BY DEF Insert
<1>4. req[c].kind \in {"send", "late"} \/ req[c].on \in Shown
  BY <1>1 DEF Sends, MayAsk
<1>5. thread' \in Seq(Answers) /\ Shown' \subseteq Shown \cup {n}
  <2>1. req[c].kind \in Kinds
    BY <1>1 DEF Sends, Kinds
  <2>2. QED
    BY <1>1, <1>2, <1>4, <2>1, AskedIs DEF CInv, Shown
<1>6. /\ req' \in [Requests -> ReqSet] /\ Others(c)
      /\ req'[c].at = "inserted" /\ req'[c].list = {n}
  <2> DEFINE one == {n}
  <2>1. "inserted" \in ReqAts /\ one \in SUBSET Answers /\ req[c] \in ReqSet /\ req \in [Requests -> ReqSet]
    BY DEF CInv, ReqAts, Types
  <2>2. req'[c] = [req[c] EXCEPT !.at = "inserted", !.list = one]
    BY <1>2, <2>1
  <2> HIDE DEF one
  <2>3. req'[c] = Listed(req[c], "inserted", one)
    BY <2>2 DEF Listed
  <2>4. req'[c] \in ReqSet /\ req'[c].at = "inserted" /\ req'[c].list = one
    BY <2>1, <2>3, ListedIs
  <2>5. QED
    BY <1>2, <2>1, <2>4 DEF Others, one
<1>7. Shown \subseteq Answers
  BY DEF Shown, CInv, Types
<1>8. /\ to' \in [Answers -> Ids] /\ to'[n] # None /\ \A a \in Answers \ {n} : to'[a] = to[a]
  <2>1. req[c].on \in Shown => to[req[c].on] \in Ids /\ to[req[c].on] # None
    BY <1>7 DEF CInv, StreamFits, Types
  <2>2. n \in Ids /\ n # None
    BY NoneIsNone DEF Ids
  <2>3. QED
    BY <1>2, <1>4, <2>1, <2>2 DEF CInv, Types
<1>9. UNCHANGED <<exists, kept, asked, future, runs, reserved, run, acked, unheard, closer, begun, restarts>>
  BY <1>3 DEF question, answering, bounds
<1>10. Types'
  <2>1. exists' \in BOOLEAN /\ reserved' \in BOOLEAN
    BY <1>9, Zenon DEF CInv, Types
  <2>2. QED
    BY <1>5, <1>6, <1>8, <1>9, <2>1 DEF CInv, Types
<1>11. KindFits'
  BY <1>6, QuietKinds DEF CInv
<1>12. ReserveFits'
  <2>1. \A d \in Requests : Starting(d)' <=> Starting(d)
    BY <1>1, <1>6 DEF Others, Starting
  <2>2. \A d \in Requests : req'[d].at \in {"asking", "inserted"} <=> Starting(d)
    BY <2>1 DEF Starting
  <2>3. QED
    BY <1>9, <2>2, ReserveKept DEF CInv, Works
<1>13. StreamFits'
  <2>1. to[n] = None /\ run[n].at = "none" /\ n \notin Shown
    BY <1>2 DEF Fresh, CInv, StreamFits
  <2>2. /\ \A a \in Answers : run'[a].at \in Working => run'[a].state \in Ended
        /\ \A a \in Answers : to'[a] = None => run'[a].at = "none"
    BY <1>8, <1>9 DEF CInv, StreamFits
  <2>3. \A a \in Shown' : run'[a].at = "saved" => kept'[a].state \in Ended
    BY <1>5, <1>9, <2>1 DEF CInv, StreamFits
  <2>4. \A a \in Shown' : to'[a] # None
    BY <1>5, <1>7, <1>8 DEF CInv, StreamFits
  <2>5. ASSUME NEW d \in Requests, req'[d].at = "inserted"
        PROVE  \E m \in Answers : req'[d].list = {m} /\ run'[m].at = "none" /\ to'[m] # None
    <3>1. CASE d = c
      BY <1>6, <1>8, <1>9, <2>1, <3>1
    <3>2. CASE d # c
      BY <1>6, <1>8, <1>9, <2>5, <3>2 DEF CInv, StreamFits, Others
    <3>3. QED
      BY <3>1, <3>2
  <2>6. ASSUME NEW d \in Requests, req'[d].at = "changes" PROVE ChangeFits(d)'
    <3>1. d # c /\ req'[d] = req[d]
      BY <1>6, <2>6 DEF Others
    <3>2. QED
      BY <1>9, <2>6, <3>1 DEF CInv, StreamFits, ChangeFits, GivenUp
  <2>7. ASSUME NEW a \in Shown', kept'[a].state = "streaming", ~GivenUp(a)'
        PROVE  runs' = a \/ \E d \in Requests : req'[d].at = "inserted" /\ a \in req'[d].list
    <3>1. CASE a = n
      BY <1>6, <3>1
    <3>2. CASE a # n
      <4>1. runs = a \/ \E d \in Requests : req[d].at = "inserted" /\ a \in req[d].list
        BY <1>5, <1>9, <2>7, <3>2 DEF CInv, StreamFits, StreamingIsAnswering, GivenUp
      <4>2. QED
        BY <1>1, <1>6, <1>9, <4>1 DEF Others
    <3>3. QED
      BY <3>1, <3>2
  <2>8. QED
    BY <2>2, <2>3, <2>4, <2>5, <2>6, <2>7 DEF StreamFits, StreamingIsAnswering
<1>14. HearFits'
  BY <1>6, <1>9, QuietHear DEF CInv
<1>15. QED
  BY <1>10, <1>11, <1>12, <1>13, <1>14 DEF CInv

\* The reservation becomes a run; no other request was on its way to one.
LEMMA StartKeeps == ASSUME CInv, NEW c \in Requests, Start(c) PROVE CInv'
<1>1. req[c].at = "inserted" /\ reserved' = FALSE /\ Starting(c)
  BY DEF Start, Starting
<1>2. PICK n \in req[c].list : runs' = n /\ run' = [run EXCEPT ![n].at = "turn"]
  BY DEF Start
<1>3. n \in Answers /\ req[c].list = {n} /\ run[n].at = "none" /\ to[n] # None
  BY <1>1, <1>2 DEF CInv, StreamFits
<1>4. req' \in [Requests -> ReqSet] /\ Others(c) /\ req'[c].at \in {"idle", "late"}
  <2>1. CASE req[c].kind = "late"
    BY <2>1, GoIs DEF CInv, Start, ReqAts
  <2>2. CASE req[c].kind # "late"
    BY <2>2, OverIs DEF CInv, Start
  <2>3. QED
    BY <2>1, <2>2
<1>5. /\ run' \in [Answers -> RunSet] /\ run'[n].at = "turn"
      /\ run'[n].deleted = run[n].deleted /\ run'[n].cut = run[n].cut
      /\ \A a \in Answers \ {n} : run'[a] = run[a]
  <2>1. /\ run[n] \in RunSet /\ run'[n] = [run[n] EXCEPT !.at = "turn"]
        /\ \A a \in Answers \ {n} : run'[a] = run[a]
    BY <1>2, <1>3 DEF CInv, Types
  <2>2. run'[n] \in RunSet
    BY <2>1, RunMarks
  <2>4. run'[n].at = "turn" /\ run'[n].deleted = run[n].deleted /\ run'[n].cut = run[n].cut
    BY <2>1 DEF RunSet
  <2>3. QED
    BY <1>2, <2>1, <2>2, <2>4 DEF CInv, Types
<1>6. UNCHANGED <<exists, thread, to, kept, asked, future, acked, unheard, closer, begun, restarts>>
  BY DEF Start, store, question, bounds
<1>7. runs = None /\ \A a \in Answers : ~Works(a)
  BY <1>1, NoneIsNone DEF CInv, ReserveFits
<1>8. \A d \in Requests : d # c => ~Starting(d)
  BY <1>1 DEF CInv, ReserveFits
<1>9. Types'
  <2>1. exists' \in BOOLEAN /\ reserved' \in BOOLEAN
    BY <1>1, <1>6, Zenon DEF CInv, Types
  <2>2. runs' \in Ids
    BY <1>2, <1>3 DEF Ids
  <2>3. QED
    BY <1>4, <1>5, <1>6, <2>1, <2>2 DEF CInv, Types
<1>10. KindFits'
  BY <1>4, QuietKinds DEF CInv
<1>11. ReserveFits'
  <2>1. \A d \in Requests : ~Starting(d)'
    BY <1>4, <1>8 DEF Others, Starting
  <2>2. \A a \in Answers : Works(a)' => runs' = a
    BY <1>2, <1>5, <1>7 DEF Works
  <2>3. QED
    BY <1>1, <2>1, <2>2 DEF ReserveFits
<1>12. StreamFits'
  <2>1. Shown' = Shown /\ Shown \subseteq Answers
    BY <1>6 DEF Shown, CInv, Types
  <2>2. /\ \A a \in Answers : run'[a].at \in Working => run'[a].state \in Ended
        /\ \A a \in Shown' : run'[a].at = "saved" => kept'[a].state \in Ended
        /\ \A a \in Answers : to'[a] = None => run'[a].at = "none"
        /\ \A a \in Shown' : to'[a] # None
    BY <1>3, <1>5, <1>6, <2>1 DEF CInv, StreamFits, Working
  <2>3. \A d \in Requests : req'[d].at # "inserted"
    BY <1>4, <1>8 DEF Others, Starting
  <2>4. ASSUME NEW d \in Requests, req'[d].at = "changes" PROVE ChangeFits(d)'
    <3>1. d # c /\ req'[d] = req[d] /\ ChangeFits(d)
      BY <1>4, <2>4 DEF Others, CInv, StreamFits
    <3>2. req[d].on # n /\ req[d].on \in Answers
      BY <1>3, <3>1 DEF ChangeFits
    <3>3. QED
      BY <1>2, <1>5, <3>1, <3>2 DEF ChangeFits, GivenUp
  <2>5. ASSUME NEW a \in Shown', kept'[a].state = "streaming", ~GivenUp(a)' PROVE runs' = a
    <3>1. kept[a].state = "streaming" /\ ~GivenUp(a) /\ a \in Shown /\ a \in Answers
      BY <1>5, <1>6, <2>1, <2>5 DEF GivenUp
    <3>2. a # None
      BY <3>1, NoneIsNone
    <3>3. PICK d \in Requests : req[d].at = "inserted" /\ a \in req[d].list
      BY <1>7, <3>1, <3>2 DEF CInv, StreamFits, StreamingIsAnswering
    <3>4. d = c
      BY <1>8, <3>3 DEF Starting
    <3>5. QED
      BY <1>2, <1>3, <3>3, <3>4
  <2>6. QED
    BY <2>2, <2>3, <2>4, <2>5 DEF StreamFits, StreamingIsAnswering
<1>13. HearFits'
  <2>1. Moved /\ \A a \in Answers : future'[a] = future[a]
    BY <1>6 DEF Moved
  <2>2. exists' => exists
    BY <1>6, Zenon
  <2>3. \A d \in Requests, a \in Answers, reply \in Replies : Tells(d, a, reply)' => Tells(d, a, reply)
    BY <1>4 DEF Tells, Others
  <2>4. \A a \in Answers : run'[a].at = "tells" => run[a].at = "tells"
    BY <1>5
  <2>5. QED
    BY <1>6, <2>1, <2>2, <2>3, <2>4, HearKept DEF CInv
<1>14. QED
  BY <1>9, <1>10, <1>11, <1>12, <1>13 DEF CInv

-----------------------------------------------------------------------------
(* The questions *)

LEMMA RowMoves ==
  ASSUME Types, NEW a, NEW status \in Statuses \ {"none", "pending"}, asked' = RowBecomes(a, status)
  PROVE  /\ asked' \in [Answers -> Statuses] /\ Moved
         /\ a \in Answers /\ asked[a] = "pending" => asked'[a] = status
<1>1. asked' \in [Answers -> Statuses]
  BY Rowed
<1>2. \A b \in Answers : asked'[b] = asked[b] \/ asked[b] = "pending"
  BY DEF RowBecomes, Types
<1>3. QED
  BY <1>1, <1>2 DEF RowBecomes, Types, Moved

LEMMA Replied ==
  ASSUME Types, NEW a, NEW reply \in Replies, future' = Resolve(a, reply)
  PROVE  /\ future' \in [Answers -> Futures]
         /\ \A b \in Answers : future'[b] = future[b] \/ (b = a /\ future'[b] = reply)
<1>1. reply \in Futures
  BY DEF Replies, Futures
<1>2. QED
  BY <1>1, Resolved DEF Resolve, Types

\* A step of a request that answers, closes or drops questions.
LEMMA AnswersKeeps ==
  ASSUME CInv, NEW c \in Requests, req' \in [Requests -> ReqSet], Others(c), ~Starting(c),
         req'[c].at \notin {"asking", "inserted", "look", "changes"},
         asked' \in [Answers -> Statuses], future' \in [Answers -> Futures], unheard' \subseteq Requests, Moved,
         UNCHANGED <<store, answering, acked, closer, bounds>>,
         exists => \A a \in Answers : \/ future'[a] = future[a]
                                      \/ \E reply \in Replies : future'[a] = reply /\ Says(a, reply)',
         exists => \A a \in Answers, reply \in Replies :
                     Tells(c, a, reply)' => Tells(c, a, reply) \/ Says(a, reply)'
  PROVE  CInv'
<1>1. UNCHANGED <<exists, thread, to, kept, runs, reserved, run, acked, closer, begun, restarts>>
  BY DEF store, answering, bounds
<1>2. exists' \in BOOLEAN /\ reserved' \in BOOLEAN /\ (exists' => exists)
  BY <1>1, Zenon DEF CInv, Types
<1>3. Types'
  BY <1>1, <1>2 DEF CInv, Types
<1>4. KindFits'
  BY QuietKinds DEF CInv
<1>5. ReserveFits'
  BY <1>1, QuietReserve DEF CInv
<1>6. StreamFits'
  BY <1>1, QuietStream DEF CInv, Starting
<1>7. HearFits'
  <2>1. exists => \A d \in Requests, a \in Answers, reply \in Replies :
                    Tells(d, a, reply)' => Tells(d, a, reply) \/ Says(a, reply)'
    <3>1. ASSUME exists, NEW d \in Requests, NEW a \in Answers, NEW reply \in Replies, Tells(d, a, reply)'
          PROVE  Tells(d, a, reply) \/ Says(a, reply)'
      <4>1. CASE d = c
        BY <3>1, <4>1
      <4>2. CASE d # c
        BY <3>1, <4>2 DEF Tells, Others
      <4>3. QED
        BY <4>1, <4>2
    <3>2. QED
      BY <3>1
  <2>2. \A a \in Answers : run'[a].at = "tells" => run[a].at = "tells"
    BY <1>1
  <2>3. closer' = closer /\ HearFits
    BY <1>1 DEF CInv
  <2>4. QED
    BY <1>2, <2>1, <2>2, <2>3, HearKept
<1>8. QED
  BY <1>3, <1>4, <1>5, <1>6, <1>7 DEF CInv

LEMMA LateAnsweredKeeps == ASSUME CInv, NEW c \in Requests, LateAnswered(c) PROVE CInv'
<1>1. Types /\ req[c].at = "late"
  BY DEF CInv, LateAnswered
<1>2. req' \in [Requests -> ReqSet] /\ Others(c) /\ req'[c].at = "idle"
  BY <1>1, OverIs DEF LateAnswered
<1>3. asked' \in [Answers -> Statuses] /\ Moved
  BY <1>1 DEF LateAnswered, Types, Statuses, Moved
<1>4. UNCHANGED <<store, future, answering, acked, unheard, closer, bounds>>
  BY DEF LateAnswered
<1>5. \A a, reply : ~Tells(c, a, reply)'
  BY <1>2 DEF Tells
<1>6. QED
  BY <1>1, <1>2, <1>3, <1>4, <1>5, AnswersKeeps DEF Types, Starting

LEMMA WordsKeeps == ASSUME CInv, NEW c \in Requests, Words(c) PROVE CInv'
<1>1. Types /\ req[c].at = "words"
  BY DEF CInv, Words
<1>2. /\ req' \in [Requests -> ReqSet] /\ Others(c) /\ req'[c].at \in {"idle", "closing"}
      /\ unheard' \subseteq Requests
  <2>1. CASE exists
    BY <1>1, <2>1, GoIs DEF Words, ReqAts, Types
  <2>2. CASE ~exists
    BY <1>1, <2>2, OverIs DEF Words, Types
  <2>3. QED
    BY <2>1, <2>2
<1>3. UNCHANGED <<store, question, answering, acked, closer, bounds>>
  BY DEF Words
<1>4. UNCHANGED <<asked, future>> /\ Moved
  BY <1>3 DEF question, Moved
<1>5. \A a, reply : ~Tells(c, a, reply)'
  BY <1>2 DEF Tells
<1>6. QED
  BY <1>1, <1>2, <1>3, <1>4, <1>5, AnswersKeeps DEF Types, Starting

LEMMA SupersedeReadsKeeps == ASSUME CInv, NEW c \in Requests, SupersedeReads(c) PROVE CInv'
<1> DEFINE waiting == {a \in Answers : asked[a] = "pending"}
<1>1. Types /\ req[c].at = "closing"
  BY DEF CInv, SupersedeReads
<1>2. req' \in [Requests -> ReqSet] /\ Others(c) /\ req'[c].at \in {"idle", "late", "close"}
  <2>1. CASE waiting = {}
    BY <1>1, <2>1, AfterWordsIs DEF SupersedeReads
  <2>2. CASE waiting # {}
    <3>1. req' = [req EXCEPT ![c].at = "close", ![c].list = waiting] /\ "close" \in ReqAts
      BY <2>2 DEF SupersedeReads, ReqAts
    <3>2. waiting \in SUBSET Answers
      OBVIOUS
    <3> HIDE DEF waiting
    <3>3. QED
      BY <1>1, <3>1, <3>2, ListIs
  <2>3. QED
    BY <2>1, <2>2
<1>3. UNCHANGED <<store, question, answering, acked, unheard, closer, bounds>>
  BY DEF SupersedeReads
<1>4. UNCHANGED <<asked, future>> /\ Moved
  BY <1>3 DEF question, Moved
<1>5. \A a, reply : ~Tells(c, a, reply)'
  BY <1>2 DEF Tells
<1>6. QED
  BY <1>1, <1>2, <1>3, <1>4, <1>5, AnswersKeeps DEF Types, Starting

LEMMA SupersedeKeeps == ASSUME CInv, NEW c \in Requests, Supersede(c) PROVE CInv'
<1>1. Types /\ req[c].at = "close"
  BY DEF CInv, Supersede
<1>2. UNCHANGED <<store, future, answering, acked, unheard, closer, bounds>>
  BY DEF Supersede
<1>3. CASE req[c].list = {}
  <2>1. AfterWords(c) /\ asked' = asked
    BY <1>3 DEF Supersede
  <2>2. req' \in [Requests -> ReqSet] /\ Others(c) /\ req'[c].at \in {"idle", "late"} /\ Moved
    BY <1>1, <2>1, AfterWordsIs DEF Moved
  <2>3. \A a, reply : ~Tells(c, a, reply)'
    BY <2>2 DEF Tells
  <2>4. QED
    BY <1>1, <1>2, <2>1, <2>2, <2>3, AnswersKeeps DEF Types, Starting
<1>4. CASE req[c].list # {}
  <2> DEFINE a == First(req[c].list)
  <2>1. /\ asked' = RowBecomes(a, "superseded")
        /\ IF asked[a] = "pending"
           THEN Go(c, "closed")
           ELSE req' = [req EXCEPT ![c].list = @ \ {a}]
    BY <1>4 DEF Supersede, First
  <2> HIDE DEF a
  <2>2. /\ asked' \in [Answers -> Statuses] /\ Moved
        /\ a \in Answers /\ asked[a] = "pending" => asked'[a] = "superseded"
    <3>1. "superseded" \in Statuses \ {"none", "pending"}
      BY DEF Statuses
    <3>2. QED
      BY <1>1, <2>1, <3>1, RowMoves
  <2>3. CASE asked[a] = "pending"
    <3>1. /\ req' \in [Requests -> ReqSet] /\ Others(c) /\ req'[c].at = "closed"
          /\ req'[c].list = req[c].list
      <4>1. Go(c, "closed") /\ "closed" \in ReqAts
        BY <2>1, <2>3 DEF ReqAts
      <4>2. QED
        BY <1>1, <4>1, GoIs
    <3>2. \A b \in Answers, reply \in Replies : Tells(c, b, reply)' => Says(b, reply)'
      <4>1. ASSUME NEW b \in Answers, NEW reply \in Replies, Tells(c, b, reply)' PROVE Says(b, reply)'
        <5>1. reply = "words" /\ b = a
          BY <3>1, <4>1 DEF Tells, a
        <5>2. asked'[b] = "superseded"
          BY <2>2, <2>3, <5>1
        <5>3. QED
          BY <5>1, <5>2 DEF Says
      <4>2. QED
        BY <4>1
    <3>3. QED
      BY <1>1, <1>2, <2>2, <3>1, <3>2, AnswersKeeps DEF Types, Starting
  <2>4. CASE asked[a] # "pending"
    <3>1. req' \in [Requests -> ReqSet] /\ Others(c) /\ req'[c].at = "close"
      <4>1. req[c] \in ReqSet /\ req'[c] = [req[c] EXCEPT !.list = @ \ {a}]
        BY <1>1, <2>1, <2>4 DEF Types
      <4>2. req[c].list \ {a} \in SUBSET Answers
        BY <4>1 DEF ReqSet
      <4>3. req'[c] \in ReqSet /\ req'[c].at = "close"
        BY <1>1, <4>1, <4>2 DEF ReqSet
      <4>4. QED
        BY <1>1, <2>1, <2>4, <4>3 DEF Types, Others
    <3>2. \A b, reply : ~Tells(c, b, reply)'
      BY <3>1 DEF Tells
    <3>3. QED
      BY <1>1, <1>2, <2>2, <3>1, <3>2, AnswersKeeps DEF Types, Starting
  <2>5. QED
    BY <2>3, <2>4
<1>5. QED
  BY <1>3, <1>4

LEMMA SupersedeToldKeeps == ASSUME CInv, NEW c \in Requests, SupersedeTold(c) PROVE CInv'
<1> DEFINE a == First(req[c].list)
<1>1. Types /\ req[c].at = "closed" /\ "words" \in Replies
  BY DEF CInv, SupersedeTold, Replies
<1>2. /\ future' = Resolve(a, "words")
      /\ unheard' = IF future[a] = "waits" THEN unheard \ {c} ELSE unheard
      /\ req' = [req EXCEPT ![c].at = "close", ![c].list = @ \ {a}]
      /\ UNCHANGED <<store, asked, answering, acked, closer, bounds>>
  BY DEF SupersedeTold, First
<1> HIDE DEF a
<1>3. req' \in [Requests -> ReqSet] /\ Others(c) /\ req'[c].at = "close" /\ unheard' \subseteq Requests
  <2>1. req[c].list \ {a} \in SUBSET Answers /\ "close" \in ReqAts
    BY <1>1 DEF Types, ReqSet, ReqAts
  <2> DEFINE rest == req[c].list \ {a}
  <2>2. req' = [req EXCEPT ![c].at = "close", ![c].list = rest]
    <3>1. req[c] \in ReqSet /\ req \in [Requests -> ReqSet]
      BY <1>1 DEF Types
    <3>2. QED
      BY <1>2, <3>1 DEF ReqSet
  <2> HIDE DEF rest
  <2>3. rest \in SUBSET Answers
    BY <2>1 DEF rest
  <2>4. QED
    BY <1>1, <1>2, <2>1, <2>2, <2>3, ListIs DEF Types
<1>4. Moved
  BY <1>2 DEF Moved
<1>5. /\ future' \in [Answers -> Futures]
      /\ \A b \in Answers : future'[b] = future[b] \/ (b = a /\ future'[b] = "words")
  BY <1>1, <1>2, Replied
<1>6. exists => \A b \in Answers : \/ future'[b] = future[b]
                                   \/ \E reply \in Replies : future'[b] = reply /\ Says(b, reply)'
  <2>1. ASSUME exists, NEW b \in Answers, future'[b] # future[b]
        PROVE  \E reply \in Replies : future'[b] = reply /\ Says(b, reply)'
    <3>1. b = a /\ future'[b] = "words"
      BY <1>5, <2>1
    <3>2. Tells(c, b, "words")
      BY <1>1, <3>1 DEF Tells, a
    <3>3. Says(b, "words")
      BY <1>1, <2>1, <3>2 DEF CInv, HearFits
    <3>4. Says(b, "words")'
      BY <1>1, <1>4, <3>3, SaysStays
    <3>5. QED
      BY <1>1, <3>1, <3>4
  <2>2. QED
    BY <2>1
<1>7. \A b, reply : ~Tells(c, b, reply)'
  BY <1>3 DEF Tells
<1>8. asked' \in [Answers -> Statuses]
  BY <1>1, <1>2 DEF Types
<1>9. QED
  BY <1>1, <1>2, <1>3, <1>4, <1>5, <1>6, <1>7, <1>8, AnswersKeeps DEF Starting

LEMMA PickedKeeps == ASSUME CInv, NEW c \in Requests, Picked(c) PROVE CInv'
<1>1. Types /\ req[c].at = "pick" /\ "answered" \in Statuses \ {"none", "pending"}
  BY DEF CInv, Picked, Statuses
<1>2. UNCHANGED <<store, future, answering, acked, unheard, closer, bounds>>
  BY DEF Picked
<1>3. /\ asked' \in [Answers -> Statuses] /\ Moved
      /\ req[c].on \in Answers /\ asked[req[c].on] = "pending" => asked'[req[c].on] = "answered"
  BY <1>1, RowMoves DEF Picked
<1>4. CASE asked[req[c].on] = "pending"
  <2>1. Go(c, "picked") /\ "picked" \in ReqAts
    BY <1>4 DEF Picked, ReqAts
  <2>2. req' \in [Requests -> ReqSet] /\ Others(c) /\ req'[c].at = "picked" /\ req'[c].on = req[c].on
    BY <1>1, <2>1, GoIs
  <2>3. \A b \in Answers, reply \in Replies : Tells(c, b, reply)' => Says(b, reply)'
    BY <1>3, <1>4, <2>2 DEF Tells, Says
  <2>4. QED
    BY <1>1, <1>2, <1>3, <2>2, <2>3, AnswersKeeps DEF Types, Starting
<1>5. CASE asked[req[c].on] # "pending"
  <2>1. req' \in [Requests -> ReqSet] /\ Others(c) /\ req'[c].at = "idle"
    BY <1>1, <1>5, OverIs DEF Picked
  <2>2. \A b, reply : ~Tells(c, b, reply)'
    BY <2>1 DEF Tells
  <2>3. QED
    BY <1>1, <1>2, <1>3, <2>1, <2>2, AnswersKeeps DEF Types, Starting
<1>6. QED
  BY <1>4, <1>5

LEMMA PickToldKeeps == ASSUME CInv, NEW c \in Requests, PickTold(c) PROVE CInv'
<1>1. Types /\ req[c].at = "picked" /\ "option" \in Replies
  BY DEF CInv, PickTold, Replies
<1>2. UNCHANGED <<store, asked, answering, acked, unheard, closer, bounds>>
  BY DEF PickTold
<1>3. req' \in [Requests -> ReqSet] /\ Others(c) /\ req'[c].at \in {"idle", "failed"}
  <2>1. "failed" \in ReqAts /\ (Over(c) \/ Go(c, "failed"))
    BY DEF ReqAts, PickTold
  <2>2. QED
    BY <1>1, <2>1, OverIs, GoIs
<1>4. Moved
  BY <1>2 DEF Moved
<1>5. /\ future' \in [Answers -> Futures]
      /\ \A b \in Answers : future'[b] = future[b] \/ (b = req[c].on /\ future'[b] = "option")
  BY <1>1, Replied DEF PickTold
<1>6. exists => \A b \in Answers : \/ future'[b] = future[b]
                                   \/ \E reply \in Replies : future'[b] = reply /\ Says(b, reply)'
  <2>1. ASSUME exists, NEW b \in Answers, future'[b] # future[b]
        PROVE  \E reply \in Replies : future'[b] = reply /\ Says(b, reply)'
    <3>1. b = req[c].on /\ future'[b] = "option"
      BY <1>5, <2>1
    <3>2. Tells(c, b, "option")
      BY <1>1, <3>1 DEF Tells
    <3>3. Says(b, "option")
      BY <1>1, <2>1, <3>2 DEF CInv, HearFits
    <3>4. Says(b, "option")'
      BY <1>1, <1>4, <3>3, SaysStays
    <3>5. QED
      BY <1>1, <3>1, <3>4
  <2>2. QED
    BY <2>1
<1>7. \A b, reply : ~Tells(c, b, reply)'
  BY <1>3 DEF Tells
<1>8. QED
  BY <1>1, <1>2, <1>3, <1>4, <1>5, <1>6, <1>7, AnswersKeeps DEF Types, Starting

LEMMA StopCancelsKeeps == ASSUME CInv, NEW c \in Requests, StopCancels(c) PROVE CInv'
<1>1. Types /\ req[c].at = "stops" /\ "cancelled" \in Statuses \ {"none", "pending"}
  BY DEF CInv, StopCancels, Statuses
<1>2. UNCHANGED <<store, future, answering, acked, unheard, closer, bounds>>
  BY DEF StopCancels
<1>3. /\ asked' \in [Answers -> Statuses] /\ Moved
      /\ req[c].on \in Answers /\ asked[req[c].on] = "pending" => asked'[req[c].on] = "cancelled"
  BY <1>1, RowMoves DEF StopCancels
<1> DEFINE place == IF asked[req[c].on] = "pending" THEN "stopTells" ELSE "waits"
<1>4. Go(c, place) /\ place \in ReqAts
  BY DEF StopCancels, ReqAts
<1> HIDE DEF place
<1>5. req' \in [Requests -> ReqSet] /\ Others(c) /\ req'[c].at = place /\ req'[c].on = req[c].on
  BY <1>1, <1>4, GoIs
<1>6. \A b \in Answers, reply \in Replies : Tells(c, b, reply)' => Says(b, reply)'
  BY <1>3, <1>5 DEF Tells, Says, place
<1>7. QED
  BY <1>1, <1>2, <1>3, <1>5, <1>6, AnswersKeeps DEF Types, Starting, place

LEMMA StopTellsKeeps == ASSUME CInv, NEW c \in Requests, StopTells(c) PROVE CInv'
<1>1. Types /\ req[c].at = "stopTells" /\ "stopped" \in Replies /\ "waits" \in ReqAts
  BY DEF CInv, StopTells, Replies, ReqAts
<1>2. UNCHANGED <<store, asked, answering, acked, unheard, closer, bounds>>
  BY DEF StopTells
<1>3. req' \in [Requests -> ReqSet] /\ Others(c) /\ req'[c].at = "waits"
  BY <1>1, GoIs DEF StopTells
<1>4. Moved
  BY <1>2 DEF Moved
<1>5. /\ future' \in [Answers -> Futures]
      /\ \A b \in Answers : future'[b] = future[b] \/ (b = req[c].on /\ future'[b] = "stopped")
  BY <1>1, Replied DEF StopTells
<1>6. exists => \A b \in Answers : \/ future'[b] = future[b]
                                   \/ \E reply \in Replies : future'[b] = reply /\ Says(b, reply)'
  <2>1. ASSUME exists, NEW b \in Answers, future'[b] # future[b]
        PROVE  \E reply \in Replies : future'[b] = reply /\ Says(b, reply)'
    <3>1. b = req[c].on /\ future'[b] = "stopped"
      BY <1>5, <2>1
    <3>2. Tells(c, b, "stopped")
      BY <1>1, <3>1 DEF Tells
    <3>3. Says(b, "stopped")
      BY <1>1, <2>1, <3>2 DEF CInv, HearFits
    <3>4. Says(b, "stopped")'
      BY <1>1, <1>4, <3>3, SaysStays
    <3>5. QED
      BY <1>1, <3>1, <3>4
  <2>2. QED
    BY <2>1
<1>7. \A b, reply : ~Tells(c, b, reply)'
  BY <1>3 DEF Tells
<1>8. QED
  BY <1>1, <1>2, <1>3, <1>4, <1>5, <1>6, <1>7, AnswersKeeps DEF Types, Starting

LEMMA StopEndsKeeps == ASSUME CInv, NEW c \in Requests, StopEnds(c) PROVE CInv'
<1>1. /\ Types /\ req[c].at \in {"waits", "gathers"} /\ "removes" \in ReqAts
      /\ Go(c, "removes") \/ Over(c)
  BY DEF CInv, StopEnds, ReqAts
<1>2. req' \in [Requests -> ReqSet] /\ Others(c) /\ req'[c].at \in {"idle", "removes"}
  BY <1>1, GoIs, OverIs
<1>3. /\ UNCHANGED <<store, question, runs, run, acked, unheard, closer, restarts>>
      /\ reserved' = reserved /\ begun' \in Nat
  BY <1>1 DEF StopEnds, answering, bounds, Types
<1>4. QED
  BY <1>1, <1>2, <1>3, QuietKeeps DEF Starting

-----------------------------------------------------------------------------
(* Stop, delete, and parts that change *)

\* What a stop, a timeout or a close writes into a run leaves it where it is.
Marked ==
  /\ run' \in [Answers -> RunSet]
  /\ \A a \in Answers : /\ run'[a].at = run[a].at /\ run'[a].state = run[a].state
                        /\ GivenUp(a) => GivenUp(a)'

LEMMA Unmarked == ASSUME Types, run' = run PROVE Marked
  BY DEF Types, Marked, GivenUp

LEMMA MarkedKeeps ==
  ASSUME CInv, NEW c \in Requests, req' \in [Requests -> ReqSet], Others(c), ~Starting(c),
         req'[c].at \notin {"asking", "inserted", "look", "changes", "picked", "closed", "stopTells"},
         Marked, begun' \in Nat,
         UNCHANGED <<store, question, runs, reserved, acked, unheard, closer, restarts>>
  PROVE  CInv'
<1>1. UNCHANGED <<exists, thread, to, kept, asked, future>>
  BY DEF store, question
<1>2. exists' \in BOOLEAN /\ reserved' \in BOOLEAN /\ (exists' => exists)
  BY <1>1, Zenon DEF CInv, Types
<1>3. Types'
  BY <1>1, <1>2 DEF CInv, Types, Marked
<1>4. KindFits'
  BY QuietKinds DEF CInv
<1>5. ReserveFits'
  <2>1. \A d \in Requests : req'[d].at \in {"asking", "inserted"} <=> Starting(d)
    BY DEF Others, Starting
  <2>2. \A a \in Answers : run'[a].at \notin {"none", "ended"} => Works(a) /\ runs' = runs
    BY DEF Works, Marked
  <2>3. QED
    BY <2>1, <2>2, ReserveKept DEF CInv
<1>6. StreamFits'
  <2>1. Shown' = Shown /\ Shown \subseteq Answers
    BY <1>1 DEF Shown, CInv, Types
  <2>2. \A d \in Requests : \/ req'[d].at = req[d].at /\ req'[d].on = req[d].on
                               /\ req'[d].list = req[d].list /\ req'[d].seen = req[d].seen
                            \/ req'[d].at \notin {"inserted", "changes"} /\ req[d].at # "inserted"
    BY DEF Others, Starting
  <2>3. \A a \in Answers : /\ run'[a].at = run[a].at /\ run'[a].state = run[a].state
                           /\ GivenUp(a) => GivenUp(a)'
    BY DEF Marked
  <2>4. \A a \in Shown : kept'[a].state = kept[a].state
    BY <1>1
  <2>5. StreamFits /\ UNCHANGED <<to, runs>>
    BY <1>1 DEF CInv
  <2>6. QED
    BY <2>1, <2>2, <2>3, <2>4, <2>5, StreamKept
<1>7. HearFits'
  <2>1. \A d \in Requests, a \in Answers, reply \in Replies : Tells(d, a, reply)' => Tells(d, a, reply)
    BY DEF Tells, Others
  <2>2. \A a \in Answers : run'[a].at = "tells" => run[a].at = "tells"
    BY DEF Marked
  <2>3. Moved /\ \A a \in Answers : future'[a] = future[a]
    BY <1>1 DEF Moved
  <2>4. HearFits
    BY DEF CInv
  <2>5. QED
    BY <1>2, <2>1, <2>2, <2>3, <2>4, HearKept
<1>8. QED
  BY <1>3, <1>4, <1>5, <1>6, <1>7 DEF CInv

LEMMA StopRunIs ==
  ASSUME Types, NEW c \in Requests, NEW kind \in Kinds, NEW a \in Ids, StopRun(c, kind, a)
  PROVE  req' \in [Requests -> ReqSet] /\ Others(c) /\ req'[c].at = "stops" /\ req'[c].kind = kind
<1>1. req' = [req EXCEPT ![c] = Anew("stops", kind, a)] /\ "stops" \in ReqAts
  BY DEF StopRun, Anew, ReqAts
<1>2. QED
  BY <1>1, AnewIs

LEMMA StopKeeps == ASSUME CInv, NEW c \in Requests, Stop(c) PROVE CInv'
<1>1. Types /\ "stop" \in Kinds /\ runs \in Ids /\ req[c].at = "idle" /\ begun' \in Nat
  BY Begins DEF CInv, Types, Kinds, Stop
<1>2. req' \in [Requests -> ReqSet] /\ Others(c) /\ req'[c].at = "stops"
  BY <1>1, StopRunIs DEF Stop
<1>3. Marked
  <2>1. run' = [run EXCEPT ![runs].stopping = TRUE] /\ run \in [Answers -> RunSet]
    BY <1>1 DEF Stop, Types
  <2>2. \A b \in Answers : run'[b] = run[b] \/ run'[b] = [run[b] EXCEPT !.stopping = TRUE]
    BY <2>1
  <2>3. \A b \in Answers : run'[b] \in RunSet
    BY <2>1, <2>2, RunMarks
  <2>4. \A b \in Answers : /\ run'[b].at = run[b].at /\ run'[b].state = run[b].state
                           /\ run'[b].deleted = run[b].deleted /\ run'[b].cut = run[b].cut
    BY <2>1, <2>2 DEF RunSet
  <2>5. run' = [b \in Answers |-> run'[b]]
    BY <2>1
  <2>6. QED
    BY <2>3, <2>4, <2>5 DEF Marked, GivenUp
<1>4. UNCHANGED <<store, question, runs, reserved, acked, unheard, closer, restarts>>
  BY DEF Stop
<1>5. QED
  BY <1>1, <1>2, <1>3, <1>4, MarkedKeeps DEF Starting

LEMMA DeleteKeeps == ASSUME CInv, NEW c \in Requests, Delete(c) PROVE CInv'
<1>1. Types /\ "delete" \in Kinds /\ runs \in Ids /\ req[c].at = "idle" /\ begun' \in Nat
  BY Begins DEF CInv, Types, Kinds, Delete
<1>2. UNCHANGED <<store, question, runs, reserved, acked, unheard, closer, restarts>>
  BY DEF Delete
<1>3. CASE runs = None
  <2> DEFINE removes == [NoRequest EXCEPT !.at = "removes", !.kind = "delete"]
  <2>1. req' = [req EXCEPT ![c] = removes] /\ run' = run
    BY <1>3 DEF Delete
  <2>2. removes \in ReqSet /\ removes.at = "removes"
    BY <1>1, Constants DEF NoRequest, ReqSet, ReqAts
  <2> HIDE DEF removes
  <2>3. req' \in [Requests -> ReqSet] /\ Others(c) /\ req'[c].at = "removes"
    BY <1>1, <2>1, <2>2 DEF Types, Others
  <2>4. QED
    BY <1>1, <1>2, <2>1, <2>3, Unmarked, MarkedKeeps DEF Starting
<1>4. CASE runs # None
  <2>1. StopRun(c, "delete", runs) /\ run' = [run EXCEPT ![runs].stopping = TRUE, ![runs].deleted = TRUE]
    BY <1>4 DEF Delete
  <2>2. req' \in [Requests -> ReqSet] /\ Others(c) /\ req'[c].at = "stops"
    BY <1>1, <2>1, StopRunIs
  <2>3. Marked
    <3>1. runs \in Answers => /\ run[runs] \in RunSet
                              /\ run'[runs] = [run[runs] EXCEPT !.stopping = TRUE, !.deleted = TRUE]
      BY <1>1, <2>1 DEF Types
    <3>2. runs \in Answers => /\ run'[runs] \in RunSet /\ run'[runs].at = run[runs].at
                              /\ run'[runs].state = run[runs].state /\ run'[runs].deleted
      BY <3>1 DEF RunSet
    <3>3. \A a \in Answers : a # runs => run'[a] = run[a]
      BY <1>1, <2>1 DEF Types
    <3>4. \A a \in Answers : /\ run'[a] \in RunSet /\ run'[a].at = run[a].at /\ run'[a].state = run[a].state
                             /\ GivenUp(a) => GivenUp(a)'
      BY <1>1, <3>2, <3>3 DEF Types, GivenUp
    <3>5. run' = [a \in Answers |-> run'[a]]
      BY <1>1, <2>1 DEF Types
    <3>6. QED
      BY <3>4, <3>5 DEF Marked
  <2>4. QED
    BY <1>1, <1>2, <2>2, <2>3, MarkedKeeps DEF Starting
<1>5. QED
  BY <1>3, <1>4

LEMMA StopTimesOutKeeps == ASSUME CInv, NEW c \in Requests, StopTimesOut(c) PROVE CInv'
<1>1. Types /\ req[c].at = "waits" /\ "gathers" \in ReqAts /\ begun' \in Nat
  BY DEF CInv, StopTimesOut, ReqAts, bounds, Types
<1>2. req' \in [Requests -> ReqSet] /\ Others(c) /\ req'[c].at = "gathers"
  BY <1>1, GoIs DEF StopTimesOut
<1>3. Marked
  <2>1. run' = [run EXCEPT ![req[c].on].kill = TRUE] /\ run \in [Answers -> RunSet]
    BY <1>1 DEF StopTimesOut, Types
  <2>2. \A b \in Answers : run'[b] = run[b] \/ run'[b] = [run[b] EXCEPT !.kill = TRUE]
    BY <2>1
  <2>3. \A b \in Answers : run'[b] \in RunSet
    BY <2>1, <2>2, RunMarks
  <2>4. \A b \in Answers : /\ run'[b].at = run[b].at /\ run'[b].state = run[b].state
                           /\ run'[b].deleted = run[b].deleted /\ run'[b].cut = run[b].cut
    BY <2>1, <2>2 DEF RunSet
  <2>5. run' = [b \in Answers |-> run'[b]]
    BY <2>1
  <2>6. QED
    BY <2>3, <2>4, <2>5 DEF Marked, GivenUp
<1>4. UNCHANGED <<store, question, runs, reserved, acked, unheard, closer, restarts>>
  BY DEF StopTimesOut, bounds
<1>5. QED
  BY <1>1, <1>2, <1>3, <1>4, MarkedKeeps DEF Starting

\* The chat is gone, and its thread.
LEMMA RemoveKeeps == ASSUME CInv, NEW c \in Requests, Remove(c) PROVE CInv'
<1>1. /\ Types /\ req[c].at = "removes" /\ exists' = FALSE /\ thread' = <<>>
      /\ UNCHANGED <<to, kept, future, runs, reserved, run, acked, unheard, closer, begun, restarts>>
  BY DEF CInv, Remove, answering, bounds
<1>2. req' \in [Requests -> ReqSet] /\ Others(c) /\ req'[c].at = "idle"
  BY <1>1, OverIs DEF Remove
<1>3. Types'
  <2>1. asked' \in [Answers -> Statuses]
    BY DEF Remove, Statuses
  <2>2. reserved' \in BOOLEAN
    BY <1>1, Zenon DEF Types
  <2>3. thread' \in Seq(Answers)
    BY <1>1
  <2>5. exists' \in BOOLEAN
    BY <1>1, Zenon
  <2>4. QED
    BY <1>1, <1>2, <2>1, <2>2, <2>3, <2>5 DEF Types
<1>4. KindFits'
  BY <1>2, QuietKinds DEF CInv
<1>5. ReserveFits'
  BY <1>1, <1>2, QuietReserve DEF CInv, Starting
<1>6. StreamFits'
  <2>1. Shown' = {} /\ Shown \subseteq Answers
    BY <1>1 DEF Shown, Types
  <2>2. \A d \in Requests : \/ req'[d].at = req[d].at /\ req'[d].on = req[d].on
                               /\ req'[d].list = req[d].list /\ req'[d].seen = req[d].seen
                            \/ req'[d].at \notin {"inserted", "changes"} /\ req[d].at # "inserted"
    BY <1>1, <1>2 DEF Others
  <2>3. \A a \in Answers : run'[a] = run[a]
    BY <1>1
  <2>4. \A a \in Shown : kept'[a].state = kept[a].state
    BY <1>1
  <2>5. StreamFits /\ UNCHANGED <<to, runs>> /\ Shown' \subseteq Shown
    BY <1>1, <2>1 DEF CInv
  <2>6. QED
    BY <2>1, <2>2, <2>3, <2>4, <2>5, StreamKept DEF GivenUp
<1>7. HearFits'
  BY <1>1 DEF HearFits
<1>8. QED
  BY <1>3, <1>4, <1>5, <1>6, <1>7 DEF CInv

\* A run in the map takes the change; otherwise the run is over, and what is stored says so.
LEMMA ChangePartKeeps == ASSUME CInv, NEW c \in Requests, NEW a \in Answers, ChangePart(c, a) PROVE CInv'
<1>1. Types /\ req[c].at = "idle" /\ begun' \in Nat
  BY Begins DEF CInv, ChangePart
<1>2. UNCHANGED <<store, question, runs, reserved, unheard, closer, restarts>> /\ a \in Shown /\ run[a].at # "none"
  BY DEF ChangePart
<1>3. UNCHANGED <<exists, thread, to, kept, asked, future>>
  BY <1>2 DEF store, question
<1>4. exists' \in BOOLEAN /\ reserved' \in BOOLEAN /\ (exists' => exists)
  BY <1>1, <1>2, <1>3, Zenon DEF Types
<1>5. Shown' = Shown /\ Shown \subseteq Answers
  BY <1>1, <1>3 DEF Shown, Types
<1>6. CASE runs = a
  <2>1. /\ run' = [run EXCEPT ![a].parts = @ \cup {c}] /\ acked' = [acked EXCEPT ![a] = @ \cup {c}]
        /\ req' = req
    BY <1>6 DEF ChangePart
  <2>2. Marked
    <3>1. run[a] \in RunSet /\ run'[a] = [run[a] EXCEPT !.parts = @ \cup {c}]
      BY <1>1, <2>1 DEF Types
    <3>2. run[a].parts \cup {c} \in SUBSET Requests
      BY <3>1 DEF RunSet
    <3>3. /\ run'[a] \in RunSet /\ run'[a].at = run[a].at /\ run'[a].state = run[a].state
          /\ run'[a].deleted = run[a].deleted /\ run'[a].cut = run[a].cut
      BY <3>1, <3>2 DEF RunSet
    <3>4. run' \in [Answers -> RunSet] /\ \A b \in Answers : b # a => run'[b] = run[b]
      BY <1>1, <2>1, <3>3 DEF Types
    <3>5. QED
      BY <3>3, <3>4 DEF Marked, GivenUp
  <2>3. acked' \in [Answers -> SUBSET Requests]
    BY <1>1, <2>1 DEF Types
  <2>4. Types'
    BY <1>1, <1>2, <1>3, <1>4, <2>1, <2>2, <2>3 DEF Types, Marked
  <2>5. KindFits'
    BY <2>1 DEF CInv, KindFits
  <2>6. ReserveFits'
    <3>1. \A d \in Requests : req'[d].at \in {"asking", "inserted"} <=> Starting(d)
      BY <2>1 DEF Starting
    <3>2. \A b \in Answers : run'[b].at \notin {"none", "ended"} => Works(b) /\ runs' = runs
      BY <1>2, <2>2 DEF Works, Marked
    <3>3. QED
      BY <1>2, <3>1, <3>2, ReserveKept DEF CInv
  <2>7. StreamFits'
    <3>1. \A b \in Answers : /\ run'[b].at = run[b].at /\ run'[b].state = run[b].state
                             /\ GivenUp(b) => GivenUp(b)'
      BY <2>2 DEF Marked
    <3>2. \A b \in Shown : kept'[b].state = kept[b].state
      BY <1>3
    <3>3. StreamFits /\ UNCHANGED <<to, runs>> /\ \A d \in Requests : req'[d] = req[d]
      BY <1>2, <1>3, <2>1 DEF CInv
    <3>4. QED
      BY <1>5, <3>1, <3>2, <3>3, StreamKept
  <2>8. HearFits'
    <3>1. \A d \in Requests, b \in Answers, reply \in Replies : Tells(d, b, reply)' => Tells(d, b, reply)
      BY <2>1 DEF Tells
    <3>2. \A b \in Answers : run'[b].at = "tells" => run[b].at = "tells"
      BY <2>2 DEF Marked
    <3>3. Moved /\ \A b \in Answers : future'[b] = future[b]
      BY <1>3 DEF Moved
    <3>4. HearFits /\ closer' = closer
      BY <1>2 DEF CInv
    <3>5. QED
      BY <1>4, <3>1, <3>2, <3>3, <3>4, HearKept
  <2>9. QED
    BY <2>4, <2>5, <2>6, <2>7, <2>8 DEF CInv
<1>7. CASE runs # a
  <2> DEFINE changes == [NoRequest EXCEPT !.at = "changes", !.on = a, !.seen = kept[a]]
  <2>1. req' = [req EXCEPT ![c] = changes] /\ UNCHANGED <<run, acked>>
    BY <1>7 DEF ChangePart
  <2>2. changes \in ReqSet /\ changes.at = "changes" /\ changes.on = a /\ changes.seen = kept[a]
    BY <1>1, Constants DEF NoRequest, ReqSet, ReqAts, Ids, Types
  <2> HIDE DEF changes
  <2>3. /\ req' \in [Requests -> ReqSet] /\ Others(c)
        /\ req'[c].at = "changes" /\ req'[c].on = a /\ req'[c].seen = kept[a]
    BY <1>1, <2>1, <2>2 DEF Types, Others
  <2>4. Types'
    BY <1>1, <1>2, <1>3, <1>4, <2>1, <2>3 DEF Types
  <2>5. KindFits'
    BY <2>3, QuietKinds DEF CInv
  <2>6. ReserveFits'
    BY <1>1, <1>2, <2>1, <2>3, QuietReserve DEF CInv, Starting
  <2>7. run[a].at = "ended" /\ (kept[a].state \in Ended \/ GivenUp(a))
    <3>1. ~Works(a)
      BY <1>7 DEF CInv, ReserveFits
    <3>2. kept[a].state \in States
      BY <1>1 DEF Types, Rows
    <3>3. \A d \in Requests : ~(req[d].at = "inserted" /\ a \in req[d].list)
      BY <1>2 DEF CInv, StreamFits
    <3>4. kept[a].state = "streaming" => GivenUp(a)
      BY <1>2, <1>7, <3>3 DEF CInv, StreamFits, StreamingIsAnswering
    <3>5. QED
      BY <1>2, <3>1, <3>2, <3>4 DEF Works, States
  <2>8. StreamFits'
    <3>1. /\ \A b \in Answers : run'[b].at \in Working => run'[b].state \in Ended
          /\ \A b \in Shown' : run'[b].at = "saved" => kept'[b].state \in Ended
          /\ \A b \in Answers : to'[b] = None => run'[b].at = "none"
          /\ \A b \in Shown' : to'[b] # None
      BY <1>3, <1>5, <2>1 DEF CInv, StreamFits
    <3>2. \A d \in Requests : req'[d].at = "inserted" =>
            \E n \in Answers : req'[d].list = {n} /\ run'[n].at = "none" /\ to'[n] # None
      BY <1>3, <2>1, <2>3 DEF CInv, StreamFits, Others
    <3>3. ASSUME NEW d \in Requests, req'[d].at = "changes" PROVE ChangeFits(d)'
      <4>1. CASE d = c
        BY <1>2, <1>7, <2>1, <2>3, <2>7, <4>1 DEF ChangeFits, GivenUp
      <4>2. CASE d # c
        <5>1. req'[d] = req[d] /\ ChangeFits(d)
          BY <2>3, <3>3, <4>2 DEF Others, CInv, StreamFits
        <5>2. QED
          BY <1>2, <2>1, <5>1 DEF ChangeFits, GivenUp
      <4>3. QED
        BY <4>1, <4>2
    <3>4. StreamingIsAnswering'
      <4>1. ASSUME NEW b \in Shown', kept'[b].state = "streaming", ~GivenUp(b)'
            PROVE  runs' = b \/ \E d \in Requests : req'[d].at = "inserted" /\ b \in req'[d].list
        <5>1. runs = b \/ \E d \in Requests : req[d].at = "inserted" /\ b \in req[d].list
          BY <1>3, <1>5, <2>1, <4>1 DEF CInv, StreamFits, StreamingIsAnswering, GivenUp
        <5>2. QED
          BY <1>1, <1>2, <2>3, <5>1 DEF Others
      <4>2. QED
        BY <4>1 DEF StreamingIsAnswering
    <3>5. QED
      BY <3>1, <3>2, <3>3, <3>4 DEF StreamFits
  <2>9. HearFits'
    BY <1>2, <1>3, <2>1, <2>3, QuietHear DEF CInv
  <2>10. QED
    BY <2>4, <2>5, <2>6, <2>8, <2>9 DEF CInv
<1>8. QED
  BY <1>6, <1>7

\* The change is written over what was read: an answer that had ended.
LEMMA PartChangedKeeps == ASSUME CInv, NEW c \in Requests, PartChanged(c) PROVE CInv'
<1> DEFINE a == req[c].on
           row == [req[c].seen EXCEPT !.parts = @ \cup {c}]
<1>1. /\ Types /\ req[c].at = "changes" /\ kept' = Stored(a, row)
      /\ acked' = [acked EXCEPT ![a] = @ \cup {c}]
      /\ UNCHANGED <<exists, thread, to, asked, future, runs, reserved, run, unheard, closer, begun, restarts>>
  BY DEF CInv, PartChanged, question, answering, bounds
<1>2. a \in Answers /\ run[a].at = "ended" /\ (req[c].seen.state \in Ended \/ GivenUp(a))
  BY <1>1 DEF CInv, StreamFits, ChangeFits
<1>3. row \in Rows /\ row.state = req[c].seen.state
  <2>1. req[c].seen \in Rows
    BY <1>1 DEF Types, ReqSet
  <2>2. req[c].seen.parts \cup {c} \in SUBSET Requests
    BY <2>1 DEF Rows
  <2>3. QED
    BY <2>1, <2>2 DEF Rows
<1>4. req' \in [Requests -> ReqSet] /\ Others(c) /\ req'[c].at = "idle"
  BY <1>1, OverIs DEF PartChanged
<1> HIDE DEF a, row
<1>5. kept' \in [Answers -> Rows] /\ \A b \in Answers : kept'[b] = kept[b] \/ (b = a /\ kept'[b] = row)
  <2>1. kept' \in [Answers -> Rows]
    BY <1>1, <1>3, StoredTyped
  <2>2. QED
    BY <1>1, <2>1 DEF Stored, Types
<1>6. exists' \in BOOLEAN /\ reserved' \in BOOLEAN /\ (exists' => exists)
  BY <1>1, Zenon DEF Types
<1>7. Types'
  <2>1. acked' \in [Answers -> SUBSET Requests]
    BY <1>1 DEF Types
  <2>2. QED
    BY <1>1, <1>4, <1>5, <1>6, <2>1 DEF Types
<1>8. KindFits'
  BY <1>4, QuietKinds DEF CInv
<1>9. ReserveFits'
  BY <1>1, <1>4, QuietReserve DEF CInv, Starting
<1>10. StreamFits'
  <2>1. Shown' = Shown /\ Shown \subseteq Answers
    BY <1>1 DEF Shown, Types
  <2>2. \A d \in Requests : \/ req'[d].at = req[d].at /\ req'[d].on = req[d].on
                               /\ req'[d].list = req[d].list /\ req'[d].seen = req[d].seen
                            \/ req'[d].at \notin {"inserted", "changes"} /\ req[d].at # "inserted"
    BY <1>1, <1>4 DEF Others
  <2>3. \A b \in Answers : run'[b] = run[b]
    BY <1>1
  <2>4. \A b \in Shown : \/ kept'[b].state = kept[b].state
                         \/ kept'[b].state \in Ended
                         \/ GivenUp(b) /\ run[b].at # "saved"
    BY <1>2, <1>3, <1>5, <2>1
  <2>5. StreamFits /\ UNCHANGED <<to, runs>>
    BY <1>1 DEF CInv
  <2>6. QED
    BY <2>1, <2>2, <2>3, <2>4, <2>5, StreamKept DEF GivenUp
<1>11. HearFits'
  BY <1>1, <1>4, QuietHear DEF CInv
<1>12. QED
  BY <1>7, <1>8, <1>9, <1>10, <1>11 DEF CInv

LEMMA PickFailsKeeps == ASSUME CInv, NEW c \in Requests, PickFails(c) PROVE CInv'
<1>1. Types /\ req[c].at = "failed"
  BY DEF CInv, PickFails
<1>2. UNCHANGED <<store, question, answering, acked, unheard, closer, bounds>>
  BY DEF PickFails
<1>3. req' \in [Requests -> ReqSet] /\ Others(c) /\ req'[c].at = "idle"
  BY <1>1, OverIs DEF PickFails
<1>4. begun' \in Nat /\ restarts' = restarts /\ runs' = runs /\ run' = run /\ reserved' = reserved
  BY <1>1, <1>2 DEF Types, bounds, answering
<1>5. QED
  BY <1>1, <1>2, <1>3, <1>4, QuietKeeps DEF Starting

-----------------------------------------------------------------------------
(* The runs *)

LEMMA BooleansStay ==
  ASSUME exists \in BOOLEAN, reserved \in BOOLEAN, exists' = exists, reserved' = reserved
  PROVE  exists' \in BOOLEAN /\ reserved' \in BOOLEAN /\ (exists' => exists)
  BY Zenon

LEMMA RunKeeps ==
  ASSUME CInv, NEW a \in Answers, Works(a), run' \in [Answers -> RunSet], kept' \in [Answers -> Rows],
         asked' \in [Answers -> Statuses], future' \in [Answers -> Futures], Moved,
         UNCHANGED <<exists, thread, to, reserved, users, closer, bounds>>,
         \A b \in Answers \ {a} : run'[b] = run[b] /\ kept'[b] = kept[b],
         run'[a].at # "none",
         run'[a].at \in Working => run'[a].state \in Ended,
         a \in Shown /\ run'[a].at = "saved" => kept'[a].state \in Ended,
         \/ runs' = runs
         \/ run'[a].at = "ended" /\ runs' = None /\ (a \in Shown /\ ~GivenUp(a)' => kept'[a].state \in Ended),
         exists => \A b \in Answers : \/ future'[b] = future[b]
                                      \/ \E reply \in Replies : future'[b] = reply /\ Says(b, reply)',
         exists /\ run'[a].at = "tells" => Says(a, "stopped")'
  PROVE  CInv'
<1>1. UNCHANGED <<exists, thread, to, reserved, req, acked, unheard, closer, begun, restarts>>
  BY DEF users, bounds
<1>2. exists' \in BOOLEAN /\ reserved' \in BOOLEAN /\ (exists' => exists)
  <2>1. exists' = exists /\ reserved' = reserved
    BY <1>1
  <2>2. exists \in BOOLEAN /\ reserved \in BOOLEAN
    BY DEF CInv, Types
  <2>3. QED
    BY <2>1, <2>2, BooleansStay
<1>3. Types'
  <2>1. runs' \in Ids
    BY NoneIsNone DEF CInv, Types
  <2>2. QED
    BY <1>1, <1>2, <2>1 DEF CInv, Types
<1>4. KindFits'
  BY <1>1 DEF CInv, KindFits
<1>5. ReserveFits'
  <2>1. \A d \in Requests : req'[d].at \in {"asking", "inserted"} <=> Starting(d)
    BY <1>1 DEF Starting
  <2>2. \A b \in Answers : run'[b].at \notin {"none", "ended"} => Works(b)
    BY DEF Works
  <2>3. \A b \in Answers : Works(b) => b = a
    BY DEF CInv, ReserveFits
  <2>4. \A b \in Answers : run'[b].at \notin {"none", "ended"} => Works(b) /\ runs' = runs
    BY <2>2, <2>3
  <2>5. QED
    BY <1>1, <2>1, <2>4, ReserveKept DEF CInv
<1>6. StreamFits'
  <2>1. UNCHANGED <<thread, to, req>>
    BY <1>1
  <2>2. QED
    BY <2>1, StreamOfRun DEF CInv
<1>7. HearFits'
  <2>1. \A d \in Requests, b \in Answers, reply \in Replies : Tells(d, b, reply)' => Tells(d, b, reply)
    BY <1>1 DEF Tells
  <2>2. exists => \A b \in Answers : run'[b].at = "tells" => run[b].at = "tells" \/ Says(b, "stopped")'
    <3>1. ASSUME exists, NEW b \in Answers, run'[b].at = "tells"
          PROVE  run[b].at = "tells" \/ Says(b, "stopped")'
      BY <3>1
    <3>2. QED
      BY <3>1
  <2>3. HearFits /\ closer' = closer
    BY <1>1 DEF CInv
  <2>4. QED
    BY <1>2, <2>1, <2>2, <2>3, HearKept
<1>8. QED
  BY <1>3, <1>4, <1>5, <1>6, <1>7 DEF CInv

LEMMA RunIs ==
  ASSUME Types, NEW a \in Answers, NEW r \in RunSet, run' = [run EXCEPT ![a] = r]
  PROVE  run' \in [Answers -> RunSet] /\ run'[a] = r /\ \A b \in Answers \ {a} : run'[b] = run[b]
  BY DEF Types

LEMMA LeftIs ==
  ASSUME Types, NEW a \in Answers, NEW cut \in BOOLEAN, Left(a, cut)
  PROVE  /\ run' \in [Answers -> RunSet] /\ \A b \in Answers \ {a} : run'[b] = run[b]
         /\ run'[a].at = "ended" /\ run'[a].deleted = run[a].deleted /\ run'[a].cut = cut
         /\ runs' = IF runs = a THEN None ELSE runs
<1> DEFINE r == [NoRun EXCEPT !.at = "ended", !.cut = cut, !.deleted = run[a].deleted, !.kill = run[a].kill]
<1>1. run' = [run EXCEPT ![a] = r] /\ runs' = IF runs = a THEN None ELSE runs
  BY DEF Left
<1>2. r \in RunSet /\ r.at = "ended" /\ r.deleted = run[a].deleted /\ r.cut = cut
  <2>1. run[a].deleted \in BOOLEAN /\ run[a].kill \in BOOLEAN /\ NoRun \in RunSet /\ "ended" \in RunAts
    BY Constants DEF Types, RunSet, RunAts
  <2>2. r \in RunSet
    BY <2>1 DEF RunSet
  <2>3. r.at = "ended" /\ r.deleted = run[a].deleted /\ r.cut = cut
    BY DEF NoRun
  <2>4. QED
    BY <2>2, <2>3
<1> HIDE DEF r
<1>3. QED
  BY <1>1, <1>2, RunIs

LEMMA DecidedIs ==
  ASSUME Types, NEW a \in Answers, NEW r \in RunSet, r.state \in Ended
  PROVE  /\ Decided(r) \in RunSet /\ Decided(r).at = "logs" /\ Decided(r).state \in Ended
<1>1. "logs" \in RunAts /\ "interrupted" \in Ended /\ Ended \subseteq States
  BY DEF RunAts, Working, Ended, States
<1> DEFINE state == IF r.state = "cancelled" /\ r.closing THEN "interrupted" ELSE r.state
<1>2. state \in Ended
  BY <1>1
<1>3. Decided(r) = [r EXCEPT !.at = "logs", !.saved = r.parts, !.state = state]
  BY DEF Decided, RunSet
<1> HIDE DEF state
<1>4. QED
  BY <1>1, <1>2, <1>3 DEF RunSet

LEMMA StoredIs ==
  ASSUME Types, NEW a \in Answers, NEW row \in Rows, kept' = Stored(a, row)
  PROVE  /\ kept' \in [Answers -> Rows] /\ \A b \in Answers \ {a} : kept'[b] = kept[b]
         /\ a \in Shown => kept'[a] = row
<1>1. kept' \in [Answers -> Rows]
  BY StoredTyped
<1>2. QED
  BY <1>1 DEF Stored, Types

LEMMA TurnEndsKeeps == ASSUME CInv, NEW a \in Answers, TurnEnds(a) PROVE CInv'
<1>1. /\ Types /\ Works(a) /\ run[a] \in RunSet
      /\ UNCHANGED <<exists, thread, to, kept, asked, future, runs, reserved, users, closer, bounds>>
  BY DEF CInv, TurnEnds, Works, Types, store, question
<1>2. PICK s \in Ended : run' = [run EXCEPT ![a].at = "cancels", ![a].state = s, ![a].kill = FALSE]
  BY DEF TurnEnds
<1> DEFINE r == [run[a] EXCEPT !.at = "cancels", !.state = s, !.kill = FALSE]
<1>3. run' = [run EXCEPT ![a] = r]
  BY <1>1, <1>2 DEF Types
<1>4. r \in RunSet /\ r.at = "cancels" /\ r.state \in Ended
  BY <1>1, Constants DEF RunSet, RunAts, Working
<1> HIDE DEF r
<1>5. run' \in [Answers -> RunSet] /\ run'[a] = r /\ \A b \in Answers \ {a} : run'[b] = run[b]
  BY <1>1, <1>3, <1>4, RunIs
<1>6. kept' \in [Answers -> Rows] /\ asked' \in [Answers -> Statuses] /\ future' \in [Answers -> Futures] /\ Moved
  BY <1>1 DEF Types, Moved
<1>7. QED
  BY <1>1, <1>4, <1>5, <1>6, RunKeeps

LEMMA FinishCancelsKeeps == ASSUME CInv, NEW a \in Answers, FinishCancels(a) PROVE CInv'
<1>1. /\ Types /\ Works(a) /\ run[a] \in RunSet /\ run[a].state \in Ended
      /\ UNCHANGED <<exists, thread, to, kept, future, runs, reserved, users, closer, bounds>>
  BY DEF CInv, StreamFits, Working, FinishCancels, Works, Types, store
<1>2. asked' \in [Answers -> Statuses] /\ Moved /\ (asked[a] = "pending" => asked'[a] = "cancelled")
  <2>1. "cancelled" \in Statuses \ {"none", "pending"}
    BY DEF Statuses
  <2>2. QED
    BY <1>1, <2>1, RowMoves DEF FinishCancels
<1>3. PICK r \in RunSet : /\ run' = [run EXCEPT ![a] = r] /\ r.state \in Ended
                          /\ \/ r.at = "tells" /\ asked[a] = "pending"
                             \/ r.at = "logs"
  <2>1. CASE asked[a] = "pending"
    <3> DEFINE r == [run[a] EXCEPT !.at = "tells"]
    <3>1. run' = [run EXCEPT ![a] = r]
      BY <1>1, <2>1 DEF FinishCancels, Types
    <3>2. r \in RunSet /\ r.at = "tells" /\ r.state \in Ended
      BY <1>1 DEF RunSet, RunAts, Working
    <3> HIDE DEF r
    <3>3. QED
      BY <2>1, <3>1, <3>2
  <2>2. CASE asked[a] # "pending"
    <3>1. run' = [run EXCEPT ![a] = Decided(run[a])]
      BY <1>1, <2>2 DEF FinishCancels, Types
    <3>2. QED
      BY <1>1, <3>1, DecidedIs
  <2>3. QED
    BY <2>1, <2>2
<1>4. run' \in [Answers -> RunSet] /\ run'[a] = r /\ \A b \in Answers \ {a} : run'[b] = run[b]
  BY <1>1, <1>3, RunIs
<1>5. kept' \in [Answers -> Rows] /\ future' \in [Answers -> Futures]
  BY <1>1 DEF Types
<1>6. run'[a].at = "tells" => Says(a, "stopped")'
  BY <1>2, <1>3, <1>4 DEF Says
<1>7. QED
  BY <1>1, <1>2, <1>3, <1>4, <1>5, <1>6, RunKeeps

LEMMA FinishTellsKeeps == ASSUME CInv, NEW a \in Answers, FinishTells(a) PROVE CInv'
<1>1. /\ Types /\ Works(a) /\ run[a] \in RunSet /\ run[a].state \in Ended
      /\ UNCHANGED <<exists, thread, to, kept, asked, runs, reserved, users, closer, bounds>>
  BY DEF CInv, StreamFits, Working, FinishTells, Works, Types, store
<1>2. "stopped" \in Replies /\ Moved
  BY <1>1 DEF Replies, Moved
<1>3. /\ future' \in [Answers -> Futures]
      /\ \A b \in Answers : future'[b] = future[b] \/ (b = a /\ future'[b] = "stopped")
  BY <1>1, <1>2, Replied DEF FinishTells
<1>4. exists => Says(a, "stopped")'
  <2>1. exists => Says(a, "stopped")
    BY DEF CInv, HearFits, FinishTells
  <2>2. QED
    BY <1>2, <2>1, SaysStays
<1>5. exists => \A b \in Answers : \/ future'[b] = future[b]
                                   \/ \E reply \in Replies : future'[b] = reply /\ Says(b, reply)'
  BY <1>2, <1>3, <1>4
<1>6. /\ Decided(run[a]) \in RunSet /\ Decided(run[a]).at = "logs"
      /\ Decided(run[a]).state \in Ended
  BY <1>1, DecidedIs
<1>7. run' = [run EXCEPT ![a] = Decided(run[a])]
  BY <1>1 DEF FinishTells, Types
<1>8. run' \in [Answers -> RunSet] /\ run'[a] = Decided(run[a]) /\ \A b \in Answers \ {a} : run'[b] = run[b]
  BY <1>1, <1>6, <1>7, RunIs
<1>9. kept' \in [Answers -> Rows] /\ asked' \in [Answers -> Statuses]
  BY <1>1 DEF Types
<1>10. QED
  BY <1>1, <1>2, <1>3, <1>5, <1>6, <1>8, <1>9, RunKeeps

LEMMA FinishLogsKeeps == ASSUME CInv, NEW a \in Answers, FinishLogs(a) PROVE CInv'
<1>1. /\ Types /\ Works(a) /\ run[a] \in RunSet /\ run[a].state \in Ended /\ runs = a
      /\ UNCHANGED <<exists, thread, to, kept, asked, future, reserved, users, closer, bounds>>
  BY DEF CInv, StreamFits, ReserveFits, Working, FinishLogs, Works, Types, store, question
<1>2. kept' \in [Answers -> Rows] /\ asked' \in [Answers -> Statuses] /\ future' \in [Answers -> Futures] /\ Moved
  BY <1>1 DEF Types, Moved
<1>3. CASE run[a].deleted
  <2>1. Left(a, FALSE)
    BY <1>3 DEF FinishLogs
  <2>2. /\ run' \in [Answers -> RunSet] /\ \A b \in Answers \ {a} : run'[b] = run[b]
        /\ run'[a].at = "ended" /\ GivenUp(a)' /\ runs' = None
    BY <1>1, <1>3, <2>1, LeftIs DEF GivenUp
  <2>3. "ended" \notin Working
    BY DEF Working
  <2>4. QED
    BY <1>1, <1>2, <1>3, <2>2, <2>3, RunKeeps
<1>4. CASE ~run[a].deleted
  <2> DEFINE r == [run[a] EXCEPT !.at = "reads"]
  <2>1. run' = [run EXCEPT ![a] = r] /\ runs' = runs
    BY <1>1, <1>4 DEF FinishLogs, Types
  <2>2. r \in RunSet /\ r.at = "reads" /\ r.state \in Ended
    BY <1>1 DEF RunSet, RunAts, Working
  <2> HIDE DEF r
  <2>3. run' \in [Answers -> RunSet] /\ run'[a] = r /\ \A b \in Answers \ {a} : run'[b] = run[b]
    BY <1>1, <2>1, <2>2, RunIs
  <2>4. QED
    BY <1>1, <1>2, <2>1, <2>2, <2>3, RunKeeps
<1>5. QED
  BY <1>3, <1>4

LEMMA FinishReadsKeeps == ASSUME CInv, NEW a \in Answers, FinishReads(a) PROVE CInv'
<1> DEFINE r == [run[a] EXCEPT !.at = "saves"]
<1>1. /\ Types /\ Works(a) /\ run[a] \in RunSet /\ run[a].state \in Ended
      /\ UNCHANGED <<exists, thread, to, kept, asked, future, runs, reserved, users, closer, bounds>>
  BY DEF CInv, StreamFits, Working, FinishReads, Works, Types, store, question
<1>2. run' = [run EXCEPT ![a] = r]
  BY <1>1 DEF FinishReads, Types
<1>3. r \in RunSet /\ r.at = "saves" /\ r.state \in Ended
  BY <1>1 DEF RunSet, RunAts, Working
<1> HIDE DEF r
<1>4. run' \in [Answers -> RunSet] /\ run'[a] = r /\ \A b \in Answers \ {a} : run'[b] = run[b]
  BY <1>1, <1>2, <1>3, RunIs
<1>5. kept' \in [Answers -> Rows] /\ asked' \in [Answers -> Statuses] /\ future' \in [Answers -> Futures] /\ Moved
  BY <1>1 DEF Types, Moved
<1>6. QED
  BY <1>1, <1>3, <1>4, <1>5, RunKeeps

LEMMA FinishSavesKeeps == ASSUME CInv, NEW a \in Answers, FinishSaves(a) PROVE CInv'
<1> DEFINE row == [state |-> run[a].state, parts |-> run[a].saved]
           r == [run[a] EXCEPT !.at = "saved"]
<1>1. /\ Types /\ Works(a) /\ run[a] \in RunSet /\ run[a].state \in Ended
      /\ UNCHANGED <<exists, thread, to, asked, future, runs, reserved, users, closer, bounds>>
  BY DEF CInv, StreamFits, Working, FinishSaves, Works, Types, question
<1>2. kept' = Stored(a, row) /\ run' = [run EXCEPT ![a] = r]
  BY <1>1 DEF FinishSaves, Types
<1>3. row \in Rows /\ row.state \in Ended
  BY <1>1 DEF Rows, RunSet
<1>4. r \in RunSet /\ r.at = "saved" /\ r.state \in Ended
  BY <1>1 DEF RunSet, RunAts, Working
<1> HIDE DEF row, r
<1>5. run' \in [Answers -> RunSet] /\ run'[a] = r /\ \A b \in Answers \ {a} : run'[b] = run[b]
  BY <1>1, <1>2, <1>4, RunIs
<1>6. /\ kept' \in [Answers -> Rows] /\ \A b \in Answers \ {a} : kept'[b] = kept[b]
      /\ a \in Shown => kept'[a] = row
  BY <1>1, <1>2, <1>3, StoredIs
<1>7. asked' \in [Answers -> Statuses] /\ future' \in [Answers -> Futures] /\ Moved
  BY <1>1 DEF Types, Moved
<1>8. QED
  BY <1>1, <1>3, <1>4, <1>5, <1>6, <1>7, RunKeeps

LEMMA FinishEndsKeeps == ASSUME CInv, NEW a \in Answers, FinishEnds(a) PROVE CInv'
<1>1. /\ Types /\ Works(a) /\ run[a] \in RunSet /\ run[a].state \in Ended /\ runs = a
      /\ a \in Shown => kept[a].state \in Ended
      /\ UNCHANGED <<exists, thread, to, kept, asked, future, reserved, users, closer, bounds>>
  BY DEF CInv, StreamFits, ReserveFits, Working, FinishEnds, Works, Types, store, question
<1>2. kept' \in [Answers -> Rows] /\ asked' \in [Answers -> Statuses] /\ future' \in [Answers -> Futures] /\ Moved
  BY <1>1 DEF Types, Moved
<1>3. CASE run[a].parts # run[a].saved
  <2> DEFINE r == [run[a] EXCEPT !.at = "saves", !.saved = run[a].parts]
  <2>1. run' = [run EXCEPT ![a] = r] /\ runs' = runs
    BY <1>1, <1>3 DEF FinishEnds, Types
  <2>2. r \in RunSet /\ r.at = "saves" /\ r.state \in Ended
    BY <1>1 DEF RunSet, RunAts, Working
  <2> HIDE DEF r
  <2>3. run' \in [Answers -> RunSet] /\ run'[a] = r /\ \A b \in Answers \ {a} : run'[b] = run[b]
    BY <1>1, <2>1, <2>2, RunIs
  <2>4. QED
    BY <1>1, <1>2, <2>1, <2>2, <2>3, RunKeeps
<1>4. CASE run[a].parts = run[a].saved
  <2>1. Left(a, FALSE)
    BY <1>4 DEF FinishEnds
  <2>2. /\ run' \in [Answers -> RunSet] /\ \A b \in Answers \ {a} : run'[b] = run[b]
        /\ run'[a].at = "ended" /\ runs' = None
    BY <1>1, <2>1, LeftIs
  <2>3. "ended" \notin Working /\ (a \in Shown => kept'[a].state \in Ended)
    BY <1>1 DEF Working
  <2>4. QED
    BY <1>1, <1>2, <2>2, <2>3, RunKeeps
<1>5. QED
  BY <1>3, <1>4

LEMMA KilledInTurnKeeps == ASSUME CInv, NEW a \in Answers, KilledInTurn(a) PROVE CInv'
<1> DEFINE r == [run[a] EXCEPT !.at = "cancels", !.state = "cancelled", !.kill = FALSE]
<1>1. /\ Types /\ Works(a) /\ run[a] \in RunSet
      /\ UNCHANGED <<exists, thread, to, kept, asked, future, runs, reserved, users, closer, bounds>>
  BY DEF CInv, KilledInTurn, Works, Types, store, question
<1>2. run' = [run EXCEPT ![a] = r]
  BY <1>1 DEF KilledInTurn, Types
<1>3. r \in RunSet /\ r.at = "cancels" /\ r.state \in Ended
  BY <1>1, Constants DEF RunSet, RunAts, Working, Ended
<1> HIDE DEF r
<1>4. run' \in [Answers -> RunSet] /\ run'[a] = r /\ \A b \in Answers \ {a} : run'[b] = run[b]
  BY <1>1, <1>2, <1>3, RunIs
<1>5. kept' \in [Answers -> Rows] /\ asked' \in [Answers -> Statuses] /\ future' \in [Answers -> Futures] /\ Moved
  BY <1>1 DEF Types, Moved
<1>6. QED
  BY <1>1, <1>3, <1>4, <1>5, RunKeeps

LEMMA KilledInFinishKeeps == ASSUME CInv, NEW a \in Answers, KilledInFinish(a) PROVE CInv'
<1> DEFINE r == [run[a] EXCEPT !.at = "ended"]
<1>1. /\ Types /\ Works(a) /\ run[a] \in RunSet
      /\ UNCHANGED <<exists, thread, to, kept, future, runs, reserved, users, closer, bounds>>
  BY DEF CInv, KilledInFinish, Works, Types, store
<1>2. asked' \in [Answers -> Statuses] /\ Moved
  <2>1. asked' = asked \/ asked' = RowBecomes(a, "cancelled")
    BY DEF KilledInFinish
  <2>2. "cancelled" \in Statuses \ {"none", "pending"}
    BY DEF Statuses
  <2>3. asked' = asked => asked' \in [Answers -> Statuses] /\ Moved
    BY <1>1 DEF Types, Moved
  <2>4. QED
    BY <1>1, <2>1, <2>2, <2>3, RowMoves
<1>3. run' = [run EXCEPT ![a] = r]
  BY <1>1 DEF KilledInFinish, Types
<1>4. r \in RunSet /\ r.at = "ended" /\ "ended" \notin Working
  BY <1>1 DEF RunSet, RunAts, Working
<1> HIDE DEF r
<1>5. run' \in [Answers -> RunSet] /\ run'[a] = r /\ \A b \in Answers \ {a} : run'[b] = run[b]
  BY <1>1, <1>3, <1>4, RunIs
<1>6. kept' \in [Answers -> Rows] /\ future' \in [Answers -> Futures]
  BY <1>1 DEF Types
<1>7. QED
  BY <1>1, <1>2, <1>4, <1>5, <1>6, RunKeeps

\* The save is left, and nothing is written.
LEMMA CutKeeps == ASSUME CInv, NEW a \in Answers, SaveFails(a) \/ KilledInReads(a) PROVE CInv'
<1>1. /\ Types /\ Works(a) /\ runs = a /\ Left(a, TRUE)
      /\ UNCHANGED <<exists, thread, to, kept, asked, future, reserved, users, closer, bounds>>
  BY DEF CInv, ReserveFits, SaveFails, KilledInReads, Works, store, question
<1>2. /\ run' \in [Answers -> RunSet] /\ \A b \in Answers \ {a} : run'[b] = run[b]
      /\ run'[a].at = "ended" /\ GivenUp(a)' /\ runs' = None
  BY <1>1, LeftIs DEF GivenUp
<1>3. kept' \in [Answers -> Rows] /\ asked' \in [Answers -> Statuses] /\ future' \in [Answers -> Futures]
  BY <1>1 DEF Types
<1>4. Moved /\ "ended" \notin Working
  BY <1>1 DEF Moved, Working
<1>5. QED
  BY <1>1, <1>2, <1>3, <1>4, RunKeeps

LEMMA KilledInSaveKeeps == ASSUME CInv, NEW a \in Answers, KilledInSave(a) PROVE CInv'
<1> DEFINE row == [state |-> run[a].state, parts |-> run[a].saved]
<1>1. /\ Types /\ Works(a) /\ run[a] \in RunSet /\ run[a].state \in Ended /\ runs = a
      /\ run[a].at \in {"saves", "saved"} /\ Left(a, TRUE)
      /\ run[a].at = "saved" /\ a \in Shown => kept[a].state \in Ended
      /\ UNCHANGED <<exists, thread, to, asked, future, reserved, users, closer, bounds>>
  BY DEF CInv, StreamFits, ReserveFits, Working, KilledInSave, Works, Types, question
<1>2. kept' = IF run[a].at = "saves" THEN Stored(a, row) ELSE kept
  BY DEF KilledInSave
<1>3. row \in Rows /\ row.state \in Ended
  BY <1>1 DEF Rows, RunSet
<1> HIDE DEF row
<1>4. /\ kept' \in [Answers -> Rows] /\ \A b \in Answers \ {a} : kept'[b] = kept[b]
      /\ a \in Shown => kept'[a].state \in Ended
  <2>1. CASE run[a].at = "saves"
    BY <1>1, <1>2, <1>3, <2>1, StoredIs
  <2>2. CASE run[a].at = "saved"
    BY <1>1, <1>2, <2>2 DEF Types
  <2>3. QED
    BY <1>1, <2>1, <2>2
<1>5. /\ run' \in [Answers -> RunSet] /\ \A b \in Answers \ {a} : run'[b] = run[b]
      /\ run'[a].at = "ended" /\ runs' = None
  BY <1>1, LeftIs
<1>6. asked' \in [Answers -> Statuses] /\ future' \in [Answers -> Futures] /\ Moved /\ "ended" \notin Working
  BY <1>1 DEF Types, Moved, Working
<1>7. QED
  BY <1>1, <1>4, <1>5, <1>6, RunKeeps

LEMMA CheckpointKeeps == ASSUME CInv, NEW a \in Answers, Checkpoint(a) PROVE CInv'
<1> DEFINE row == [state |-> "streaming", parts |-> run[a].parts]
<1>1. /\ Types /\ Works(a) /\ run[a] \in RunSet /\ run[a].at = "turn" /\ kept' = Stored(a, row)
      /\ UNCHANGED <<exists, thread, to, asked, future, runs, reserved, run, users, closer, bounds>>
  BY DEF CInv, Checkpoint, Works, Types, question, answering
<1>2. row \in Rows
  BY <1>1, Constants DEF Rows, RunSet
<1> HIDE DEF row
<1>3. kept' \in [Answers -> Rows] /\ \A b \in Answers \ {a} : kept'[b] = kept[b]
  BY <1>1, <1>2, StoredIs
<1>4. /\ run' \in [Answers -> RunSet] /\ \A b \in Answers : run'[b] = run[b]
      /\ asked' \in [Answers -> Statuses] /\ future' \in [Answers -> Futures] /\ Moved /\ "turn" \notin Working
  BY <1>1 DEF Types, Moved, Working
<1>5. QED
  BY <1>1, <1>3, <1>4, RunKeeps

-----------------------------------------------------------------------------
(* The agent's questions *)

LEMMA AgentKeeps ==
  ASSUME CInv, asked' \in [Answers -> Statuses], future' \in [Answers -> Futures], Moved,
         UNCHANGED <<store, answering, users, closer, bounds>>,
         exists => \A b \in Answers : \/ future'[b] = future[b]
                                      \/ future'[b] \in {"leaked", "gone", "waits"}
                                      \/ future[b] = "none" /\ future'[b] = "adding"
  PROVE  CInv'
<1>1. UNCHANGED <<exists, thread, to, kept, runs, reserved, run, req, acked, unheard, closer, begun, restarts>>
  BY DEF store, answering, users, bounds
<1>2. exists' \in BOOLEAN /\ reserved' \in BOOLEAN /\ (exists' => exists)
  BY <1>1, Zenon DEF CInv, Types
<1>3. Types'
  BY <1>1, <1>2 DEF CInv, Types
<1>4. KindFits'
  BY <1>1 DEF CInv, KindFits
<1>5. ReserveFits'
  <2>1. \A d \in Requests : req'[d].at \in {"asking", "inserted"} <=> Starting(d)
    BY <1>1 DEF Starting
  <2>2. \A b \in Answers : run'[b].at \notin {"none", "ended"} => Works(b) /\ runs' = runs
    BY <1>1 DEF Works
  <2>3. QED
    BY <1>1, <2>1, <2>2, ReserveKept DEF CInv
<1>6. StreamFits'
  <2>1. Shown' = Shown /\ Shown \subseteq Answers
    BY <1>1 DEF Shown, CInv, Types
  <2>2. \A d \in Requests : req'[d] = req[d]
    BY <1>1
  <2>3. \A b \in Answers : run'[b] = run[b] /\ kept'[b] = kept[b]
    BY <1>1
  <2>4. StreamFits /\ UNCHANGED <<to, runs>>
    BY <1>1 DEF CInv
  <2>5. QED
    BY <2>1, <2>2, <2>3, <2>4, StreamKept DEF GivenUp
<1>7. HearFits'
  <2>1. \A d \in Requests, b \in Answers, reply \in Replies : Tells(d, b, reply)' => Tells(d, b, reply)
    BY <1>1 DEF Tells
  <2>2. \A b \in Answers : run'[b] = run[b]
    BY <1>1
  <2>3. HearFits /\ closer' = closer
    BY <1>1 DEF CInv
  <2>4. QED
    BY <1>2, <2>1, <2>2, <2>3, HearKept
<1>8. QED
  BY <1>3, <1>4, <1>5, <1>6, <1>7 DEF CInv

LEMMA AskKeeps == ASSUME CInv, NEW a \in Answers, Ask(a) PROVE CInv'
<1>1. /\ Types /\ future[a] = "none" /\ future' = [future EXCEPT ![a] = "adding"] /\ asked' = asked
      /\ UNCHANGED <<store, answering, users, closer, bounds>>
  BY DEF CInv, Ask
<1>2. /\ future' \in [Answers -> Futures] /\ asked' \in [Answers -> Statuses] /\ Moved
      /\ \A b \in Answers : future'[b] = future[b] \/ (future[b] = "none" /\ future'[b] = "adding")
  BY <1>1 DEF Types, Futures, Moved
<1>3. QED
  BY <1>1, <1>2, AgentKeeps

LEMMA AskAddedKeeps == ASSUME CInv, NEW a \in Answers, AskAdded(a) PROVE CInv'
<1>1. /\ Types /\ future[a] = "adding"
      /\ UNCHANGED <<store, answering, users, closer, bounds>>
  BY DEF CInv, AskAdded
<1>2. \/ /\ exists /\ asked' = [asked EXCEPT ![a] = "pending"]
         /\ future' = [future EXCEPT ![a] = "waits"]
      \/ future' = [future EXCEPT ![a] = "leaked"] /\ asked' = asked
  BY DEF AskAdded
<1>3. ASSUME exists, asked' = [asked EXCEPT ![a] = "pending"], future' = [future EXCEPT ![a] = "waits"]
      PROVE  CInv'
  <2>0. asked[a] = "none"
    BY <1>1, <1>3 DEF CInv, HearFits
  <2>1. /\ future' \in [Answers -> Futures] /\ asked' \in [Answers -> Statuses]
        /\ \A b \in Answers : future'[b] = future[b] \/ future'[b] = "waits"
    BY <1>1, <1>3 DEF Types, Futures, Statuses
  <2>2. \A b \in Answers : asked'[b] = asked[b] \/ (b = a /\ asked[b] = "none" /\ future'[b] = "waits")
    BY <1>1, <1>3, <2>0 DEF Types
  <2>3. Moved
    BY <2>2 DEF Moved
  <2>4. QED
    BY <1>1, <2>1, <2>3, AgentKeeps
<1>4. CASE future' = [future EXCEPT ![a] = "leaked"] /\ asked' = asked
  <2>1. /\ future' \in [Answers -> Futures] /\ asked' \in [Answers -> Statuses]
        /\ \A b \in Answers : future'[b] = future[b] \/ future'[b] = "leaked"
    BY <1>1, <1>4 DEF Types, Futures
  <2>2. Moved
    BY <1>4 DEF Moved
  <2>3. QED
    BY <1>1, <2>1, <2>2, AgentKeeps
<1>5. QED
  BY <1>2, <1>3, <1>4

LEMMA AskDroppedKeeps == ASSUME CInv, NEW a \in Answers, AskDropped(a) PROVE CInv'
<1>1. Types /\ UNCHANGED <<store, answering, users, closer, bounds>>
  BY DEF CInv, AskDropped
<1>2. CASE future[a] = "adding"
  <2>1. exists => asked[a] = "none"
    BY <1>2 DEF CInv, HearFits
  <2>2. /\ future' = [future EXCEPT ![a] = "leaked"]
        /\ asked' = asked \/ (exists /\ asked' = [asked EXCEPT ![a] = "pending"])
    BY <1>2 DEF AskDropped
  <2>3. /\ future' \in [Answers -> Futures] /\ asked' \in [Answers -> Statuses]
        /\ \A b \in Answers : future'[b] = future[b] \/ future'[b] = "leaked"
    BY <1>1, <2>2 DEF Types, Futures, Statuses
  <2>4. Moved
    BY <1>1, <2>1, <2>2 DEF Types, Moved
  <2>5. QED
    BY <1>1, <2>3, <2>4, AgentKeeps
<1>3. CASE future[a] # "adding"
  <2>1. asked' = RowBecomes(a, "cancelled") /\ future' = [future EXCEPT ![a] = "gone"]
    BY <1>3 DEF AskDropped
  <2>2. "cancelled" \in Statuses \ {"none", "pending"}
    BY DEF Statuses
  <2>3. asked' \in [Answers -> Statuses] /\ Moved
    BY <1>1, <2>1, <2>2, RowMoves
  <2>4. /\ future' \in [Answers -> Futures]
        /\ \A b \in Answers : future'[b] = future[b] \/ future'[b] = "gone"
    BY <1>1, <2>1 DEF Types, Futures
  <2>5. QED
    BY <1>1, <2>3, <2>4, AgentKeeps
<1>4. QED
  BY <1>2, <1>3

-----------------------------------------------------------------------------
(* Close and the next start *)

LEMMA CloserKeeps ==
  ASSUME CInv, closer' \in Closers, Marked, kept' \in [Answers -> Rows],
         \A a \in Shown : kept'[a].state = kept[a].state \/ kept'[a].state \in Ended,
         asked' \in [Answers -> Statuses], future' \in [Answers -> Futures], Moved, begun' \in Nat,
         UNCHANGED <<exists, thread, to, runs, reserved, users, restarts>>,
         exists => \A b \in Answers : \/ future'[b] = future[b]
                                      \/ \E reply \in Replies : future'[b] = reply /\ Says(b, reply)',
         exists => \A b \in Answers : closer'.at = "tells" /\ closer'.on = b => Says(b, "stopped")'
  PROVE  CInv'
<1>1. UNCHANGED <<exists, thread, to, runs, reserved, req, acked, unheard, restarts>>
  BY DEF users
<1>2. exists' \in BOOLEAN /\ reserved' \in BOOLEAN /\ (exists' => exists)
  <2>1. exists' = exists /\ reserved' = reserved
    BY <1>1
  <2>2. exists \in BOOLEAN /\ reserved \in BOOLEAN
    BY DEF CInv, Types
  <2>3. QED
    BY <2>1, <2>2, BooleansStay
<1>3. Types'
  BY <1>1, <1>2 DEF CInv, Types, Marked
<1>4. KindFits'
  BY <1>1 DEF CInv, KindFits
<1>5. ReserveFits'
  <2>1. \A d \in Requests : req'[d].at \in {"asking", "inserted"} <=> Starting(d)
    BY <1>1 DEF Starting
  <2>2. \A b \in Answers : run'[b].at \notin {"none", "ended"} => Works(b) /\ runs' = runs
    BY <1>1 DEF Works, Marked
  <2>3. QED
    BY <1>1, <2>1, <2>2, ReserveKept DEF CInv
<1>6. StreamFits'
  <2>1. Shown' = Shown /\ Shown \subseteq Answers
    BY <1>1 DEF Shown, CInv, Types
  <2>2. \A d \in Requests : req'[d] = req[d]
    BY <1>1
  <2>3. \A a \in Answers : /\ run'[a].at = run[a].at /\ run'[a].state = run[a].state
                           /\ GivenUp(a) => GivenUp(a)'
    BY DEF Marked
  <2>4. StreamFits /\ UNCHANGED <<to, runs>>
    BY <1>1 DEF CInv
  <2>5. QED
    BY <2>1, <2>2, <2>3, <2>4, StreamKept
<1>7. HearFits'
  <2>1. \A d \in Requests, b \in Answers, reply \in Replies : Tells(d, b, reply)' => Tells(d, b, reply)
    BY <1>1 DEF Tells
  <2>2. \A b \in Answers : run'[b].at = "tells" => run[b].at = "tells"
    BY DEF Marked
  <2>3. HearFits
    BY DEF CInv
  <2>4. QED
    BY <1>2, <2>1, <2>2, <2>3, HearKept
<1>8. QED
  BY <1>3, <1>4, <1>5, <1>6, <1>7 DEF CInv

LEMMA CloserGoIs ==
  ASSUME Types, NEW place, place \in {"open", "cancels", "tells", "waits", "saves", "killed", "over"},
         CloserGo(place)
  PROVE  closer' \in Closers /\ closer'.at = place /\ closer'.on = closer.on
  BY DEF Types, CloserGo, Closers

LEMMA CloseKeeps == ASSUME CInv, Close PROVE CInv'
<1>0. Types /\ begun' \in Nat
  <2>1. Types /\ begun' = begun + 1
    BY DEF CInv, Close
  <2>2. QED
    BY <2>1 DEF Types
<1>1. /\ Types /\ begun' \in Nat
      /\ UNCHANGED <<exists, thread, to, kept, asked, future, runs, reserved, users, restarts>>
  BY <1>0 DEF Close, store, question
<1>2. closer' \in Closers /\ closer'.at \in {"over", "cancels"}
  <2> DEFINE place == IF runs = None THEN "over" ELSE "cancels"
  <2>1. closer' = [CloserOpen EXCEPT !.at = place, !.on = runs] /\ runs \in Ids
    BY <1>1 DEF Close, Types
  <2>2. QED
    BY <2>1, Constants DEF Closers, CloserOpen
<1>3. Marked
  <2> DEFINE closed(a) == [run[a] EXCEPT !.closing = TRUE, !.stopping = TRUE]
  <2>1. run' = [a \in Answers |-> IF a = runs THEN closed(a) ELSE run[a]]
    BY DEF Close
  <2>2. \A a \in Answers : run[a] \in RunSet
    BY <1>1 DEF Types
  <2>3. ASSUME NEW a \in Answers
        PROVE  /\ closed(a) \in RunSet /\ closed(a).at = run[a].at /\ closed(a).state = run[a].state
               /\ closed(a).deleted = run[a].deleted /\ closed(a).cut = run[a].cut
    BY <2>2 DEF RunSet
  <2> HIDE DEF closed
  <2>4. \A a \in Answers : run'[a] = IF a = runs THEN closed(a) ELSE run[a]
    BY <2>1
  <2>5. run' \in [Answers -> RunSet]
    BY <2>1, <2>2, <2>3
  <2>6. QED
    BY <2>3, <2>4, <2>5 DEF Marked, GivenUp
<1>4. kept' \in [Answers -> Rows] /\ asked' \in [Answers -> Statuses] /\ future' \in [Answers -> Futures] /\ Moved
  BY <1>1 DEF Types, Moved
<1>5. QED
  BY <1>1, <1>2, <1>3, <1>4, CloserKeeps

LEMMA CloseCancelsKeeps == ASSUME CInv, CloseCancels PROVE CInv'
<1> DEFINE place == IF asked[closer.on] = "pending" THEN "tells" ELSE "waits"
<1>1. /\ Types /\ begun' \in Nat /\ asked' = RowBecomes(closer.on, "cancelled") /\ CloserGo(place)
      /\ UNCHANGED <<exists, thread, to, kept, future, runs, reserved, run, users, restarts>>
  BY DEF CInv, Types, CloseCancels, store, answering, bounds
<1>2. /\ asked' \in [Answers -> Statuses] /\ Moved
      /\ closer.on \in Answers /\ asked[closer.on] = "pending" => asked'[closer.on] = "cancelled"
  <2>1. "cancelled" \in Statuses \ {"none", "pending"}
    BY DEF Statuses
  <2>2. QED
    BY <1>1, <2>1, RowMoves
<1>3. closer' \in Closers /\ closer'.at = place /\ closer'.on = closer.on
  BY <1>1, CloserGoIs
<1>4. \A b \in Answers : closer'.at = "tells" /\ closer'.on = b => Says(b, "stopped")'
  BY <1>2, <1>3 DEF Says
<1>5. Marked /\ kept' \in [Answers -> Rows] /\ future' \in [Answers -> Futures]
  BY <1>1, Unmarked DEF Types
<1>6. \A a \in Shown : kept'[a].state = kept[a].state
  BY <1>1
<1>7. \A b \in Answers : future'[b] = future[b]
  BY <1>1
<1> HIDE DEF place
<1>8. QED
  BY <1>1, <1>2, <1>3, <1>4, <1>5, <1>6, <1>7, CloserKeeps

LEMMA CloseTellsKeeps == ASSUME CInv, CloseTells PROVE CInv'
<1>1. /\ Types /\ begun' \in Nat /\ closer.at = "tells" /\ CloserGo("waits") /\ "stopped" \in Replies
      /\ future' = Resolve(closer.on, "stopped")
      /\ UNCHANGED <<exists, thread, to, kept, asked, runs, reserved, run, users, restarts>>
  BY DEF CInv, Types, CloseTells, store, answering, bounds, Replies
<1>2. Moved
  BY <1>1 DEF Moved
<1>3. /\ future' \in [Answers -> Futures]
      /\ \A b \in Answers : future'[b] = future[b] \/ (b = closer.on /\ future'[b] = "stopped")
  BY <1>1, Replied
<1>4. exists => \A b \in Answers : \/ future'[b] = future[b]
                                   \/ \E reply \in Replies : future'[b] = reply /\ Says(b, reply)'
  <2>1. ASSUME exists, NEW b \in Answers, future'[b] # future[b]
        PROVE  \E reply \in Replies : future'[b] = reply /\ Says(b, reply)'
    <3>1. b = closer.on /\ future'[b] = "stopped"
      BY <1>3, <2>1
    <3>2. Says(b, "stopped")
      BY <1>1, <2>1, <3>1 DEF CInv, HearFits
    <3>3. Says(b, "stopped")'
      BY <1>1, <1>2, <3>2, SaysStays
    <3>4. QED
      BY <1>1, <3>1, <3>3
  <2>2. QED
    BY <2>1
<1>5. closer' \in Closers /\ closer'.at = "waits"
  BY <1>1, CloserGoIs
<1>6. Marked /\ kept' \in [Answers -> Rows] /\ asked' \in [Answers -> Statuses]
  BY <1>1, Unmarked DEF Types
<1>7. \A a \in Shown : kept'[a].state = kept[a].state
  BY <1>1
<1>8. QED
  BY <1>1, <1>2, <1>3, <1>4, <1>5, <1>6, <1>7, CloserKeeps

LEMMA CloseEndsKeeps == ASSUME CInv, CloseEnds PROVE CInv'
<1>1. /\ Types /\ begun' \in Nat /\ CloserGo("over")
      /\ UNCHANGED <<exists, thread, to, kept, asked, future, runs, reserved, run, users, restarts>>
  BY DEF CInv, Types, CloseEnds, store, question, answering, bounds
<1>2. closer' \in Closers /\ closer'.at = "over"
  BY <1>1, CloserGoIs
<1>3. /\ Marked /\ kept' \in [Answers -> Rows] /\ asked' \in [Answers -> Statuses]
      /\ future' \in [Answers -> Futures] /\ Moved
  BY <1>1, Unmarked DEF Types, Moved
<1>4. QED
  BY <1>1, <1>2, <1>3, CloserKeeps

\* A close that goes on has the run it stops.
ClosesRun == closer.at \notin {"open", "over"} => closer.on \in Answers

LEMMA CloseTimesOutKeeps == ASSUME CInv, ClosesRun, CloseTimesOut PROVE CInv'
<1>1. /\ Types /\ begun' \in Nat /\ closer.at = "waits"
      /\ UNCHANGED <<exists, thread, to, kept, asked, future, runs, reserved, run, users, restarts>>
  BY DEF CInv, Types, CloseTimesOut, store, question, answering, bounds
<1>2. closer' \in [at : {"saves"}, on : Ids, seen : {run[closer.on].parts}] /\ closer'.at = "saves"
  BY <1>1 DEF CloseTimesOut, Types, Closers
<1>3. closer.on \in Answers
  BY <1>1 DEF ClosesRun
<1>4. run[closer.on].parts \in SUBSET Requests
  BY <1>1, <1>3 DEF Types, RunSet
<1>5. closer' \in Closers
  BY <1>2, <1>4 DEF Closers
<1>6. /\ Marked /\ kept' \in [Answers -> Rows] /\ asked' \in [Answers -> Statuses]
      /\ future' \in [Answers -> Futures] /\ Moved
  BY <1>1, Unmarked DEF Types, Moved
<1>7. QED
  BY <1>1, <1>2, <1>5, <1>6, CloserKeeps
LEMMA CloseSavesKeeps == ASSUME CInv, ClosesRun, CloseSaves PROVE CInv'
<1> DEFINE row == [state |-> "interrupted", parts |-> closer.seen]
           a == closer.on
<1>1. /\ Types /\ begun' \in Nat /\ closer.at = "saves" /\ kept' = Stored(a, row)
      /\ run' = [run EXCEPT ![a].kill = @ \/ run[a].at # "ended"]
      /\ closer' = [closer EXCEPT !.at = "killed", !.seen = {}]
      /\ UNCHANGED <<exists, thread, to, asked, future, runs, reserved, users, restarts>>
  BY DEF CInv, Types, CloseSaves, question, bounds
<1>2. a \in Answers /\ row \in Rows /\ row.state \in Ended
  BY <1>1, Constants DEF ClosesRun, Rows, Types, Closers, Ended
<1> HIDE DEF row, a
<1>3. /\ kept' \in [Answers -> Rows] /\ \A b \in Answers \ {a} : kept'[b] = kept[b]
      /\ a \in Shown => kept'[a] = row
  BY <1>1, <1>2, StoredIs
<1>4. Shown \subseteq Answers
  BY <1>1 DEF Shown, Types
<1>5. \A b \in Shown : kept'[b].state = kept[b].state \/ kept'[b].state \in Ended
  BY <1>2, <1>3, <1>4
<1>6. Marked
  <2> DEFINE kill == run[a].kill \/ run[a].at # "ended"
  <2>1. kill \in BOOLEAN /\ run[a] \in RunSet /\ run' = [run EXCEPT ![a] = [run[a] EXCEPT !.kill = kill]]
    BY <1>1, <1>2 DEF Types
  <2> HIDE DEF kill
  <2> DEFINE r == [run[a] EXCEPT !.kill = kill]
  <2>2. /\ r \in RunSet /\ r.at = run[a].at /\ r.state = run[a].state
        /\ r.deleted = run[a].deleted /\ r.cut = run[a].cut
    BY <2>1 DEF RunSet
  <2> HIDE DEF r
  <2>3. run' \in [Answers -> RunSet] /\ run'[a] = r /\ \A b \in Answers \ {a} : run'[b] = run[b]
    BY <1>1, <1>2, <2>1, <2>2, RunIs DEF r
  <2>4. QED
    BY <2>2, <2>3 DEF Marked, GivenUp
<1>7. closer' \in Closers /\ closer'.at = "killed"
  BY <1>1 DEF Types, Closers
<1>8. asked' \in [Answers -> Statuses] /\ future' \in [Answers -> Futures] /\ Moved
  BY <1>1 DEF Types, Moved
<1>9. QED
  BY <1>1, <1>3, <1>5, <1>6, <1>7, <1>8, CloserKeeps

\* After a restart nothing is under way, and nothing that is stored is still streaming.
LEMMA RestartKeeps == ASSUME CInv, Restart PROVE CInv'
<1>1. /\ Types /\ UNCHANGED <<exists, thread, to, begun>> /\ runs' = None /\ reserved' = FALSE
      /\ restarts' = restarts + 1 /\ unheard' = {} /\ closer' = CloserOpen /\ kept' = Recovered
  BY DEF CInv, Restart
<1>2. Shown' = Shown /\ Shown \subseteq Answers
  BY <1>1 DEF Shown, Types
<1>3. /\ run' = [a \in Answers |-> IF to[a] = None THEN NoRun ELSE [NoRun EXCEPT !.at = "ended"]]
      /\ req' = [c \in Requests |-> NoRequest]
      /\ acked' = [a \in Answers |-> kept[a].parts]
      /\ asked' = [a \in Answers |-> IF asked[a] = "pending" THEN "cancelled" ELSE asked[a]]
      /\ future' = [a \in Answers |-> IF asked[a] = "none" THEN "none" ELSE "gone"]
  BY DEF Restart
<1>4. /\ [NoRun EXCEPT !.at = "ended"] \in RunSet /\ [NoRun EXCEPT !.at = "ended"].at = "ended"
      /\ NoRun.at = "none" /\ NoRequest.at = "idle" /\ CloserOpen.at = "open"
  BY Constants DEF NoRun, RunSet, RunAts, NoRequest, CloserOpen
<1>5. /\ run' \in [Answers -> RunSet]
      /\ \A a \in Answers : run'[a].at = IF to[a] = None THEN "none" ELSE "ended"
  BY <1>3, <1>4, Constants
<1>6. req' \in [Requests -> ReqSet] /\ \A c \in Requests : req'[c].at = "idle"
  BY <1>3, <1>4, Constants
<1>7. /\ kept' \in [Answers -> Rows]
      /\ \A a \in Shown : kept'[a].state # "streaming"
  <2>1. \A a \in Answers : kept[a] \in Rows
    BY <1>1 DEF Types
  <2>2. \A a \in Answers : /\ [kept[a] EXCEPT !.state = "interrupted"] \in Rows
                           /\ [kept[a] EXCEPT !.state = "interrupted"].state = "interrupted"
    BY <2>1 DEF Rows, States, Ended
  <2>3. kept' = [a \in Answers |-> IF a \in Shown /\ kept[a].state = "streaming"
                                   THEN [kept[a] EXCEPT !.state = "interrupted"] ELSE kept[a]]
    BY <1>1 DEF Recovered
  <2>4. kept' \in [Answers -> Rows]
    BY <2>1, <2>2, <2>3
  <2>5. ASSUME NEW a \in Shown PROVE kept'[a].state # "streaming"
    <3>1. a \in Answers
      BY <1>2
    <3>2. kept'[a] = IF kept[a].state = "streaming" THEN [kept[a] EXCEPT !.state = "interrupted"] ELSE kept[a]
      BY <2>3, <3>1
    <3>3. CASE kept[a].state = "streaming"
      BY <2>2, <3>1, <3>2, <3>3
    <3>4. CASE kept[a].state # "streaming"
      BY <3>2, <3>4
    <3>5. QED
      BY <3>3, <3>4
  <2>6. QED
    BY <2>4, <2>5
<1>8. Types'
  <2>1. exists' \in BOOLEAN /\ reserved' \in BOOLEAN
    <3>1. exists' = exists /\ exists \in BOOLEAN
      BY <1>1 DEF Types
    <3>2. QED
      BY <1>1, <3>1
  <2>2. asked' \in [Answers -> Statuses] /\ future' \in [Answers -> Futures]
    BY <1>1, <1>3 DEF Types, Statuses, Futures
  <2>3. acked' \in [Answers -> SUBSET Requests]
    BY <1>1, <1>3 DEF Types, Rows
  <2>4. runs' \in Ids /\ closer' \in Closers /\ restarts' \in Nat /\ begun' \in Nat
    BY <1>1, NoneIsNone, Constants DEF Types
  <2>5. thread' \in Seq(Answers) /\ to' \in [Answers -> Ids] /\ unheard' \subseteq Requests
    BY <1>1 DEF Types
  <2>6. QED
    BY <1>5, <1>6, <1>7, <2>1, <2>2, <2>3, <2>4, <2>5 DEF Types
<1>9. KindFits'
  BY <1>6 DEF KindFits
<1>10. ReserveFits'
  <2>1. \A c \in Requests : ~Starting(c)'
    BY <1>6 DEF Starting
  <2>2. \A a \in Answers : ~Works(a)'
    BY <1>5 DEF Works
  <2>3. QED
    BY <1>1, <2>1, <2>2 DEF ReserveFits
<1>11. StreamFits'
  <2>1. /\ \A a \in Answers : run'[a].at \notin Working
        /\ \A a \in Shown' : run'[a].at # "saved"
        /\ \A a \in Answers : to'[a] = None => run'[a].at = "none"
        /\ \A a \in Shown' : to'[a] # None
    BY <1>1, <1>2, <1>5 DEF Working, CInv, StreamFits
  <2>2. StreamingIsAnswering'
    BY <1>2, <1>7 DEF StreamingIsAnswering
  <2>3. QED
    BY <1>6, <2>1, <2>2 DEF StreamFits
<1>12. HearFits'
  <2>1. \A a \in Answers : /\ future'[a] \notin Replies
                           /\ future'[a] \in {"none", "adding"} => asked'[a] = "none"
                           /\ run'[a].at # "tells"
    BY <1>3, <1>5 DEF Replies
  <2>2. \A c \in Requests, a \in Answers, reply \in Replies : ~Tells(c, a, reply)'
    BY <1>6 DEF Tells
  <2>3. closer'.at = "open"
    BY <1>1, <1>4
  <2>4. QED
    BY <2>1, <2>2, <2>3 DEF HearFits
<1>13. QED
  BY <1>8, <1>9, <1>10, <1>11, <1>12 DEF CInv

-----------------------------------------------------------------------------
(* The theorems *)

LEMMA StutterKeeps == ASSUME CInv, UNCHANGED vars PROVE CInv'
<1>1. UNCHANGED <<store, answering, users, closer, bounds>> /\ UNCHANGED <<asked, future>>
  BY DEF vars, question
<1>2. asked' \in [Answers -> Statuses] /\ future' \in [Answers -> Futures] /\ Moved
  BY <1>1 DEF CInv, Types, Moved
<1>3. QED
  BY <1>1, <1>2, AgentKeeps

LEMMA RequestKeeps ==
  ASSUME CInv, NEW c \in Requests,
         \/ Send(c) \/ Stop(c) \/ Delete(c)
         \/ Sending(c) \/ Answering(c) \/ Stopping(c) \/ PartChanged(c)
         \/ \E a \in Answers :
              \/ Pick(c, a) \/ ChangePart(c, a)
              \/ \E kind \in {"regenerate", "resume", "edit"} : AskAgain(c, kind, a)
  PROVE  CInv'
<1>1. CASE Send(c) \/ Stop(c) \/ Delete(c)
  BY <1>1, SendKeeps, StopKeeps, DeleteKeeps
<1>2. CASE Sending(c)
  BY <1>2, LookedKeeps, InsertKeeps, RefusedKeeps, StartKeeps, LateAnsweredKeeps DEF Sending
<1>3. CASE Answering(c)
  BY <1>3, WordsKeeps, SupersedeReadsKeeps, SupersedeKeeps, SupersedeToldKeeps, PickedKeeps, PickToldKeeps,
     PickFailsKeeps DEF Answering
<1>4. CASE Stopping(c)
  BY <1>4, StopCancelsKeeps, StopTellsKeeps, StopEndsKeeps, StopTimesOutKeeps, RemoveKeeps DEF Stopping
<1>5. CASE PartChanged(c)
  BY <1>5, PartChangedKeeps
<1>6. CASE \E a \in Answers :
             \/ Pick(c, a) \/ ChangePart(c, a)
             \/ \E kind \in {"regenerate", "resume", "edit"} : AskAgain(c, kind, a)
  BY <1>6, PickKeeps, ChangePartKeeps, AskAgainKeeps
<1>7. QED
  BY <1>1, <1>2, <1>3, <1>4, <1>5, <1>6

LEMMA AnswerKeeps ==
  ASSUME CInv, NEW a \in Answers, TurnEnds(a) \/ Finishing(a) \/ AgentAsks(a) \/ Checkpoint(a)
  PROVE  CInv'
<1>1. CASE TurnEnds(a) \/ Checkpoint(a)
  BY <1>1, TurnEndsKeeps, CheckpointKeeps
<1>2. CASE Finishing(a)
  BY <1>2, FinishCancelsKeeps, FinishTellsKeeps, FinishLogsKeeps, FinishReadsKeeps, FinishSavesKeeps,
     FinishEndsKeeps, KilledInTurnKeeps, KilledInFinishKeeps, KilledInSaveKeeps, CutKeeps DEF Finishing
<1>3. CASE AgentAsks(a)
  BY <1>3, AskKeeps, AskAddedKeeps, AskDroppedKeeps DEF AgentAsks
<1>4. QED
  BY <1>1, <1>2, <1>3

\* What closing writes into its own variable, and that nobody else writes it.
LEMMA ClosesRunStep ==
  ASSUME CInv, ClosesRun, [Next]_vars
  PROVE  ClosesRun'
<1>1. CASE closer' = closer
  BY <1>1 DEF ClosesRun
<1>2. CASE Close
  <2> DEFINE place == IF runs = None THEN "over" ELSE "cancels"
  <2>1. closer' = [CloserOpen EXCEPT !.at = place, !.on = runs] /\ runs \in Ids
    BY <1>2 DEF Close, CInv, Types
  <2>2. closer'.at = place /\ closer'.on = runs
    BY <2>1 DEF CloserOpen
  <2>3. QED
    BY <2>1, <2>2 DEF ClosesRun, Ids
<1>3. CASE CloseCancels \/ CloseTells \/ CloseTimesOut \/ CloseSaves
  BY <1>3 DEF CInv, Types, Closers, ClosesRun, CloseCancels, CloseTells, CloseTimesOut, CloseSaves, CloserGo
<1>4. CASE CloseEnds
  BY <1>4 DEF CInv, Types, Closers, ClosesRun, CloseEnds, CloserGo
<1>5. CASE Restart
  BY <1>5 DEF Restart, CloserOpen, ClosesRun
<1>6. ASSUME NEW c \in Requests,
             \/ Send(c) \/ Stop(c) \/ Delete(c) \/ PartChanged(c)
             \/ Looked(c) \/ Insert(c) \/ Refused(c) \/ Start(c) \/ LateAnswered(c)
      PROVE  closer' = closer
  BY <1>6 DEF Send, Stop, Delete, PartChanged, Looked, Insert, Refused, Start, LateAnswered
<1>7. ASSUME NEW c \in Requests,
             \/ Words(c) \/ SupersedeReads(c) \/ Supersede(c) \/ SupersedeTold(c)
             \/ Picked(c) \/ PickTold(c) \/ PickFails(c)
             \/ StopCancels(c) \/ StopTells(c) \/ StopEnds(c) \/ StopTimesOut(c) \/ Remove(c)
      PROVE  closer' = closer
  BY <1>7 DEF Words, SupersedeReads, Supersede, SupersedeTold, Picked, PickTold, PickFails,
              StopCancels, StopTells, StopEnds, StopTimesOut, Remove
<1>8. ASSUME NEW c \in Requests, NEW a \in Answers,
             \/ Pick(c, a) \/ ChangePart(c, a)
             \/ \E kind \in {"regenerate", "resume", "edit"} : AskAgain(c, kind, a)
      PROVE  closer' = closer
  BY <1>8 DEF Pick, ChangePart, AskAgain
<1>9. ASSUME NEW a \in Answers, TurnEnds(a) \/ Finishing(a) \/ AgentAsks(a) \/ Checkpoint(a)
      PROVE  closer' = closer
  BY <1>9 DEF TurnEnds, Checkpoint, Finishing, FinishCancels, FinishTells, FinishLogs, FinishReads, FinishSaves,
              FinishEnds, SaveFails, KilledInTurn, KilledInFinish, KilledInReads, KilledInSave, AgentAsks, Ask, AskAdded, AskDropped
<1>10. CASE UNCHANGED vars
  BY <1>10, <1>1 DEF vars
<1>11. ASSUME NEW c \in Requests, Sending(c) \/ Answering(c) \/ Stopping(c) PROVE closer' = closer
  BY <1>6, <1>7, <1>11 DEF Sending, Answering, Stopping
<1>12. QED
  BY <1>1, <1>2, <1>3, <1>4, <1>5, <1>6, <1>8, <1>9, <1>10, <1>11 DEF Next, CloseGoesOn

LEMMA StepKeeps ==
  ASSUME CInv, ClosesRun, [Next]_vars
  PROVE  CInv' /\ ClosesRun'
<1>1. CInv'
  BY RequestKeeps, AnswerKeeps, CloseKeeps, CloseCancelsKeeps, CloseTellsKeeps, CloseEndsKeeps,
     CloseTimesOutKeeps, CloseSavesKeeps, RestartKeeps, StutterKeeps DEF Next, CloseGoesOn
<1>2. QED
  BY <1>1, ClosesRunStep

\* The inductive invariant of a chat: the reservation, what is stored, what the agent is told.
THEOREM ChatInvariant == Spec => [](CInv /\ ClosesRun)
<1>1. Init => CInv /\ ClosesRun
  BY InitCInv DEF Init, ClosesRun, CloserOpen
<1>2. CInv /\ ClosesRun /\ [Next]_vars => (CInv /\ ClosesRun)'
  BY StepKeeps
<1>3. QED
  BY <1>1, <1>2, PTL DEF Spec

\* The types of the service's state: what _runs, _reserved, the rows and the futures can be.
THEOREM ChatTypes == Spec => []Types
<1>1. CInv => Types
  BY DEF CInv
<1>2. QED
  BY <1>1, ChatInvariant, PTL

\* A stored answer that streams has a chat that answers: nothing is left to wait for in an idle
\* chat, whatever Stop, close, a checkpoint or a late change write, but an answer given up: one
\* whose chat is being deleted, or whose last save an error or a cancel cut off (_finish).
THEOREM NoneLeftStreaming == Spec => []StreamingIsAnswering
<1>1. CInv => StreamingIsAnswering
  BY DEF CInv, StreamFits
<1>2. QED
  BY <1>1, ChatInvariant, PTL

\* A chat has one answer at work or one request on its way to one (_reserve, _start).
THEOREM AnswersOneAtATime == Spec => []OneAnswerAtATime
<1>1. CInv => OneAnswerAtATime
  <2> SUFFICES ASSUME CInv PROVE OneAnswerAtATime
    OBVIOUS
  <2> DEFINE starters == {c \in Requests : req[c].at \in {"asking", "inserted"}}
  <2>1. \A a \in Alive : runs = a
    BY DEF Alive, CInv, ReserveFits, Works
  <2>2. reserved <=> \E c \in Requests : req[c].at \in {"asking", "inserted"}
    BY DEF CInv, ReserveFits, Starting
  <2>3. \A c, d \in starters : c = d
    BY DEF CInv, ReserveFits, Starting
  <2>4. starters # {} => Alive = {}
    BY NoneIsNone DEF CInv, ReserveFits, Starting, Alive, Works
  <2>5. Cardinality(Alive) + Cardinality(starters) <= 1
    <3>1. CASE starters = {}
      <4>1. Alive = {} \/ Alive = {runs}
        BY <2>1
      <4>2. Cardinality(starters) = 0
        BY <3>1, FS_EmptySet
      <4>3. Cardinality(Alive) \in 0 .. 1
        <5>1. Cardinality({}) = 0 /\ Cardinality({runs}) = 1
          BY FS_EmptySet, FS_Singleton
        <5>2. Cardinality(Alive) = 0 \/ Cardinality(Alive) = 1
          BY <4>1, <5>1, Zenon
        <5>3. QED
          BY <5>2
      <4> HIDE DEF starters
      <4>4. QED
        BY <4>2, <4>3
    <3>2. CASE starters # {}
      <4>1. PICK c \in starters : starters = {c}
        BY <2>3, <3>2
      <4>2. Cardinality(starters) = 1
        <5> HIDE DEF starters
        <5>1. QED
          BY <4>1, FS_Singleton
      <4>3. Cardinality(Alive) = 0
        BY <2>4, <3>2, FS_EmptySet
      <4> HIDE DEF starters
      <4>4. QED
        BY <4>2, <4>3
    <3>3. QED
      BY <3>1, <3>2
  <2>6. QED
    BY <2>1, <2>2, <2>5 DEF OneAnswerAtATime
<1>2. QED
  BY <1>1, ChatInvariant, PTL
-----------------------------------------------------------------------------
(* What is stored of an answer, and of a part that a request was told is changed *)

BeforeSave == {"none", "turn", "cancels", "tells", "logs", "reads"}
\* The row that close has written, or is about to.
ByClose(a) == Closing /\ closer.on = a

\* A run that has not saved leaves the row streaming, or as close left it.  A change that a
\* request was told of is in the message of the run, then in what the run saves, then in the row.
RowFits(a) ==
  /\ run[a].at \in BeforeSave => kept[a].state = "streaming" \/ (kept[a].state = "interrupted" /\ ByClose(a))
  /\ run[a].at \in {"saves", "saved"} =>
       kept[a].state \in {"streaming", run[a].state} \/ (kept[a].state = "interrupted" /\ ByClose(a))
  /\ run[a].at = "saved" /\ ~Closing => run[a].saved \subseteq kept[a].parts
  /\ ~Closing /\ runs # a /\ ~GivenUp(a) => acked[a] \subseteq kept[a].parts

KeptFits(a) ==
  /\ to[a] = None => kept[a] = NoRow
  /\ run[a].at = "none" => acked[a] = {}
  /\ runs = a /\ run[a].at = "ended" => run[a].kill
  /\ Works(a) /\ ~Closing => acked[a] \subseteq run[a].parts
  /\ a \in Shown => RowFits(a)

\* One change at a time: what it has read of the row is still so, but for a close that saves.
PendingFits(c) ==
  req[c].at = "changes" =>
    LET a == req[c].on
    IN  /\ \A d \in Requests : req[d].at = "changes" /\ req[d].on = a => d = c
        /\ a \in Shown => kept[a].state = req[c].seen.state \/ (kept[a].state = "interrupted" /\ ByClose(a))
        /\ a \in Shown /\ ~Closing /\ ~GivenUp(a) => acked[a] \subseteq req[c].seen.parts

StoreFits == (\A a \in Answers : KeptFits(a)) /\ (\A c \in Requests : PendingFits(c))

\* Nothing happens to an answer but marks on its run.
Same(a) ==
  /\ to'[a] = to[a] /\ kept'[a] = kept[a] /\ acked'[a] = acked[a]
  /\ runs' = a <=> runs = a
  /\ a \in Shown' => a \in Shown
  /\ ~Closing' => ~Closing
  /\ ByClose(a) => ByClose(a)'
  /\ run'[a].at = run[a].at /\ run'[a].parts = run[a].parts
  /\ run'[a].saved = run[a].saved /\ run'[a].state = run[a].state
  /\ run[a].kill => run'[a].kill
  /\ GivenUp(a) => GivenUp(a)'

NoNewChange == \A d \in Requests : req'[d].at = "changes" => req'[d] = req[d]

LEMMA KeptStays ==
  ASSUME NEW a \in Answers, KeptFits(a), Same(a)
  PROVE  KeptFits(a)'
<1>1. a \in Shown' => RowFits(a)'
  BY DEF KeptFits, RowFits, Same, GivenUp, BeforeSave
<1>2. QED
  BY <1>1 DEF KeptFits, Same, Works

LEMMA PendingStays ==
  ASSUME NEW c \in Requests, PendingFits(c), NoNewChange,
         req'[c].at = "changes" => Same(req[c].on)
  PROVE  PendingFits(c)'
<1> SUFFICES ASSUME req'[c].at = "changes" PROVE PendingFits(c)'
  BY DEF PendingFits
<1>1. req'[c] = req[c] /\ req[c].at = "changes"
  BY DEF NoNewChange
<1>2. PICK a : a = req[c].on
  OBVIOUS
<1>3. \A d \in Requests : req'[d].at = "changes" /\ req'[d].on = a => d = c
  BY <1>1, <1>2 DEF PendingFits, NoNewChange
<1>4. a \in Shown' => kept'[a].state = req'[c].seen.state \/ (kept'[a].state = "interrupted" /\ ByClose(a)')
  BY <1>1, <1>2 DEF PendingFits, Same
<1>5. a \in Shown' /\ ~Closing' /\ ~GivenUp(a)' => acked'[a] \subseteq req'[c].seen.parts
  BY <1>1, <1>2 DEF PendingFits, Same, GivenUp
<1>6. QED
  BY <1>1, <1>2, <1>3, <1>4, <1>5 DEF PendingFits

\* The answer a change is about has had its run.
LEMMA ChangedIs ==
  ASSUME CInv, NEW c \in Requests, req[c].at = "changes"
  PROVE  req[c].on \in Answers /\ run[req[c].on].at = "ended" /\ runs # req[c].on
  BY DEF CInv, StreamFits, ChangeFits

LEMMA NobodyMoves ==
  ASSUME CInv, StoreFits, NoNewChange, \A a \in Answers : Same(a)
  PROVE  StoreFits'
<1>1. \A a \in Answers : KeptFits(a)'
  BY KeptStays DEF StoreFits
<1>2. \A c \in Requests : req'[c].at = "changes" => Same(req[c].on)
  BY ChangedIs DEF NoNewChange
<1>3. \A c \in Requests : PendingFits(c)'
  BY <1>2, PendingStays DEF StoreFits
<1>4. QED
  BY <1>1, <1>3 DEF StoreFits

LEMMA OneMoves ==
  ASSUME CInv, StoreFits, NoNewChange, NEW a \in Answers, \A b \in Answers \ {a} : Same(b),
         KeptFits(a)', runs = a \/ run[a].at # "ended"
  PROVE  StoreFits'
<1>1. \A b \in Answers : KeptFits(b)'
  <2>1. ASSUME NEW b \in Answers, b # a PROVE KeptFits(b)'
    BY <2>1, KeptStays DEF StoreFits
  <2>2. QED
    BY <2>1
<1>2. \A c \in Requests : req'[c].at = "changes" => Same(req[c].on)
  BY ChangedIs DEF NoNewChange
<1>3. \A c \in Requests : PendingFits(c)'
  BY <1>2, PendingStays DEF StoreFits
<1>4. QED
  BY <1>1, <1>3 DEF StoreFits

\* A step of one request, past what is stored.
LEMMA QuietStore ==
  ASSUME CInv, StoreFits, NEW c \in Requests, Others(c), req'[c].at # "changes",
         UNCHANGED <<thread, to, kept, runs, run, acked, closer>>
  PROVE  StoreFits'
<1>1. NoNewChange
  BY DEF NoNewChange, Others
<1>2. \A a \in Answers : Same(a)
  BY DEF Same, Shown, Closing, ByClose, GivenUp
<1>3. QED
  BY <1>1, <1>2, NobodyMoves

LEMMA SendingStore ==
  ASSUME CInv, StoreFits, NEW c \in Requests, Send(c) \/ Looked(c) \/ Refused(c) \/ LateAnswered(c)
  PROVE  StoreFits'
<1>1. Types
  BY DEF CInv
<1>2. Others(c) /\ req'[c].at # "changes"
  <2>1. CASE Send(c)
    <3>1. "send" \in Kinds /\ None \in Ids /\ SendFrom(c, "send", None)
      BY <2>1, NoneIsNone DEF Send, Kinds
    <3>2. QED
      BY <1>1, <3>1, SendFromIs
  <2>2. CASE Looked(c)
    <3>1. CASE WaitingIn
      <4>1. Go(c, "words") /\ "words" \in ReqAts
        BY <2>2, <3>1 DEF Looked, ReqAts
      <4>2. QED
        BY <1>1, <4>1, GoIs
    <3>2. CASE ~WaitingIn
      <4>1. Reserve(c, req[c].kind, req[c].on) /\ req[c].kind \in Kinds /\ req[c].on \in Ids
        BY <1>1, <2>2, <3>2 DEF Looked, Types, ReqSet
      <4>2. QED
        BY <1>1, <4>1, ReserveIs
    <3>3. QED
      BY <3>1, <3>2
  <2>3. CASE Refused(c) \/ LateAnswered(c)
    BY <1>1, <2>3, OverIs DEF Refused, LateAnswered
  <2>4. QED
    BY <2>1, <2>2, <2>3
<1>3. UNCHANGED <<thread, to, kept, runs, run, acked, closer>>
  BY DEF Send, Looked, Refused, LateAnswered, store, answering
<1>4. QED
  BY <1>2, <1>3, QuietStore

LEMMA AskingStore ==
  ASSUME CInv, StoreFits, NEW c \in Requests, NEW a \in Answers,
         Pick(c, a) \/ \E kind \in {"regenerate", "resume", "edit"} : AskAgain(c, kind, a)
  PROVE  StoreFits'
<1>1. Types /\ a \in Ids
  BY DEF CInv, Ids
<1>2. Others(c) /\ req'[c].at # "changes"
  <2>1. ASSUME NEW kind \in {"regenerate", "resume", "edit"}, AskAgain(c, kind, a)
        PROVE  Others(c) /\ req'[c].at # "changes"
    <3>1. kind \in Kinds /\ Reserve(c, kind, a)
      BY <2>1 DEF Kinds, AskAgain
    <3>2. QED
      BY <1>1, <3>1, ReserveIs
  <2>2. CASE Pick(c, a)
    <3>1. CASE asked[a] = "pending" /\ future[a] \in {"waits", "leaked"}
      <4> DEFINE picks == [NoRequest EXCEPT !.at = "pick", !.on = a]
      <4>1. req' = [req EXCEPT ![c] = picks]
        BY <2>2, <3>1 DEF Pick
      <4>2. picks.at = "pick"
        BY DEF NoRequest
      <4> HIDE DEF picks
      <4>3. QED
        BY <1>1, <4>1, <4>2 DEF Types, Others
    <3>2. CASE ~(asked[a] = "pending" /\ future[a] \in {"waits", "leaked"})
      <4>1. SendFrom(c, "late", a) /\ "late" \in Kinds
        BY <2>2, <3>2 DEF Pick, Kinds
      <4>2. QED
        BY <1>1, <4>1, SendFromIs
    <3>3. QED
      BY <3>1, <3>2
  <2>3. QED
    BY <2>1, <2>2
<1>3. UNCHANGED <<thread, to, kept, runs, run, acked, closer>>
  BY DEF Pick, AskAgain, store
<1>4. QED
  BY <1>2, <1>3, QuietStore

LEMMA AnsweringStore ==
  ASSUME CInv, StoreFits, NEW c \in Requests, Answering(c)
  PROVE  StoreFits'
<1>1. Types /\ {"closing", "closed", "picked", "failed"} \subseteq ReqAts
  BY DEF CInv, ReqAts
<1>2. Others(c) /\ req'[c].at # "changes"
  <2>1. CASE Words(c)
    BY <1>1, <2>1, GoIs, OverIs DEF Words
  <2>2. CASE SupersedeReads(c)
    BY <1>1, <2>2, AfterWordsIs DEF SupersedeReads, Types, ReqSet, Others
  <2>3. CASE Supersede(c)
    <3>1. CASE AfterWords(c)
      BY <1>1, <3>1, AfterWordsIs
    <3>2. CASE Go(c, "closed")
      BY <1>1, <3>2, GoIs
    <3>3. CASE \E a : req' = [req EXCEPT ![c].list = @ \ {a}]
      BY <1>1, <2>3, <3>3 DEF Supersede, Types, ReqSet, Others
    <3>4. QED
      BY <2>3, <3>1, <3>2, <3>3 DEF Supersede
  <2>4. CASE SupersedeTold(c)
    BY <1>1, <2>4 DEF SupersedeTold, Types, ReqSet, Others
  <2>5. CASE Picked(c) \/ PickTold(c) \/ PickFails(c)
    BY <1>1, <2>5, GoIs, OverIs DEF Picked, PickTold, PickFails
  <2>6. QED
    BY <2>1, <2>2, <2>3, <2>4, <2>5 DEF Answering
<1>3. UNCHANGED <<thread, to, kept, runs, run, acked, closer>>
  BY DEF Answering, Words, SupersedeReads, Supersede, SupersedeTold, Picked, PickTold, PickFails, store, answering
<1>4. QED
  BY <1>2, <1>3, QuietStore

\* Marks on a run: a Stop and a delete, and a Stop that runs out of time.
LEMMA MarkIs ==
  ASSUME NEW r \in RunSet, NEW s,
         \/ s = r
         \/ s = [r EXCEPT !.stopping = TRUE]
         \/ s = [r EXCEPT !.stopping = TRUE, !.deleted = TRUE]
         \/ s = [r EXCEPT !.closing = TRUE, !.stopping = TRUE]
         \/ s = [r EXCEPT !.kill = TRUE]
  PROVE  /\ s.at = r.at /\ s.parts = r.parts /\ s.saved = r.saved /\ s.state = r.state
         /\ r.kill => s.kill
         /\ r.deleted => s.deleted
         /\ r.cut => s.cut
<1>1. CASE s = r
  BY <1>1
<1>2. CASE s = [r EXCEPT !.stopping = TRUE]
  BY <1>2 DEF RunSet
<1>3. CASE s = [r EXCEPT !.stopping = TRUE, !.deleted = TRUE]
  BY <1>3 DEF RunSet
<1>4. CASE s = [r EXCEPT !.closing = TRUE, !.stopping = TRUE]
  BY <1>4 DEF RunSet
<1>5. CASE s = [r EXCEPT !.kill = TRUE]
  BY <1>5 DEF RunSet
<1>6. QED
  BY <1>1, <1>2, <1>3, <1>4, <1>5

LEMMA StopMarks ==
  ASSUME Types, NEW c \in Requests, Stop(c) \/ Delete(c) \/ Stopping(c), NEW a \in Answers
  PROVE  /\ run'[a].at = run[a].at /\ run'[a].parts = run[a].parts
         /\ run'[a].saved = run[a].saved /\ run'[a].state = run[a].state
         /\ run[a].kill => run'[a].kill
         /\ GivenUp(a) => GivenUp(a)'
<1>1. run[a] \in RunSet /\ run \in [Answers -> RunSet]
  BY DEF Types
<1>2. CASE Stop(c)
  <2>1. run'[a] = run[a] \/ run'[a] = [run[a] EXCEPT !.stopping = TRUE]
    BY <1>1, <1>2 DEF Stop
  <2>2. QED
    BY <1>1, <2>1, MarkIs DEF GivenUp
<1>3. CASE Delete(c)
  <2>1. run'[a] = run[a] \/ run'[a] = [run[a] EXCEPT !.stopping = TRUE, !.deleted = TRUE]
    BY <1>1, <1>3 DEF Delete
  <2>2. QED
    BY <1>1, <2>1, MarkIs DEF GivenUp
<1>4. CASE StopTimesOut(c)
  <2>1. run'[a] = run[a] \/ run'[a] = [run[a] EXCEPT !.kill = TRUE]
    BY <1>1, <1>4 DEF StopTimesOut
  <2>2. QED
    BY <1>1, <2>1, MarkIs DEF GivenUp
<1>5. CASE StopCancels(c) \/ StopTells(c) \/ StopEnds(c) \/ Remove(c)
  <2>1. run' = run
    BY <1>5 DEF StopCancels, StopTells, StopEnds, Remove, answering
  <2>2. QED
    BY <2>1 DEF GivenUp
<1>6. QED
  BY <1>2, <1>3, <1>4, <1>5 DEF Stopping

LEMMA StoppingStore ==
  ASSUME CInv, StoreFits, NEW c \in Requests, Stop(c) \/ Delete(c) \/ Stopping(c)
  PROVE  StoreFits'
<1>1. Types /\ {"waits", "stopTells", "removes", "gathers", "stops"} \subseteq ReqAts /\ {"stop", "delete", "none"} \subseteq Kinds
  BY DEF CInv, ReqAts, Kinds
<1>2. Others(c) /\ req'[c].at # "changes"
  <2>1. CASE Stop(c) \/ Delete(c)
    <3>1. CASE \E kind \in Kinds : StopRun(c, kind, runs)
      BY <1>1, <3>1, StopRunIs DEF Types
    <3>2. CASE req' = [req EXCEPT ![c] = [NoRequest EXCEPT !.at = "removes", !.kind = "delete"]]
      <4> DEFINE removes == [NoRequest EXCEPT !.at = "removes", !.kind = "delete"]
      <4>1. removes.at = "removes" /\ req' = [req EXCEPT ![c] = removes]
        BY <3>2 DEF NoRequest
      <4> HIDE DEF removes
      <4>2. QED
        BY <1>1, <4>1 DEF Types, Others
    <3>3. QED
      BY <1>1, <2>1, <3>1, <3>2 DEF Stop, Delete
  <2>2. CASE StopCancels(c)
    BY <1>1, <2>2, GoIs DEF StopCancels
  <2>3. CASE StopTells(c) \/ StopTimesOut(c) \/ Remove(c)
    BY <1>1, <2>3, GoIs, OverIs DEF StopTells, StopTimesOut, Remove
  <2>4. CASE StopEnds(c)
    BY <1>1, <2>4, GoIs, OverIs DEF StopEnds
  <2>5. QED
    BY <2>1, <2>2, <2>3, <2>4 DEF Stopping
<1>3. NoNewChange
  BY <1>2 DEF NoNewChange, Others
<1>4. UNCHANGED <<to, kept, runs, acked, closer>> /\ (thread' = thread \/ thread' = <<>>)
  BY DEF Stop, Delete, Stopping, StopCancels, StopTells, StopEnds, StopTimesOut, Remove, store, answering
<1>5. Shown' \subseteq Shown
  BY <1>4 DEF Shown
<1>6. \A a \in Answers : /\ run'[a].at = run[a].at /\ run'[a].parts = run[a].parts
                         /\ run'[a].saved = run[a].saved /\ run'[a].state = run[a].state
                         /\ run[a].kill => run'[a].kill
                         /\ GivenUp(a) => GivenUp(a)'
  BY <1>1, StopMarks
<1>7. \A a \in Answers : Same(a)
  BY <1>4, <1>5, <1>6 DEF Same, Closing, ByClose
<1>8. QED
  BY <1>3, <1>7, NobodyMoves

\* A step of the run at work.
LEMMA RunStore ==
  ASSUME CInv, StoreFits, NEW a \in Answers, Works(a), UNCHANGED <<thread, to, acked, req, closer>>,
         \A b \in Answers \ {a} : run'[b] = run[b] /\ kept'[b] = kept[b],
         runs' \in {runs, None}, run'[a].at # "none",
         run'[a].at = "ended" \/ run'[a].parts = run[a].parts,
         runs' = a /\ run'[a].at = "ended" => run'[a].kill,
         a \in Shown => RowFits(a)'
  PROVE  StoreFits'
<1>1. runs = a /\ to[a] # None
  BY DEF CInv, ReserveFits, StreamFits, Works
<1>2. NoNewChange
  BY DEF NoNewChange
<1>3. \A b \in Answers \ {a} : Same(b)
  <2>1. \A b \in Answers \ {a} : runs' # b
    BY <1>1, NoneIsNone
  <2>2. Shown' = Shown /\ Closing' = Closing
    BY DEF Shown, Closing
  <2>3. QED
    BY <1>1, <2>1, <2>2 DEF Same, ByClose, GivenUp
<1>4. KeptFits(a)'
  <2>1. Works(a)' /\ ~Closing' => acked'[a] \subseteq run'[a].parts
    BY DEF StoreFits, KeptFits, Works, Closing
  <2>2. a \in Shown' => RowFits(a)'
    BY DEF Shown
  <2>3. to'[a] # None
    BY <1>1
  <2>4. QED
    BY <2>1, <2>2, <2>3 DEF KeptFits
<1>5. QED
  BY <1>1, <1>2, <1>3, <1>4, OneMoves

LEMMA LeftKeeps ==
  ASSUME Types, NEW a \in Answers, NEW cut, Left(a, cut)
  PROVE  run'[a].deleted = run[a].deleted /\ run'[a].kill = run[a].kill
<1>1. run'[a] = [NoRun EXCEPT !.at = "ended", !.cut = cut, !.deleted = run[a].deleted, !.kill = run[a].kill]
  BY DEF Left, Types
<1>2. QED
  BY <1>1 DEF NoRun

LEMMA DecidedParts ==
  ASSUME NEW r \in RunSet
  PROVE  Decided(r).parts = r.parts /\ Decided(r).at = "logs"
  BY DEF Decided, RunSet

\* Before the save: the row is as the run left it.
LEMMA BeforeStore ==
  ASSUME CInv, StoreFits, NEW a \in Answers, run[a].at \in BeforeSave \ {"none"},
         UNCHANGED <<thread, to, kept, acked, req, closer, runs>>,
         \A b \in Answers \ {a} : run'[b] = run[b],
         run'[a].at \in BeforeSave \cup {"saves"}, run'[a].at # "none", run'[a].parts = run[a].parts
  PROVE  StoreFits'
<1>1. Works(a) /\ runs = a
  BY DEF Works, BeforeSave, CInv, ReserveFits
<1>2. a \in Shown => kept[a].state = "streaming" \/ (kept[a].state = "interrupted" /\ ByClose(a))
  BY DEF StoreFits, KeptFits, RowFits
<1>3. a \in Shown => RowFits(a)'
  BY <1>1, <1>2 DEF RowFits, BeforeSave, ByClose, Closing
<1>4. run'[a].at # "ended"
  BY DEF BeforeSave
<1>5. QED
  BY <1>1, <1>3, <1>4, RunStore

LEMMA FinishStore ==
  ASSUME CInv, StoreFits, NEW a \in Answers,
         TurnEnds(a) \/ FinishCancels(a) \/ FinishTells(a) \/ FinishReads(a) \/ KilledInTurn(a)
  PROVE  StoreFits'
<1>1. run[a].at \in BeforeSave \ {"none"} /\ run[a] \in RunSet /\ run \in [Answers -> RunSet]
  BY DEF CInv, Types, TurnEnds, FinishCancels, FinishTells, FinishReads, KilledInTurn, BeforeSave
<1>2. UNCHANGED <<thread, to, kept, acked, req, closer, runs>>
  BY DEF TurnEnds, FinishCancels, FinishTells, FinishReads, KilledInTurn, store, users
<1>3. \A b \in Answers \ {a} : run'[b] = run[b]
  BY <1>1 DEF TurnEnds, FinishCancels, FinishTells, FinishReads, KilledInTurn
<1>4. run'[a].at \in {"cancels", "tells", "logs", "saves"} /\ run'[a].parts = run[a].parts
  <2>0. CASE FinishReads(a)
    BY <1>1, <2>0 DEF RunSet, FinishReads
  <2>1. CASE \E s \in Ended : run' = [run EXCEPT ![a].at = "cancels", ![a].state = s, ![a].kill = FALSE]
    BY <1>1, <2>1 DEF RunSet
  <2>2. CASE run' = [run EXCEPT ![a].at = "cancels", ![a].state = "cancelled", ![a].kill = FALSE]
    BY <1>1, <2>2 DEF RunSet
  <2>3. CASE run' = [run EXCEPT ![a] = Decided(@)]
    BY <1>1, <2>3, DecidedParts
  <2>4. CASE FinishCancels(a) /\ asked[a] = "pending"
    <3>1. run' = [run EXCEPT ![a] = [@ EXCEPT !.at = "tells"]]
      BY <2>4 DEF FinishCancels
    <3>2. QED
      BY <1>1, <3>1 DEF RunSet
  <2>5. CASE FinishCancels(a) /\ asked[a] # "pending"
    <3>1. run' = [run EXCEPT ![a] = Decided(@)]
      BY <2>5 DEF FinishCancels
    <3>2. QED
      BY <2>3, <3>1
  <2>6. QED
    BY <2>0, <2>1, <2>2, <2>3, <2>4, <2>5 DEF TurnEnds, FinishTells, KilledInTurn
<1>5. QED
  BY <1>1, <1>2, <1>3, <1>4, BeforeStore DEF BeforeSave

LEMMA FinishLogsStore == ASSUME CInv, StoreFits, NEW a \in Answers, FinishLogs(a) PROVE StoreFits'
<1>1. Types /\ run[a].at \in BeforeSave \ {"none"} /\ run[a] \in RunSet /\ run \in [Answers -> RunSet]
  BY DEF CInv, Types, FinishLogs, BeforeSave
<1>2. UNCHANGED <<thread, to, kept, acked, req, closer>> /\ Works(a)
  BY DEF FinishLogs, store, users, Works
<1>3. CASE run[a].deleted
  <2>1. Left(a, FALSE)
    BY <1>3 DEF FinishLogs
  <2>2. /\ run'[a].at = "ended" /\ run'[a].deleted /\ runs' \in {runs, None} /\ runs' # a
        /\ \A b \in Answers \ {a} : run'[b] = run[b]
    BY <1>1, <1>3, <2>1, LeftIs, LeftKeeps, NoneIsNone
  <2>3. RowFits(a)'
    BY <2>2 DEF RowFits, BeforeSave, GivenUp
  <2>4. \A b \in Answers \ {a} : run'[b] = run[b] /\ kept'[b] = kept[b]
    BY <1>2, <2>2
  <2>5. QED
    BY <1>2, <2>2, <2>3, <2>4, RunStore
<1>4. CASE ~run[a].deleted
  <2>1. run' = [run EXCEPT ![a].at = "reads"] /\ runs' = runs
    BY <1>4 DEF FinishLogs
  <2>2. run'[a].at = "reads" /\ run'[a].parts = run[a].parts /\ \A b \in Answers \ {a} : run'[b] = run[b]
    BY <1>1, <2>1 DEF RunSet
  <2>3. QED
    BY <1>1, <1>2, <2>1, <2>2, BeforeStore DEF BeforeSave
<1>5. QED
  BY <1>3, <1>4

LEMMA FinishSavesStore == ASSUME CInv, StoreFits, NEW a \in Answers, FinishSaves(a) PROVE StoreFits'
<1> DEFINE row == [state |-> run[a].state, parts |-> run[a].saved]
<1>1. Types /\ run[a].at = "saves" /\ run[a] \in RunSet /\ run \in [Answers -> RunSet] /\ Works(a)
  BY DEF CInv, Types, FinishSaves, Works
<1>2. UNCHANGED <<thread, to, acked, req, closer, runs>> /\ kept' = Stored(a, row)
      /\ run' = [run EXCEPT ![a].at = "saved"]
  BY DEF FinishSaves, users
<1>3. row \in Rows /\ row.state = run[a].state /\ row.parts = run[a].saved
  BY <1>1 DEF RunSet, Rows
<1> HIDE DEF row
<1>4. /\ \A b \in Answers \ {a} : kept'[b] = kept[b]
      /\ a \in Shown => kept'[a] = row
  BY <1>1, <1>2, <1>3, StoredIs
<1>5. /\ run'[a].at = "saved" /\ run'[a].parts = run[a].parts /\ run'[a].saved = run[a].saved
      /\ run'[a].state = run[a].state /\ \A b \in Answers \ {a} : run'[b] = run[b]
  BY <1>1, <1>2 DEF RunSet
<1>6. runs' = a
  BY <1>1, <1>2 DEF CInv, ReserveFits
<1>7. a \in Shown => RowFits(a)'
  BY <1>3, <1>4, <1>5, <1>6 DEF RowFits, BeforeSave
<1>8. \A b \in Answers \ {a} : run'[b] = run[b] /\ kept'[b] = kept[b]
  BY <1>4, <1>5
<1>9. QED
  BY <1>1, <1>2, <1>5, <1>7, <1>8, RunStore

\* The run ends when what it saved is all it holds; otherwise it saves again.
LEMMA FinishEndsStore == ASSUME CInv, StoreFits, NEW a \in Answers, FinishEnds(a) PROVE StoreFits'
<1>1. Types /\ run[a].at = "saved" /\ run[a] \in RunSet /\ run \in [Answers -> RunSet] /\ Works(a)
  BY DEF CInv, Types, FinishEnds, Works
<1>2. UNCHANGED <<thread, to, kept, acked, req, closer>>
  BY DEF FinishEnds, users, store
<1>3. /\ ~Closing => acked[a] \subseteq run[a].parts
      /\ a \in Shown => kept[a].state \in {"streaming", run[a].state} \/ (kept[a].state = "interrupted" /\ ByClose(a))
      /\ a \in Shown /\ ~Closing => run[a].saved \subseteq kept[a].parts
  BY <1>1 DEF StoreFits, KeptFits, RowFits
<1>4. CASE run[a].parts # run[a].saved
  <2>1. run' = [run EXCEPT ![a].at = "saves", ![a].saved = run[a].parts] /\ runs' = runs
    BY <1>4 DEF FinishEnds
  <2>2. /\ run'[a].at = "saves" /\ run'[a].parts = run[a].parts /\ run'[a].state = run[a].state
        /\ \A b \in Answers \ {a} : run'[b] = run[b]
    BY <1>1, <2>1 DEF RunSet
  <2>3. runs' = a
    BY <1>1, <2>1 DEF CInv, ReserveFits
  <2>4. a \in Shown => RowFits(a)'
    BY <1>2, <1>3, <2>2, <2>3 DEF RowFits, BeforeSave, ByClose, Closing
  <2>5. \A b \in Answers \ {a} : run'[b] = run[b] /\ kept'[b] = kept[b]
    BY <1>2, <2>2
  <2>6. QED
    BY <1>1, <1>2, <2>1, <2>2, <2>4, <2>5, RunStore
<1>5. CASE run[a].parts = run[a].saved
  <2>1. Left(a, FALSE)
    BY <1>5 DEF FinishEnds
  <2>2. /\ run'[a].at = "ended" /\ runs' \in {runs, None} /\ runs' # a
        /\ \A b \in Answers \ {a} : run'[b] = run[b]
    BY <1>1, <2>1, LeftIs, NoneIsNone
  <2>3. a \in Shown => RowFits(a)'
    BY <1>2, <1>3, <1>5, <2>2 DEF RowFits, BeforeSave, Closing
  <2>4. \A b \in Answers \ {a} : run'[b] = run[b] /\ kept'[b] = kept[b]
    BY <1>2, <2>2
  <2>5. QED
    BY <1>1, <1>2, <2>2, <2>3, <2>4, RunStore
<1>6. QED
  BY <1>4, <1>5

\* The run is over without its save: nothing of it counts any more, or its entry stays.
LEMMA KilledStore ==
  ASSUME CInv, StoreFits, NEW a \in Answers,
         KilledInFinish(a) \/ KilledInSave(a) \/ SaveFails(a) \/ KilledInReads(a)
  PROVE  StoreFits'
<1>1. /\ Types /\ run[a] \in RunSet /\ run \in [Answers -> RunSet] /\ Works(a) /\ runs = a
      /\ KilledInFinish(a) => run[a].kill
  BY DEF CInv, ReserveFits, Types, KilledInFinish, KilledInSave, SaveFails, KilledInReads, Works
<1>2. UNCHANGED <<thread, to, acked, req, closer>>
  BY DEF KilledInFinish, KilledInSave, SaveFails, KilledInReads, users, store
<1>3. \A b \in Answers \ {a} : kept'[b] = kept[b]
  <2>1. [state |-> run[a].state, parts |-> run[a].saved] \in Rows
    BY <1>1 DEF RunSet, Rows
  <2>2. CASE kept' = Stored(a, [state |-> run[a].state, parts |-> run[a].saved])
    BY <1>1, <2>1, <2>2, StoredIs
  <2>3. QED
    BY <2>2 DEF KilledInFinish, KilledInSave, SaveFails, KilledInReads, store
<1>4. /\ run'[a].at = "ended" /\ \A b \in Answers \ {a} : run'[b] = run[b]
      /\ \/ runs' = a /\ run'[a].kill
         \/ runs' = None /\ GivenUp(a)'
  <2>1. CASE KilledInFinish(a)
    <3>1. run' = [run EXCEPT ![a].at = "ended"] /\ runs' = runs
      BY <2>1 DEF KilledInFinish
    <3>2. QED
      BY <1>1, <2>1, <3>1 DEF RunSet
  <2>2. CASE KilledInSave(a) \/ SaveFails(a) \/ KilledInReads(a)
    <3>1. Left(a, TRUE)
      BY <2>2 DEF KilledInSave, SaveFails, KilledInReads
    <3>2. QED
      BY <1>1, <3>1, LeftIs DEF GivenUp
  <2>3. QED
    BY <2>1, <2>2
<1>5. RowFits(a)'
  BY <1>4 DEF RowFits, BeforeSave
<1>6. \A b \in Answers \ {a} : run'[b] = run[b] /\ kept'[b] = kept[b]
  BY <1>3, <1>4
<1>7. runs' = a /\ run'[a].at = "ended" => run'[a].kill
  BY <1>4, NoneIsNone
<1>8. QED
  BY <1>1, <1>2, <1>4, <1>5, <1>6, <1>7, RunStore

LEMMA CheckpointStore == ASSUME CInv, StoreFits, NEW a \in Answers, Checkpoint(a) PROVE StoreFits'
<1> DEFINE row == [state |-> "streaming", parts |-> run[a].parts]
<1>1. Types /\ run[a].at = "turn" /\ run[a] \in RunSet /\ Works(a)
  BY DEF CInv, Types, Checkpoint, Works
<1>2. UNCHANGED <<thread, to, acked, req, closer, run, runs>> /\ kept' = Stored(a, row)
  BY DEF Checkpoint, users, answering
<1>3. row \in Rows /\ row.state = "streaming"
  BY <1>1, Constants DEF RunSet, Rows
<1> HIDE DEF row
<1>4. /\ \A b \in Answers \ {a} : kept'[b] = kept[b]
      /\ a \in Shown => kept'[a] = row
  BY <1>1, <1>2, <1>3, StoredIs
<1>5. runs' = a
  BY <1>1, <1>2 DEF CInv, ReserveFits
<1>6. a \in Shown => RowFits(a)'
  BY <1>1, <1>2, <1>3, <1>4, <1>5 DEF RowFits, BeforeSave
<1>7. \A b \in Answers \ {a} : run'[b] = run[b] /\ kept'[b] = kept[b]
  BY <1>2, <1>4
<1>8. QED
  BY <1>1, <1>2, <1>6, <1>7, RunStore

LEMMA AgentStore == ASSUME CInv, StoreFits, NEW a \in Answers, AgentAsks(a) PROVE StoreFits'
<1>1. UNCHANGED <<thread, to, kept, runs, run, acked, req, closer>>
  BY DEF AgentAsks, Ask, AskAdded, AskDropped, store, answering, users
<1>2. NoNewChange /\ \A b \in Answers : Same(b)
  BY <1>1 DEF NoNewChange, Same, Shown, Closing, ByClose, GivenUp
<1>3. QED
  BY <1>2, NobodyMoves

\* The new answer is in the thread.
Holds(s, n) == \E i \in DOMAIN s : s[i] = n
LEMMA NewIsAsked ==
  ASSUME Types, NEW kind \in Kinds, NEW a, kind \in {"send", "late"} \/ a \in Shown, NEW n \in Answers
  PROVE  Holds(Asked(kind, a, n), n)
<1> DEFINE at == CHOOSE i \in DOMAIN thread : thread[i] = a
           first == CHOOSE i \in DOMAIN thread :
                      to[thread[i]] = to[a] /\ \A k \in 1 .. i - 1 : to[thread[k]] # to[a]
           before == SubSeq(thread, 1, first - 1)
<1>1. thread \in Seq(Answers)
  BY DEF Types
<1>2. CASE kind = "resume"
  <2>1. Asked(kind, a, n) = [thread EXCEPT ![at] = n]
    BY <1>2 DEF Asked
  <2>2. at \in DOMAIN thread
    BY <1>2 DEF Shown
  <2> HIDE DEF at
  <2>3. QED
    BY <2>1, <2>2 DEF Holds
<1>3. CASE kind = "edit"
  <2>1. Asked(kind, a, n) = Append(before, n)
    BY <1>3 DEF Asked
  <2>2. first \in DOMAIN thread
    BY <1>3, FirstIs
  <2> HIDE DEF first
  <2>3. first - 1 \in 0 .. Len(thread)
    BY <1>1, <2>2
  <2>4. before \in Seq(Answers) /\ Len(before) = first - 1 /\ first - 1 \in Nat
    BY <1>1, <2>3
  <2> HIDE DEF before
  <2>5. Len(before) + 1 \in DOMAIN Append(before, n) /\ Append(before, n)[Len(before) + 1] = n
    BY <2>4
  <2>6. QED
    BY <2>1, <2>5 DEF Holds
<1>4. CASE kind \notin {"resume", "edit"}
  <2>1. Asked(kind, a, n) = Append(thread, n)
    BY <1>4 DEF Asked
  <2>2. Len(thread) + 1 \in DOMAIN Append(thread, n) /\ Append(thread, n)[Len(thread) + 1] = n
    BY <1>1
  <2>3. QED
    BY <2>1, <2>2 DEF Holds
<1>5. QED
  BY <1>2, <1>3, <1>4

\* A new answer is one nobody has had, and the request that brings it is the only one that starts.
LEMMA InsertIs ==
  ASSUME CInv, NEW c \in Requests, Insert(c)
  PROVE  /\ \E n \in Answers :
              /\ to[n] = None /\ run[n].at = "none" /\ n \notin Shown
              /\ n \in Shown' /\ Shown' \subseteq Shown \cup {n}
              /\ to'[n] # None /\ \A a \in Answers \ {n} : to'[a] = to[a]
         /\ Others(c) /\ req'[c].at = "inserted"
         /\ runs = None /\ \A d \in Requests : req[d].at # "inserted"
         /\ UNCHANGED <<kept, runs, run, acked, closer>>
<1>1. /\ Types /\ req[c].at = "asking" /\ MayAsk(req[c].kind, req[c].on) /\ req[c].kind \in Sends
      /\ req[c].on \in Ids
  BY DEF Insert, CInv, KindFits, Types, ReqSet
<1>2. PICK n \in Answers :
        /\ Fresh(n)
        /\ thread' = Asked(req[c].kind, req[c].on, n)
        /\ to' = [to EXCEPT ![n] = IF req[c].kind \in {"send", "late"} THEN n ELSE to[req[c].on]]
        /\ req' = [req EXCEPT ![c].at = "inserted", ![c].list = {n}]
  BY DEF Insert
<1>3. UNCHANGED <<kept, runs, run, acked, closer>>
  BY DEF Insert, answering
<1>4. (req[c].kind \in {"send", "late"} \/ req[c].on \in Shown) /\ req[c].kind \in Kinds
  BY <1>1 DEF Sends, MayAsk, Kinds
<1>5. Shown' \subseteq Shown \cup {n} /\ n \in Shown'
  <2>1. \A i \in DOMAIN thread' : thread'[i] \in Shown \cup {n}
    BY <1>1, <1>2, <1>4, AskedIs
  <2>2. Holds(Asked(req[c].kind, req[c].on, n), n)
    BY <1>1, <1>4, NewIsAsked
  <2>3. QED
    BY <1>2, <2>1, <2>2 DEF Shown, Holds
<1>6. Others(c) /\ req'[c].at = "inserted"
  <2>1. "inserted" \in ReqAts /\ {n} \in SUBSET Answers
    BY DEF ReqAts
  <2>2. QED
    BY <1>1, <1>2, <2>1, ListIs
<1>7. Shown \subseteq Answers
  BY <1>1 DEF Shown, Types
<1>8. to'[n] # None /\ \A a \in Answers \ {n} : to'[a] = to[a]
  <2>1. req[c].on \in Shown => to[req[c].on] # None
    BY <1>7 DEF CInv, StreamFits
  <2>2. n # None
    BY NoneIsNone
  <2>3. QED
    BY <1>1, <1>2, <1>4, <2>1, <2>2 DEF Types
<1>9. to[n] = None /\ run[n].at = "none" /\ n \notin Shown
  BY <1>2 DEF Fresh, CInv, StreamFits
<1>10. runs = None /\ \A d \in Requests : req[d].at # "inserted"
  BY <1>1 DEF CInv, ReserveFits, Starting
<1>11. QED
  BY <1>3, <1>5, <1>6, <1>8, <1>9, <1>10

LEMMA InsertStore == ASSUME CInv, StoreFits, NEW c \in Requests, Insert(c) PROVE StoreFits'
<1>1. PICK n \in Answers :
        /\ to[n] = None /\ run[n].at = "none" /\ Shown' \subseteq Shown \cup {n}
        /\ to'[n] # None /\ \A a \in Answers \ {n} : to'[a] = to[a]
  BY InsertIs
<1>2. /\ Others(c) /\ req'[c].at = "inserted" /\ runs = None
      /\ UNCHANGED <<kept, runs, run, acked, closer>>
  BY InsertIs
<1>3. NoNewChange
  BY <1>2 DEF NoNewChange, Others
<1>4. \A b \in Answers \ {n} : Same(b)
  BY <1>1, <1>2 DEF Same, Closing, ByClose, GivenUp
<1>5. KeptFits(n)'
  <2>1. kept[n] = NoRow /\ acked[n] = {} /\ NoRow.state = "streaming"
    BY <1>1 DEF StoreFits, KeptFits, NoRow
  <2>2. n \in Shown' => RowFits(n)'
    BY <1>1, <1>2, <2>1 DEF RowFits
  <2>3. QED
    BY <1>1, <1>2, <2>1, <2>2 DEF KeptFits, Works
<1>6. QED
  BY <1>1, <1>3, <1>4, <1>5, OneMoves

LEMMA StartStore == ASSUME CInv, StoreFits, NEW c \in Requests, Start(c) PROVE StoreFits'
<1>1. Types /\ req[c].at = "inserted"
  BY DEF CInv, Start
<1>2. PICK n \in req[c].list : runs' = n /\ run' = [run EXCEPT ![n].at = "turn"]
  BY DEF Start
<1>3. n \in Answers /\ run[n].at = "none" /\ to[n] # None
  BY <1>1, <1>2 DEF CInv, StreamFits
<1>4. Others(c) /\ req'[c].at \in {"idle", "late"}
  <2>1. "late" \in ReqAts
    BY DEF ReqAts
  <2>2. QED
    BY <1>1, <2>1, GoIs, OverIs DEF Start
<1>5. NoNewChange
  BY <1>4 DEF NoNewChange, Others
<1>6. run'[n].at = "turn" /\ \A a \in Answers \ {n} : run'[a] = run[a]
  BY <1>1, <1>2, <1>3 DEF Types, RunSet
<1>7. UNCHANGED <<thread, to, kept, acked, closer>> /\ runs = None
  BY <1>1 DEF Start, store, CInv, ReserveFits, Starting
<1>8. \A b \in Answers \ {n} : Same(b)
  <2>1. \A b \in Answers \ {n} : runs' # b /\ runs # b
    BY <1>2, <1>7, NoneIsNone
  <2>2. QED
    BY <1>6, <1>7, <2>1 DEF Same, Shown, Closing, ByClose, GivenUp
<1>9. KeptFits(n)'
  <2>1. /\ acked[n] = {}
        /\ n \in Shown => kept[n].state = "streaming" \/ (kept[n].state = "interrupted" /\ ByClose(n))
    BY <1>3 DEF StoreFits, KeptFits, RowFits, BeforeSave
  <2>2. n \in Shown' => RowFits(n)'
    BY <1>6, <1>7, <2>1 DEF RowFits, BeforeSave, Shown, ByClose, Closing
  <2>3. QED
    BY <1>3, <1>6, <1>7, <2>1, <2>2 DEF KeptFits
<1>10. QED
  BY <1>3, <1>5, <1>8, <1>9, OneMoves

\* A change is told of when it is in the message of the run, or waits for its write.
LEMMA ChangePartStore ==
  ASSUME CInv, StoreFits, NEW c \in Requests, NEW a \in Answers, ChangePart(c, a)
  PROVE  StoreFits'
<1>1. /\ Types /\ a \in Shown /\ run[a].at # "none" /\ PartsFree(a)
      /\ UNCHANGED <<thread, to, kept, runs, closer>>
  BY DEF CInv, ChangePart, store
<1>2. CASE runs = a
  <2>1. /\ run' = [run EXCEPT ![a].parts = @ \cup {c}] /\ acked' = [acked EXCEPT ![a] = @ \cup {c}]
        /\ req' = req
    BY <1>2 DEF ChangePart
  <2>2. /\ run'[a].at = run[a].at /\ run'[a].saved = run[a].saved /\ run'[a].state = run[a].state
        /\ run'[a].kill = run[a].kill /\ run'[a].parts = run[a].parts \cup {c}
        /\ acked'[a] = acked[a] \cup {c}
    BY <1>1, <2>1 DEF Types, RunSet
  <2>3. \A b \in Answers \ {a} : run'[b] = run[b] /\ acked'[b] = acked[b]
    BY <1>1, <2>1 DEF Types
  <2>4. NoNewChange
    BY <2>1 DEF NoNewChange
  <2>5. \A b \in Answers \ {a} : Same(b)
    BY <1>1, <2>3 DEF Same, Shown, Closing, ByClose, GivenUp
  <2>6. KeptFits(a)'
    <3>1. KeptFits(a) /\ RowFits(a)
      BY <1>1 DEF StoreFits, KeptFits
    <3>2. RowFits(a)'
      BY <1>1, <1>2, <2>2, <3>1 DEF RowFits, BeforeSave, Closing, ByClose
    <3>3. QED
      BY <1>1, <2>2, <3>1, <3>2 DEF KeptFits, Works, Closing
  <2>7. QED
    BY <1>2, <2>4, <2>5, <2>6, OneMoves
<1>3. CASE runs # a
  <2> DEFINE changes == [NoRequest EXCEPT !.at = "changes", !.on = a, !.seen = kept[a]]
  <2>1. req' = [req EXCEPT ![c] = changes] /\ UNCHANGED <<run, acked>>
    BY <1>3 DEF ChangePart
  <2>2. changes.at = "changes" /\ changes.on = a /\ changes.seen = kept[a]
    BY DEF NoRequest
  <2> HIDE DEF changes
  <2>3. Others(c) /\ req'[c].at = "changes" /\ req'[c].on = a /\ req'[c].seen = kept[a]
    BY <1>1, <2>1, <2>2 DEF Types, Others
  <2>4. \A b \in Answers : Same(b)
    BY <1>1, <2>1 DEF Same, Shown, Closing, ByClose, GivenUp
  <2>5. \A b \in Answers : KeptFits(b)'
    BY <2>4, KeptStays DEF StoreFits
  <2>6. PendingFits(c)'
    <3>1. \A d \in Requests : req'[d].at = "changes" /\ req'[d].on = a => d = c
      BY <1>1, <2>3 DEF PartsFree, Others
    <3>2. ~Closing /\ ~GivenUp(a) => acked[a] \subseteq kept[a].parts
      BY <1>1, <1>3 DEF StoreFits, KeptFits, RowFits
    <3>3. ~Closing' /\ ~GivenUp(a)' => acked'[a] \subseteq req'[c].seen.parts
      BY <1>1, <2>1, <2>3, <3>2 DEF GivenUp, Closing
    <3>4. kept'[a].state = req'[c].seen.state
      BY <1>1, <2>3
    <3>5. QED
      BY <2>3, <3>1, <3>3, <3>4 DEF PendingFits
  <2>7. ASSUME NEW d \in Requests, d # c PROVE PendingFits(d)'
    <3> SUFFICES ASSUME req'[d].at = "changes" PROVE PendingFits(d)'
      BY DEF PendingFits
    <3>1. req'[d] = req[d] /\ PendingFits(d)
      BY <2>3, <2>7 DEF Others, StoreFits
    <3>2. PICK b : b = req[d].on
      OBVIOUS
    <3>3. b \in Answers /\ b # a
      BY <1>1, <3>1, <3>2, ChangedIs DEF PartsFree
    <3>4. \A e \in Requests : req'[e].at = "changes" /\ req'[e].on = b => e = d
      BY <2>3, <3>1, <3>2, <3>3 DEF Others, PendingFits
    <3>5. b \in Shown' => kept'[b].state = req'[d].seen.state \/ (kept'[b].state = "interrupted" /\ ByClose(b)')
      BY <1>1, <3>1, <3>2 DEF PendingFits, Shown, ByClose, Closing
    <3>6. b \in Shown' /\ ~Closing' /\ ~GivenUp(b)' => acked'[b] \subseteq req'[d].seen.parts
      BY <1>1, <2>1, <3>1, <3>2 DEF PendingFits, Shown, GivenUp, Closing
    <3>7. QED
      BY <3>1, <3>2, <3>4, <3>5, <3>6 DEF PendingFits
  <2>8. QED
    BY <2>5, <2>6, <2>7 DEF StoreFits
<1>4. QED
  BY <1>2, <1>3

\* Nothing was written to the row between the read and the write, but by a close that saves.
LEMMA PartChangedStore == ASSUME CInv, StoreFits, NEW c \in Requests, PartChanged(c) PROVE StoreFits'
<1>0. PICK a \in Answers : a = req[c].on
  BY ChangedIs DEF PartChanged
<1> DEFINE row == [req[c].seen EXCEPT !.parts = @ \cup {c}]
<1>1. /\ Types /\ req[c].at = "changes" /\ kept' = Stored(a, row)
      /\ acked' = [acked EXCEPT ![a] = @ \cup {c}]
      /\ UNCHANGED <<thread, to, runs, run, closer>>
  BY <1>0 DEF CInv, PartChanged, answering
<1>2. run[a].at = "ended" /\ runs # a
  BY <1>0, <1>1, ChangedIs
<1>3. row \in Rows /\ row.state = req[c].seen.state /\ row.parts = req[c].seen.parts \cup {c}
  <2>1. req[c].seen \in Rows
    BY <1>1 DEF Types, ReqSet
  <2>2. req[c].seen.parts \cup {c} \in SUBSET Requests
    BY <2>1 DEF Rows
  <2>3. QED
    BY <2>1, <2>2 DEF Rows
<1>4. Others(c) /\ req'[c].at = "idle"
  BY <1>1, OverIs DEF PartChanged
<1>5. \A d \in Requests : req[d].at = "changes" /\ req[d].on = a => d = c
  BY <1>0, <1>1 DEF StoreFits, PendingFits
<1>6. a \in Shown /\ ~Closing /\ ~GivenUp(a) => acked[a] \subseteq req[c].seen.parts
  BY <1>0, <1>1 DEF StoreFits, PendingFits
<1> HIDE DEF row
<1>7. /\ \A b \in Answers \ {a} : kept'[b] = kept[b] /\ acked'[b] = acked[b]
      /\ a \in Shown => kept'[a] = row
      /\ acked'[a] = acked[a] \cup {c}
  BY <1>1, <1>2, <1>3, StoredIs DEF Types
<1>8. \A b \in Answers \ {a} : Same(b)
  BY <1>1, <1>7 DEF Same, Shown, Closing, ByClose, GivenUp
<1>9. KeptFits(a)'
  <2>1. to'[a] # None
    BY <1>1, <1>2 DEF CInv, StreamFits
  <2>2. a \in Shown' => RowFits(a)'
    BY <1>1, <1>2, <1>3, <1>6, <1>7 DEF RowFits, BeforeSave, GivenUp, Closing, Shown
  <2>3. QED
    BY <1>1, <1>2, <2>1, <2>2 DEF KeptFits, Works
<1>10. \A b \in Answers : KeptFits(b)'
  <2>1. ASSUME NEW b \in Answers, b # a PROVE KeptFits(b)'
    BY <1>8, <2>1, KeptStays DEF StoreFits
  <2>2. QED
    BY <1>9, <2>1
<1>11. NoNewChange
  BY <1>4 DEF NoNewChange, Others
<1>12. \A d \in Requests : req'[d].at = "changes" => Same(req[d].on)
  <2>1. ASSUME NEW d \in Requests, req'[d].at = "changes" PROVE Same(req[d].on)
    <3>1. req[d].at = "changes" /\ req[d].on # a
      BY <1>4, <1>5, <1>11, <2>1 DEF NoNewChange
    <3>2. QED
      BY <1>8, <3>1, ChangedIs
  <2>2. QED
    BY <2>1
<1>13. \A d \in Requests : PendingFits(d)'
  BY <1>11, <1>12, PendingStays DEF StoreFits
<1>14. QED
  BY <1>10, <1>13 DEF StoreFits

\* A close up to its save, and after it, only marks its run.
LEMMA CloseStore ==
  ASSUME CInv, StoreFits, Close \/ CloseCancels \/ CloseTells \/ CloseEnds \/ CloseTimesOut
  PROVE  StoreFits'
<1>1. Types /\ UNCHANGED <<thread, to, kept, runs, acked, req>>
  BY DEF CInv, Close, CloseCancels, CloseTells, CloseEnds, CloseTimesOut, store, answering, users
<1>2. (~Closing' => ~Closing) /\ (Closing => Closing' /\ closer'.on = closer.on)
  <2>1. CASE Close
    BY <2>1 DEF Close, Closing
  <2>2. CASE CloseCancels
    <3>1. CloserGo("tells") \/ CloserGo("waits")
      BY <2>2 DEF CloseCancels
    <3>2. QED
      BY <1>1, <3>1, CloserGoIs DEF Closing
  <2>3. CASE CloseTells \/ CloseEnds
    BY <1>1, <2>3, CloserGoIs DEF CloseTells, CloseEnds, Closing
  <2>4. CASE CloseTimesOut
    <3> DEFINE parts == run[closer.on].parts
    <3>1. closer' = [closer EXCEPT !.at = "saves", !.seen = parts] /\ closer \in Closers
      BY <1>1, <2>4 DEF CloseTimesOut, Types
    <3> HIDE DEF parts
    <3>2. closer'.at = "saves" /\ closer'.on = closer.on
      BY <3>1 DEF Closers
    <3>3. QED
      BY <3>2 DEF Closing
  <2>5. QED
    BY <2>1, <2>2, <2>3, <2>4
<1>3. \A a \in Answers : /\ run'[a].at = run[a].at /\ run'[a].parts = run[a].parts
                         /\ run'[a].saved = run[a].saved /\ run'[a].state = run[a].state
                         /\ run[a].kill => run'[a].kill
                         /\ GivenUp(a) => GivenUp(a)'
  <2> TAKE a \in Answers
  <2>1. run[a] \in RunSet
    BY <1>1 DEF Types
  <2>2. run'[a] = run[a] \/ run'[a] = [run[a] EXCEPT !.closing = TRUE, !.stopping = TRUE]
    BY DEF Close, CloseCancels, CloseTells, CloseEnds, CloseTimesOut, answering
  <2>3. QED
    BY <2>1, <2>2, MarkIs DEF GivenUp
<1>4. \A a \in Answers : Same(a)
  BY <1>1, <1>2, <1>3 DEF Same, Shown, ByClose
<1>5. NoNewChange
  BY <1>1 DEF NoNewChange
<1>6. QED
  BY <1>4, <1>5, NobodyMoves

\* What a close saves is interrupted, whatever was read of the row before.
LEMMA CloseSavesStore == ASSUME CInv, ClosesRun, StoreFits, CloseSaves PROVE StoreFits'
<1>0. PICK a \in Answers : a = closer.on
  BY DEF ClosesRun, CloseSaves
<1> DEFINE row == [state |-> "interrupted", parts |-> closer.seen]
<1>1. /\ Types /\ closer.at = "saves" /\ kept' = Stored(a, row)
      /\ run' = [run EXCEPT ![a].kill = @ \/ run[a].at # "ended"]
      /\ closer' = [closer EXCEPT !.at = "killed", !.seen = {}]
      /\ UNCHANGED <<thread, to, runs, req, acked>>
  BY <1>0 DEF CInv, CloseSaves, users
<1>2. row \in Rows /\ row.state = "interrupted"
  BY <1>1, Constants DEF ClosesRun, Rows, Types, Closers, Ended
<1>3. closer'.at = "killed" /\ closer'.on = closer.on /\ Closing' /\ Closing /\ ByClose(a)'
  BY <1>0, <1>1 DEF Types, Closers, Closing, ByClose
<1> HIDE DEF row
<1>4. /\ \A b \in Answers \ {a} : kept'[b] = kept[b] /\ run'[b] = run[b]
      /\ a \in Shown => kept'[a] = row
      /\ a \notin Shown => kept' = kept
  <2>1. a \notin Shown => kept' = kept
    BY <1>1 DEF Stored
  <2>2. QED
    BY <1>1, <1>2, <2>1, StoredIs
<1>5. /\ run'[a].at = run[a].at /\ run'[a].parts = run[a].parts /\ run'[a].saved = run[a].saved
      /\ run'[a].state = run[a].state /\ (run[a].kill => run'[a].kill)
  <2> DEFINE kill == run[a].kill \/ run[a].at # "ended"
  <2>1. kill \in BOOLEAN /\ run[a] \in RunSet /\ run'[a] = [run[a] EXCEPT !.kill = kill] /\ (run[a].kill => kill)
    BY <1>1, <1>2 DEF Types
  <2> HIDE DEF kill
  <2>2. QED
    BY <2>1 DEF RunSet
<1>6. \A b \in Answers \ {a} : Same(b)
  BY <1>1, <1>3, <1>4 DEF Same, Shown, ByClose, GivenUp
<1>7. \A b \in Answers : KeptFits(b)'
  <2>1. ASSUME NEW b \in Answers, b # a PROVE KeptFits(b)'
    BY <1>6, <2>1, KeptStays DEF StoreFits
  <2>2. KeptFits(a)'
    <3>1. KeptFits(a)
      BY <1>2 DEF StoreFits
    <3>2. to'[a] = None => kept'[a] = NoRow
      BY <1>1, <1>4, <3>1 DEF KeptFits, CInv, StreamFits
    <3>3. a \in Shown' => RowFits(a)'
      BY <1>1, <1>2, <1>3, <1>4 DEF RowFits, Shown
    <3>4. QED
      BY <1>1, <1>3, <1>5, <3>1, <3>2, <3>3 DEF KeptFits
  <2>3. QED
    BY <2>1, <2>2
<1>8. NoNewChange
  BY <1>1 DEF NoNewChange
<1>9. ASSUME NEW d \in Requests PROVE PendingFits(d)'
  <2>1. CASE req[d].on = a
    BY <1>1, <1>2, <1>3, <1>4, <2>1 DEF StoreFits, PendingFits, Shown
  <2>2. CASE req[d].on # a
    <3>1. req'[d].at = "changes" => Same(req[d].on)
      BY <1>1, <1>6, <2>2, ChangedIs
    <3>2. QED
      BY <1>8, <3>1, PendingStays DEF StoreFits
  <2>3. QED
    BY <2>1, <2>2
<1>10. QED
  BY <1>7, <1>9 DEF StoreFits

\* What is stored at a restart is what counts from then on.
LEMMA RestartStore == ASSUME CInv, StoreFits, Restart PROVE StoreFits'
<1>1. Types /\ UNCHANGED <<thread, to>> /\ runs' = None /\ Shown' = Shown
  BY DEF CInv, Restart, Shown
<1>2. /\ run' = [a \in Answers |-> IF to[a] = None THEN NoRun ELSE [NoRun EXCEPT !.at = "ended"]]
      /\ req' = [c \in Requests |-> NoRequest]
      /\ acked' = [a \in Answers |-> kept[a].parts]
      /\ kept' = [a \in Answers |-> IF a \in Shown /\ kept[a].state = "streaming"
                                    THEN [kept[a] EXCEPT !.state = "interrupted"] ELSE kept[a]]
  BY DEF Restart, Recovered
<1>3. \A c \in Requests : PendingFits(c)'
  BY <1>2 DEF PendingFits, NoRequest
<1>4. ASSUME NEW a \in Answers PROVE KeptFits(a)'
  <2>1. run'[a].at = IF to[a] = None THEN "none" ELSE "ended"
    BY <1>2 DEF NoRun
  <2>2. a # runs' /\ acked'[a] = kept[a].parts
    BY <1>1, <1>2, NoneIsNone
  <2>3. kept'[a].parts = kept[a].parts /\ (to[a] = None => kept'[a] = NoRow /\ acked'[a] = {})
    <3>1. to[a] = None => a \notin Shown /\ kept[a] = NoRow
      BY DEF StoreFits, KeptFits, CInv, StreamFits
    <3>2. NoRow.parts = {}
      BY DEF NoRow
    <3>3. [kept[a] EXCEPT !.state = "interrupted"].parts = kept[a].parts
      BY <1>1 DEF Types, Rows
    <3>4. kept'[a] = kept[a] \/ (a \in Shown /\ kept'[a] = [kept[a] EXCEPT !.state = "interrupted"])
      BY <1>2
    <3>5. QED
      BY <2>2, <3>1, <3>2, <3>3, <3>4
  <2>4. a \in Shown => to[a] # None
    BY DEF CInv, StreamFits
  <2>5. a \in Shown' => RowFits(a)'
    BY <1>1, <2>1, <2>2, <2>3, <2>4 DEF RowFits, BeforeSave
  <2>6. QED
    BY <1>1, <2>1, <2>2, <2>3, <2>5 DEF KeptFits, Works
<1>5. QED
  BY <1>3, <1>4 DEF StoreFits

LEMMA StoreStep == ASSUME CInv, ClosesRun, StoreFits, [Next]_vars PROVE StoreFits'
<1>1. ASSUME NEW c \in Requests,
             \/ Send(c) \/ Stop(c) \/ Delete(c)
             \/ Sending(c) \/ Answering(c) \/ Stopping(c) \/ PartChanged(c)
      PROVE  StoreFits'
  BY <1>1, SendingStore, InsertStore, StartStore, AnsweringStore, StoppingStore, PartChangedStore DEF Sending
<1>2. ASSUME NEW c \in Requests, NEW a \in Answers,
             \/ Pick(c, a) \/ ChangePart(c, a)
             \/ \E kind \in {"regenerate", "resume", "edit"} : AskAgain(c, kind, a)
      PROVE  StoreFits'
  BY <1>2, AskingStore, ChangePartStore
<1>3. ASSUME NEW a \in Answers, TurnEnds(a) \/ Finishing(a) \/ AgentAsks(a) \/ Checkpoint(a)
      PROVE  StoreFits'
  BY <1>3, FinishStore, FinishLogsStore, FinishSavesStore, FinishEndsStore, KilledStore, CheckpointStore, AgentStore
     DEF Finishing
<1>4. CASE Close \/ CloseGoesOn \/ Restart
  BY <1>4, CloseStore, CloseSavesStore, RestartStore DEF CloseGoesOn
<1>5. CASE UNCHANGED vars
  <2>1. UNCHANGED <<thread, to, kept, runs, run, acked, req, closer>>
    BY <1>5 DEF vars, store, answering, users
  <2>2. NoNewChange /\ \A b \in Answers : Same(b)
    BY <2>1 DEF NoNewChange, Same, Shown, Closing, ByClose, GivenUp
  <2>3. QED
    BY <2>2, NobodyMoves
<1>6. QED
  BY <1>1, <1>2, <1>3, <1>4, <1>5 DEF Next

LEMMA InitStore == Init => StoreFits
<1> SUFFICES ASSUME Init PROVE StoreFits
  OBVIOUS
<1>1. /\ \A a \in Answers : run[a].at = "none" /\ to[a] = None /\ kept[a] = NoRow /\ acked[a] = {}
      /\ \A c \in Requests : req[c].at = "idle"
      /\ Shown = {} /\ runs = None
  BY DEF Init, NoRun, NoRequest, Shown
<1>2. QED
  BY <1>1 DEF StoreFits, KeptFits, PendingFits, Works

\* The inductive invariant of what is stored: the row against the run, the close and the changes
\* that wait for their write; of an answer given up the told parts are left out.
THEOREM StoreInvariant == Spec => []StoreFits
<1>1. Init => CInv /\ ClosesRun /\ StoreFits
  BY InitCInv, InitStore DEF Init, ClosesRun, CloserOpen
<1>2. CInv /\ ClosesRun /\ StoreFits /\ [Next]_vars => (CInv /\ ClosesRun /\ StoreFits)'
  BY StepKeeps, StoreStep
<1>3. QED
  BY <1>1, <1>2, PTL DEF Spec

\* A change that a request was told of is in what is stored once the run is over (add_part and
\* update_part against _finish, a checkpoint and other changes), unless SKAZ closes or the answer
\* is given up.
THEOREM ToldIsKept == Spec => []ChangesAreKept
<1>1. CInv /\ StoreFits => ChangesAreKept
  <2> SUFFICES ASSUME CInv, StoreFits, ~Closing, NEW a \in Shown, runs # a, ~GivenUp(a)
               PROVE  acked[a] \subseteq kept[a].parts
    BY DEF ChangesAreKept
  <2>1. a \in Answers
    BY DEF Shown, CInv, Types
  <2>2. RowFits(a)
    BY <2>1 DEF StoreFits, KeptFits
  <2>3. QED
    BY <2>2 DEF RowFits, GivenUp
<1>2. QED
  BY <1>1, ChatInvariant, StoreInvariant, PTL

-----------------------------------------------------------------------------
(* The stored answers behave as ChatThread says *)

Held == [a \in Answers |-> IF a \in Shown THEN kept[a].state ELSE "absent"]
ThreadStep == Thread!Next \/ Held' = Held

\* One row is written: the answer ends, is written once more, or goes on from "interrupted".
LEMMA WriteIsStep ==
  ASSUME Types, NEW a \in Answers, NEW row \in Rows, kept' = Stored(a, row), thread' = thread,
         a \in Shown => \/ kept[a].state = row.state
                        \/ kept[a].state = "interrupted" /\ ByClose(a)
                        \/ kept[a].state = "streaming" /\ row.state \in Ended
  PROVE  ThreadStep
<1>1. Shown' = Shown /\ Held \in [Answers -> States \cup {"absent"}]
  <2>1. \A b \in Answers : kept[b].state \in States
    BY DEF Types, Rows
  <2>2. QED
    BY <2>1 DEF Shown, Held
<1>2. CASE a \notin Shown
  <2>1. kept' = kept
    BY <1>2 DEF Stored
  <2>2. QED
    BY <1>1, <2>1 DEF ThreadStep, Held
<1>3. CASE a \in Shown
  <2>1. Held' = [Held EXCEPT ![a] = row.state] /\ Held[a] = kept[a].state
    <3>1. Shown' = Shown /\ \A b \in Answers : kept'[b].state = IF b = a THEN row.state ELSE kept[b].state
      BY <1>1, <1>3, StoredIs
    <3>2. QED
      BY <1>3, <3>1 DEF Held
  <2>2. CASE kept[a].state = row.state
    BY <1>1, <2>1, <2>2 DEF ThreadStep
  <2>3. CASE kept[a].state = "interrupted" /\ ByClose(a) /\ row.state \in Ended \cup {"streaming"}
    <3>1. Thread!Settle(a)
      BY <2>1, <2>3 DEF Thread!Settle, Thread!Ended, Ended, Held, ByClose
    <3>2. QED
      BY <3>1 DEF ThreadStep, Thread!Next
  <2>4. CASE kept[a].state = "streaming" /\ row.state \in Ended
    <3>1. Thread!End(a)
      BY <2>1, <2>4 DEF Thread!End, Thread!Ended, Ended, Held
    <3>2. QED
      BY <3>1 DEF ThreadStep, Thread!Next
  <2>5. row.state \in Ended \cup {"streaming"}
    BY DEF Rows, States
  <2>6. QED
    BY <1>3, <2>2, <2>3, <2>4, <2>5
<1>4. QED
  BY <1>2, <1>3

LEMMA RunWrites ==
  ASSUME CInv, StoreFits, NEW a \in Answers, FinishSaves(a) \/ KilledInSave(a) \/ Checkpoint(a)
  PROVE  ThreadStep
<1>1. Types /\ run[a] \in RunSet /\ thread' = thread
  BY DEF CInv, Types, FinishSaves, KilledInSave, Checkpoint
<1>2. CASE run[a].at = "saves" /\ kept' = Stored(a, [state |-> run[a].state, parts |-> run[a].saved])
  <2> DEFINE row == [state |-> run[a].state, parts |-> run[a].saved]
  <2>1. row \in Rows /\ row.state = run[a].state /\ run[a].state \in Ended /\ kept' = Stored(a, row)
    BY <1>1, <1>2 DEF RunSet, Rows, CInv, StreamFits, Working
  <2> HIDE DEF row
  <2>2. a \in Shown => kept[a].state \in {"streaming", run[a].state} \/ (kept[a].state = "interrupted" /\ ByClose(a))
    BY <1>2 DEF StoreFits, KeptFits, RowFits
  <2>3. QED
    BY <1>1, <2>1, <2>2, WriteIsStep
<1>3. CASE kept' = kept
  BY <1>1, <1>3 DEF ThreadStep, Held, Shown
<1>4. CASE Checkpoint(a)
  <2> DEFINE row == [state |-> "streaming", parts |-> run[a].parts]
  <2>1. row \in Rows /\ row.state = "streaming" /\ kept' = Stored(a, row) /\ run[a].at = "turn"
    BY <1>1, <1>4, Constants DEF RunSet, Rows, Checkpoint
  <2> HIDE DEF row
  <2>2. a \in Shown => kept[a].state = "streaming" \/ (kept[a].state = "interrupted" /\ ByClose(a))
    BY <2>1 DEF StoreFits, KeptFits, RowFits, BeforeSave
  <2>3. QED
    BY <1>1, <2>1, <2>2, WriteIsStep
<1>5. QED
  BY <1>2, <1>3, <1>4 DEF FinishSaves, KilledInSave

LEMMA PartWrites ==
  ASSUME CInv, StoreFits, NEW c \in Requests, PartChanged(c)
  PROVE  ThreadStep
<1> DEFINE row == [req[c].seen EXCEPT !.parts = @ \cup {c}]
<1>0. PICK a \in Answers : a = req[c].on
  BY ChangedIs DEF PartChanged
<1>1. Types /\ req[c].at = "changes" /\ kept' = Stored(a, row) /\ thread' = thread
  BY <1>0 DEF CInv, PartChanged
<1>2. row \in Rows /\ row.state = req[c].seen.state
  <2>1. req[c].seen \in Rows
    BY <1>1 DEF Types, ReqSet
  <2>2. req[c].seen.parts \cup {c} \in SUBSET Requests
    BY <2>1 DEF Rows
  <2>3. QED
    BY <2>1, <2>2 DEF Rows
<1> HIDE DEF row
<1>3. a \in Shown => kept[a].state = row.state \/ (kept[a].state = "interrupted" /\ ByClose(a))
  BY <1>0, <1>1, <1>2 DEF StoreFits, PendingFits
<1>4. QED
  BY <1>1, <1>2, <1>3, WriteIsStep

\* A close that saves, and the next start.
LEMMA Interrupts ==
  ASSUME CInv, ClosesRun, CloseSaves \/ Restart
  PROVE  ThreadStep
<1>1. Types /\ thread' = thread /\ Shown' = Shown /\ Shown \subseteq Answers
  BY DEF CInv, Types, CloseSaves, Restart, Shown
<1>2. \A a \in Shown : kept[a].state # "absent"
  <2>1. \A a \in Shown : kept[a].state \in States
    BY <1>1 DEF Types, Rows
  <2>2. "absent" \notin States
    BY DEF States, Ended
  <2>3. QED
    BY <2>1, <2>2
<1>3. ASSUME NEW A \in SUBSET Shown, \A a \in A : kept[a].state = "streaming" \/ ByClose(a),
             \A a \in Answers : kept'[a].state = IF a \in A THEN "interrupted" ELSE kept[a].state
      PROVE  ThreadStep
  <2>1. Held' = [a \in Answers |-> IF a \in A THEN "interrupted" ELSE Held[a]]
    BY <1>1, <1>3 DEF Held
  <2>2. \A a \in A : Held[a] = "streaming" \/ (ByClose(a) /\ a \in Answers /\ Held[a] # "absent")
    BY <1>1, <1>2, <1>3 DEF Held
  <2>3. Thread!Interrupt(A)
    BY <2>1, <2>2 DEF Thread!Interrupt, Held, ByClose
  <2>4. A \in SUBSET Answers
    BY <1>1
  <2>5. QED
    BY <2>3, <2>4 DEF ThreadStep, Thread!Next
<1>4. CASE CloseSaves
  <2> DEFINE row == [state |-> "interrupted", parts |-> closer.seen]
  <2>1. closer.on \in Answers /\ row \in Rows /\ row.state = "interrupted" /\ kept' = Stored(closer.on, row)
    BY <1>1, <1>4, Constants DEF ClosesRun, CloseSaves, Rows, Types, Closers, Ended
  <2> HIDE DEF row
  <2>2. CASE closer.on \in Shown
    <3>1. {closer.on} \in SUBSET Shown
      BY <2>2
    <3>2. \A a \in Answers : kept'[a].state = IF a \in {closer.on} THEN "interrupted" ELSE kept[a].state
      BY <1>1, <2>1, <2>2, StoredIs
    <3>3. ByClose(closer.on)
      BY <1>4 DEF ByClose, Closing, CloseSaves
    <3>4. QED
      BY <1>3, <3>1, <3>2, <3>3
  <2>3. CASE closer.on \notin Shown
    <3>1. kept' = kept
      BY <2>1, <2>3 DEF Stored
    <3>2. QED
      BY <1>1, <3>1 DEF ThreadStep, Held
  <2>4. QED
    BY <2>2, <2>3
<1>5. CASE Restart
  <2> DEFINE A == {a \in Shown : kept[a].state = "streaming"}
  <2>1. kept' = [a \in Answers |-> IF a \in Shown /\ kept[a].state = "streaming"
                                   THEN [kept[a] EXCEPT !.state = "interrupted"] ELSE kept[a]]
    BY <1>5 DEF Restart, Recovered
  <2>2. \A a \in Answers : [kept[a] EXCEPT !.state = "interrupted"].state = "interrupted"
    BY <1>1 DEF Types, Rows
  <2>3. \A a \in Answers : kept'[a].state = IF a \in A THEN "interrupted" ELSE kept[a].state
    BY <2>1, <2>2
  <2>4. A \in SUBSET Shown /\ \A a \in A : kept[a].state = "streaming"
    OBVIOUS
  <2> HIDE DEF A
  <2>5. QED
    BY <1>3, <2>3, <2>4
<1>6. QED
  BY <1>4, <1>5

\* Nothing of the chat is being written when a new answer is stored.
LEMMA InsertAsks ==
  ASSUME CInv, StoreFits, NEW c \in Requests, Insert(c)
  PROVE  ThreadStep
<1> DEFINE doomed == {a \in Answers : GivenUp(a)}
<1>1. PICK n \in Answers :
        /\ to[n] = None /\ n \notin Shown /\ n \in Shown' /\ Shown' \subseteq Shown \cup {n}
  BY InsertIs
<1>2. runs = None /\ kept' = kept /\ \A d \in Requests : req[d].at # "inserted"
  BY InsertIs
<1>3. /\ Shown \subseteq Answers
      /\ \A b \in Shown : kept[b].state \in States
      /\ \A b \in Shown : kept[b].state = "streaming" => b \in doomed
  <2>1. Shown \subseteq Answers
    BY DEF CInv, Types, Shown
  <2>2. \A b \in Shown : kept[b].state \in States
    BY <2>1 DEF CInv, Types, Rows
  <2>3. \A b \in Shown : b # None
    BY <2>1, NoneIsNone
  <2>4. \A b \in Shown : kept[b].state = "streaming" => b \in doomed
    BY <1>2, <2>1, <2>3 DEF CInv, StreamFits, StreamingIsAnswering
  <2>5. QED
    BY <2>1, <2>2, <2>4
<1>4. kept[n].state = "streaming"
  BY <1>1 DEF StoreFits, KeptFits, NoRow
<1>5. PICK gone \in SUBSET Answers : gone = Shown \ Shown'
  BY <1>3
<1>6. /\ Held[n] = "absent"
      /\ \A b \in Answers : Held[b] = "streaming" => b \in doomed
      /\ \A b \in gone : Held[b] \in Ended \/ b \in doomed
  BY <1>1, <1>3, <1>5 DEF Held, States
<1>7. Held' = [b \in Answers |-> IF b = n THEN "streaming" ELSE
                                 IF b \in gone THEN "absent" ELSE Held[b]]
  <2>1. Held' = [b \in Answers |-> IF b \in Shown' THEN kept[b].state ELSE "absent"]
    BY <1>2 DEF Held
  <2>2. \A b \in Answers : Held[b] = IF b \in Shown THEN kept[b].state ELSE "absent"
    BY DEF Held
  <2>3. QED
    BY <1>1, <1>4, <1>5, <2>1, <2>2
<1>8. Thread!Ask(n, gone)
  BY <1>6, <1>7 DEF Thread!Ask, Thread!Ended, Ended, Held
<1>9. QED
  BY <1>8 DEF ThreadStep, Thread!Next

LEMMA RemoveDeletes ==
  ASSUME NEW c \in Requests, Remove(c)
  PROVE  ThreadStep
<1>1. Shown' = {}
  BY DEF Remove, Shown
<1>2. Thread!Delete
  BY <1>1 DEF Thread!Delete
<1>3. QED
  BY <1>2 DEF ThreadStep, Thread!Next

LEMMA ThreadSteps == ASSUME CInv, ClosesRun, StoreFits, [Next]_vars PROVE ThreadStep
<1>1. CASE kept' = kept /\ thread' = thread
  BY <1>1 DEF ThreadStep, Held, Shown
<1>2. ASSUME NEW c \in Requests,
             \/ Send(c) \/ Stop(c) \/ Delete(c) \/ Looked(c) \/ Refused(c) \/ Start(c) \/ LateAnswered(c)
             \/ Answering(c) \/ StopCancels(c) \/ StopTells(c) \/ StopEnds(c) \/ StopTimesOut(c)
      PROVE  kept' = kept /\ thread' = thread
  BY <1>2 DEF Send, Stop, Delete, Looked, Refused, Start, LateAnswered, Answering, Words, SupersedeReads, Supersede,
              SupersedeTold, Picked, PickTold, PickFails, StopCancels, StopTells, StopEnds, StopTimesOut, store
<1>3. ASSUME NEW c \in Requests, NEW a \in Answers,
             \/ Pick(c, a) \/ ChangePart(c, a)
             \/ \E kind \in {"regenerate", "resume", "edit"} : AskAgain(c, kind, a)
      PROVE  kept' = kept /\ thread' = thread
  BY <1>3 DEF Pick, ChangePart, AskAgain, store
<1>4. ASSUME NEW a \in Answers,
             \/ TurnEnds(a) \/ AgentAsks(a) \/ FinishCancels(a) \/ FinishTells(a) \/ FinishLogs(a)
             \/ FinishReads(a) \/ FinishEnds(a) \/ SaveFails(a)
             \/ KilledInTurn(a) \/ KilledInFinish(a) \/ KilledInReads(a)
      PROVE  kept' = kept /\ thread' = thread
  BY <1>4 DEF TurnEnds, AgentAsks, Ask, AskAdded, AskDropped, FinishCancels, FinishTells, FinishLogs, FinishReads,
              FinishEnds, SaveFails, KilledInTurn, KilledInFinish, KilledInReads, store
<1>5. CASE Close \/ CloseCancels \/ CloseTells \/ CloseEnds \/ CloseTimesOut \/ UNCHANGED vars
  BY <1>1, <1>5 DEF Close, CloseCancels, CloseTells, CloseEnds, CloseTimesOut, vars, store
<1>6. ASSUME NEW c \in Requests,
             \/ Send(c) \/ Stop(c) \/ Delete(c)
             \/ Sending(c) \/ Answering(c) \/ Stopping(c) \/ PartChanged(c)
      PROVE  ThreadStep
  BY <1>1, <1>2, <1>6, InsertAsks, RemoveDeletes, PartWrites DEF Sending, Stopping
<1>7. ASSUME NEW a \in Answers, TurnEnds(a) \/ Finishing(a) \/ AgentAsks(a) \/ Checkpoint(a)
      PROVE  ThreadStep
  BY <1>1, <1>4, <1>7, RunWrites DEF Finishing
<1>8. QED
  BY <1>1, <1>3, <1>5, <1>6, <1>7, Interrupts DEF Next, CloseGoesOn

\* The stored answers keep ChatThread's promise: but for answers given up one at a time streams;
\* an ended one changes only to make room or with the chat, and while SKAZ closes the one it
\* closes may become interrupted and what its own save makes of it.
THEOREM ThreadIsKept == Spec => ThreadKept
<1>1. Init => Thread!Init
  BY DEF Init, Thread!Init, Shown
<1>2. CInv /\ ClosesRun /\ StoreFits /\ [Next]_vars
      => [Thread!Next]_[a \in Answers |-> IF a \in Shown THEN kept[a].state ELSE "absent"]
  BY ThreadSteps DEF ThreadStep, Held
<1>3. QED
  BY <1>1, <1>2, ChatInvariant, StoreInvariant, PTL DEF Spec, ThreadKept, Thread!Spec
-----------------------------------------------------------------------------
(* What the agent hears *)

\* The run of this answer was cancelled on its way to telling the agent.
Lost(a) == run[a].at = "ended" /\ run[a].kill /\ asked[a] \in {"cancelled", "late"}
Waiting(a) == asked[a] = "pending" \/ AboutToTell(a) \/ Lost(a)

\* An agent that waits is told, and one that has dropped its call has no pending row.
WaitFits(a) ==
  /\ future[a] = "waits" => Waiting(a)
  /\ future[a] = "gone" => asked[a] # "pending"

\* An option that won its row is told once, and one that is sent as a message has none to win.
Sent(c) == req[c].kind = "late" \/ req[c].at = "late"
OptionFits(c, a) ==
  req[c].on = a =>
    /\ req[c].at = "picked" => future[a] # "option"
    /\ req[c].at = "failed" => future[a] = "gone"
    /\ Sent(c) => asked[a] \notin {"none", "pending"}
OnePicks ==
  \A c, d \in Requests : req[c].at = "picked" /\ req[d].at = "picked" /\ req[c].on = req[d].on
                         /\ req[c].on \in Answers => c = d

Told ==
  /\ \A a \in Answers : WaitFits(a)
  /\ \A c \in Requests, a \in Answers : OptionFits(c, a)
  /\ OnePicks
ToldFits == exists => Told

\* A step as one agent sees it: told, still waiting for the same, or gone as before.
Picking(a) == \E c \in Requests : req[c].at = "picked" /\ req[c].on = a
Dead(a) == run[a].at = "ended" /\ run[a].kill
Fares(a) ==
  /\ future'[a] = "waits" =>
       \/ Waiting(a)'
       \/ /\ future[a] = "waits"
          /\ asked[a] = "pending" => asked'[a] = "pending"
          /\ AboutToTell(a) => AboutToTell(a)'
          /\ Lost(a) => Lost(a)'
  /\ future[a] = "gone" => future'[a] = "gone"
  /\ future'[a] = "gone" /\ asked'[a] = "pending" => future[a] = "gone" /\ asked[a] = "pending"
  /\ future'[a] = "option" => future[a] = "option" \/ ~Picking(a)'

\* What a request takes with it of an option, when it goes on.
SameOption(c) ==
  /\ req'[c].at \notin {"picked", "failed"}
  /\ Sent(c)' => Sent(c) /\ req'[c].on = req[c].on

LEMMA ToldKept ==
  ASSUME CInv, exists, Told, Moved, \A a \in Answers : Fares(a),
         \A c \in Requests : \/ req'[c] = req[c] \/ SameOption(c)
                             \/ \A a \in Answers : OptionFits(c, a)',
         \A c \in Requests : req'[c].at = "picked" => req'[c] = req[c] \/ asked[req'[c].on] = "pending",
         \A c, d \in Requests : req'[c] # req[c] /\ req'[d] # req[d] => c = d
  PROVE  Told'
<1>1. ASSUME NEW a \in Answers PROVE WaitFits(a)'
  <2>1. WaitFits(a) /\ Fares(a)
    BY DEF Told
  <2>2. future'[a] = "waits" => Waiting(a)'
    BY <2>1 DEF WaitFits, Fares, Waiting
  <2>3. QED
    BY <2>1, <2>2 DEF WaitFits, Fares
<1>2. ASSUME NEW c \in Requests, NEW a \in Answers PROVE OptionFits(c, a)'
  <2>1. OptionFits(c, a) /\ Fares(a)
    BY DEF Told
  <2>2. asked[a] \notin {"none", "pending"} => asked'[a] \notin {"none", "pending"}
    BY DEF Moved
  <2>3. CASE req'[c] = req[c]
    <3>1. req'[c].at = "picked" /\ req'[c].on = a => future'[a] # "option"
      BY <2>1, <2>3 DEF OptionFits, Fares, Picking
    <3>2. QED
      BY <2>1, <2>2, <2>3, <3>1 DEF OptionFits, Sent, Fares
  <2>4. CASE SameOption(c)
    BY <2>1, <2>2, <2>4 DEF SameOption, OptionFits
  <2>5. QED
    BY <2>3, <2>4
<1>3. OnePicks'
  <2>1. ASSUME NEW c \in Requests, NEW d \in Requests, req'[c].at = "picked", req'[d].at = "picked",
               req'[c].on = req'[d].on, req'[c].on \in Answers, req'[c] = req[c]
        PROVE  c = d
    <3>1. Says(req[c].on, "option")
      BY <2>1 DEF CInv, HearFits, Tells, Replies
    <3>2. req'[d] = req[d]
      BY <2>1, <3>1 DEF Says
    <3>3. QED
      BY <2>1, <3>2 DEF Told, OnePicks
  <2>2. QED
    BY <2>1 DEF OnePicks
<1>4. QED
  BY <1>1, <1>2, <1>3 DEF Told

\* One request goes on.
LEMMA RequestTold ==
  ASSUME CInv, exists, Told, Moved, \A a \in Answers : Fares(a), NEW c \in Requests, Others(c),
         SameOption(c) \/ \A a \in Answers : OptionFits(c, a)',
         req'[c].at = "picked" => asked[req'[c].on] = "pending"
  PROVE  Told'
<1>1. \A d \in Requests : d = c \/ req'[d] = req[d]
  BY DEF Others
<1>2. QED
  BY <1>1, ToldKept

LEMMA NobodyTold ==
  ASSUME CInv, exists, Told, Moved, \A a \in Answers : Fares(a), req' = req
  PROVE  Told'
  BY ToldKept

-----------------------------------------------------------------------------
(* Who stays about to tell *)

LEMMA TellersStay ==
  ASSUME NEW a \in Answers, \A c \in Requests : Telling(c, a) => Telling(c, a)',
         run[a].at = "tells" => run'[a].at = "tells",
         closer.at = "tells" /\ closer.on = a => closer'.at = "tells" /\ closer'.on = a
  PROVE  AboutToTell(a) => AboutToTell(a)'
  BY DEF AboutToTell

LEMMA OthersTell ==
  ASSUME NEW c \in Requests, Others(c), NEW a \in Answers, ~Telling(c, a)
  PROVE  \A d \in Requests : Telling(d, a) => Telling(d, a)'
  BY DEF Others, Telling

LEMMA UndisturbedFares ==
  ASSUME NEW a \in Answers, asked'[a] = asked[a], future'[a] = future[a],
         AboutToTell(a) => AboutToTell(a)', Dead(a) => Dead(a)'
  PROVE  Fares(a)
  BY DEF Fares, Lost, Dead

LEMMA RowIs ==
  ASSUME Types, NEW b, NEW status \in Statuses \ {"none", "pending"}, asked' = RowBecomes(b, status)
  PROVE  \A a \in Answers : asked'[a] = asked[a] \/ (a = b /\ asked[a] = "pending" /\ asked'[a] = status)
  BY DEF RowBecomes, Types

LEMMA ReplyIs ==
  ASSUME Types, NEW b, NEW reply, future' = Resolve(b, reply)
  PROVE  \A a \in Answers : \/ future'[a] = future[a] /\ (a # b \/ future[a] # "waits")
                            \/ a = b /\ future[a] = "waits" /\ future'[a] = reply
  BY DEF Resolve, Types

\* Somebody takes the row of b ...
LEMMA TakeFares ==
  ASSUME Types, NEW b, NEW status \in Statuses \ {"none", "pending"}, asked' = RowBecomes(b, status),
         future' = future, NEW a \in Answers, a = b /\ asked[a] = "pending" => AboutToTell(a)',
         AboutToTell(a) => AboutToTell(a)', Dead(a) => Dead(a)'
  PROVE  Fares(a)
<1>1. CASE asked'[a] = asked[a]
  BY <1>1, UndisturbedFares
<1>2. CASE asked'[a] # asked[a]
  <2>1. a = b /\ asked[a] = "pending" /\ asked'[a] # "pending"
    BY <1>2, RowIs
  <2>2. QED
    BY <2>1 DEF Fares, Waiting
<1>3. QED
  BY <1>1, <1>2

\* ... and tells its agent.
LEMMA TellFares ==
  ASSUME Types, NEW b, NEW reply \in Replies, future' = Resolve(b, reply), asked' = asked,
         NEW a \in Answers, a = b \/ (AboutToTell(a) => AboutToTell(a)'), Dead(a) => Dead(a)',
         a = b /\ reply = "option" => ~Picking(a)'
  PROVE  Fares(a)
<1>1. CASE a # b
  <2>1. future'[a] = future[a] /\ asked'[a] = asked[a]
    BY <1>1, ReplyIs
  <2>2. QED
    BY <1>1, <2>1, UndisturbedFares
<1>2. CASE a = b
  <2>1. \/ future'[a] = future[a] /\ future[a] # "waits"
        \/ future[a] = "waits" /\ future'[a] = reply
    BY <1>2, ReplyIs
  <2>2. QED
    BY <1>2, <2>1 DEF Fares, Replies
<1>3. QED
  BY <1>1, <1>2

\* A step of a request that no agent notices.
RunsOn ==
  \A a \in Answers : /\ run[a].at = "tells" => run'[a].at = "tells"
                     /\ Dead(a) => Dead(a)'

LEMMA QuietTold ==
  ASSUME CInv, exists, Told, NEW c \in Requests, Others(c), SameOption(c),
         req[c].at \notin {"picked", "closed", "stopTells"},
         UNCHANGED <<asked, future, closer>>, RunsOn
  PROVE  Told'
<1>1. ASSUME NEW a \in Answers PROVE Fares(a)
  <2>1. ~Telling(c, a)
    BY DEF Telling
  <2>2. \A d \in Requests : Telling(d, a) => Telling(d, a)'
    BY <2>1, OthersTell
  <2>3. asked'[a] = asked[a] /\ future'[a] = future[a] /\ closer' = closer
    OBVIOUS
  <2>4. (run[a].at = "tells" => run'[a].at = "tells") /\ (Dead(a) => Dead(a)')
    BY Zenon DEF RunsOn
  <2>5. AboutToTell(a) => AboutToTell(a)'
    BY <2>2, <2>3, <2>4, TellersStay
  <2>6. QED
    BY <2>3, <2>4, <2>5, UndisturbedFares
<1>2. Moved
  BY DEF Moved
<1>3. QED
  BY <1>1, <1>2, RequestTold DEF SameOption

\* A step of the run of an answer that is not telling.
LEMMA RunTold ==
  ASSUME CInv, exists, Told, NEW a \in Answers, run[a].at \notin {"tells", "ended"},
         \A b \in Answers \ {a} : run'[b] = run[b], UNCHANGED <<asked, future, closer, req>>
  PROVE  Told'
<1>1. ASSUME NEW b \in Answers PROVE Fares(b)
  <2>1. Dead(b) => Dead(b)'
    BY DEF Dead
  <2>2. AboutToTell(b) => AboutToTell(b)'
    BY DEF AboutToTell, Telling
  <2>3. QED
    BY <2>1, <2>2, UndisturbedFares
<1>2. Moved
  BY DEF Moved
<1>3. QED
  BY <1>1, <1>2, NobodyTold

-----------------------------------------------------------------------------
(* Steps of requests that no agent notices *)

LEMMA RunStays == ASSUME run' = run PROVE RunsOn
  BY DEF RunsOn, Dead

\* What a request is now, and whether it is to be sent as a message.
LEMMA SameIs ==
  ASSUME NEW c \in Requests, req'[c].at \notin {"picked", "failed", "late"},
         req'[c].kind # "late" \/ (req'[c].kind = req[c].kind /\ req'[c].on = req[c].on)
  PROVE  SameOption(c)
  BY DEF SameOption, Sent

LEMMA SentOn ==
  ASSUME NEW c \in Requests, req'[c].at \notin {"picked", "failed"},
         \/ req'[c].at = "idle" /\ req'[c].kind = "none"
         \/ req[c].kind = "late" /\ req'[c].kind = "late" /\ req'[c].on = req[c].on
  PROVE  SameOption(c)
  BY DEF SameOption, Sent

LEMMA OverSame == ASSUME Types, NEW c \in Requests, Over(c) PROVE Others(c) /\ SameOption(c)
  BY OverIs, SentOn

LEMMA GoSame ==
  ASSUME Types, NEW c \in Requests, NEW place \in ReqAts \ {"picked", "failed", "late"}, Go(c, place)
  PROVE  Others(c) /\ SameOption(c)
  BY GoIs, SameIs

\* A send that is none of an option.
LEMMA SendSame ==
  ASSUME Types, NEW c \in Requests, NEW kind \in Kinds, NEW a \in Ids,
         Reserve(c, kind, a) \/ SendFrom(c, kind, a),
         kind # "late" \/ (req[c].kind = kind /\ req[c].on = a)
  PROVE  Others(c) /\ SameOption(c)
<1>1. /\ Others(c) /\ req'[c].at \in {"asking", "idle", "look"}
      /\ req'[c].kind = "none" \/ (req'[c].kind = kind /\ req'[c].on = a)
  <2>1. CASE Reserve(c, kind, a)
    BY <2>1, ReserveIs
  <2>2. CASE SendFrom(c, kind, a)
    BY <2>2, SendFromIs
  <2>3. QED
    BY <2>1, <2>2
<1>2. QED
  BY <1>1, SameIs

LEMMA SendsTold ==
  ASSUME CInv, exists, Told, NEW c \in Requests,
         Send(c) \/ Looked(c) \/ \E kind, a : a \in Answers /\ AskAgain(c, kind, a)
  PROVE  Told'
<1>1. Types
  BY DEF CInv
<1>2. CASE Send(c)
  <2>1. /\ "send" \in Kinds /\ None \in Ids /\ SendFrom(c, "send", None) /\ req[c].at = "idle"
        /\ UNCHANGED <<asked, future, closer>> /\ run' = run
    BY <1>2, Begins, NoneIsNone DEF Send, Kinds, question
  <2>2. Others(c) /\ SameOption(c)
    BY <1>1, <2>1, SendSame
  <2>3. QED
    BY <2>1, <2>2, RunStays, QuietTold
<1>3. CASE Looked(c)
  <2>1. /\ req[c].kind \in Kinds /\ req[c].on \in Ids /\ req[c].at = "look" /\ "words" \in ReqAts
        /\ UNCHANGED <<asked, future, closer>> /\ run' = run
    BY <1>1, <1>3 DEF Looked, question, Types, ReqSet, ReqAts
  <2>2. Others(c) /\ SameOption(c)
    <3>1. CASE WaitingIn
      BY <1>1, <1>3, <2>1, <3>1, GoSame DEF Looked
    <3>2. CASE ~WaitingIn
      BY <1>1, <1>3, <2>1, <3>2, SendSame DEF Looked
    <3>3. QED
      BY <3>1, <3>2
  <2>3. QED
    BY <2>1, <2>2, RunStays, QuietTold
<1>4. ASSUME NEW kind, NEW a \in Answers, AskAgain(c, kind, a) PROVE Told'
  <2>1. /\ kind \in Kinds \ {"late"} /\ a \in Ids /\ Reserve(c, kind, a) /\ req[c].at = "idle"
        /\ UNCHANGED <<asked, future, closer>> /\ run' = run
    BY <1>4, Begins DEF AskAgain, Kinds, Ids, question
  <2>2. Others(c) /\ SameOption(c)
    BY <1>1, <2>1, SendSame
  <2>3. QED
    BY <2>1, <2>2, RunStays, QuietTold
<1>5. QED
  BY <1>2, <1>3, <1>4

\* An option for a row that still waits has an agent that waits; another one is sent.
LEMMA PickTakesTold ==
  ASSUME CInv, exists, Told, NEW c \in Requests, NEW a \in Answers, Pick(c, a)
  PROVE  Told'
<1>1. /\ Types /\ req[c].at = "idle" /\ "late" \in Kinds /\ a \in Ids
      /\ UNCHANGED <<asked, future, closer>> /\ run' = run
  BY Begins DEF CInv, Pick, Kinds, Ids, question
<1>2. CASE asked[a] = "pending" /\ future[a] \in {"waits", "leaked"}
  <2> DEFINE picks == [NoRequest EXCEPT !.at = "pick", !.on = a]
  <2>1. req' = [req EXCEPT ![c] = picks]
    BY <1>2 DEF Pick
  <2>2. picks.at = "pick" /\ picks.kind = "none"
    BY DEF NoRequest
  <2> HIDE DEF picks
  <2>3. Others(c) /\ req'[c].at = "pick" /\ req'[c].kind = "none"
    BY <1>1, <2>1, <2>2 DEF Types, Others
  <2>4. SameOption(c)
    BY <2>3, SameIs
  <2>5. QED
    BY <1>1, <2>3, <2>4, RunStays, QuietTold
<1>3. CASE ~(asked[a] = "pending" /\ future[a] \in {"waits", "leaked"})
  <2>1. asked[a] \notin {"none", "pending"}
    <3>1. asked[a] # "none" /\ WaitFits(a) /\ future[a] \in Futures
      BY <1>1 DEF Pick, Told, Types
    <3>2. asked[a] = "pending" => future[a] \notin {"none", "adding", "option", "words", "stopped"}
      BY DEF CInv, HearFits, Says, Replies
    <3>3. QED
      BY <1>3, <3>1, <3>2 DEF WaitFits, Futures
  <2>2. SendFrom(c, "late", a)
    BY <1>3 DEF Pick
  <2>3. /\ Others(c)
        /\ \/ req'[c].at = "idle" /\ req'[c].kind = "none"
           \/ req'[c].at \in {"asking", "look"} /\ req'[c].on = a
    BY <1>1, <2>2, SendFromIs
  <2>4. \A b \in Answers : OptionFits(c, b)'
    BY <1>1, <2>1, <2>3 DEF OptionFits, Sent
  <2>5. ASSUME NEW b \in Answers PROVE Fares(b)
    <3>1. asked'[b] = asked[b] /\ future'[b] = future[b] /\ closer' = closer /\ run'[b] = run[b]
      BY <1>1
    <3>2. ~Telling(c, b)
      BY <1>1 DEF Telling
    <3>3. AboutToTell(b) => AboutToTell(b)'
      BY <2>3, <3>1, <3>2, OthersTell, TellersStay
    <3>4. Dead(b) => Dead(b)'
      BY <3>1 DEF Dead
    <3>5. QED
      BY <3>1, <3>3, <3>4, UndisturbedFares
  <2>6. Moved
    BY <1>1 DEF Moved
  <2>7. QED
    BY <2>3, <2>4, <2>5, <2>6, RequestTold
<1>4. QED
  BY <1>2, <1>3

LEMMA StartsTold ==
  ASSUME CInv, exists, Told, NEW c \in Requests, Refused(c) \/ Insert(c) \/ Start(c)
  PROVE  Told'
<1>1. Types
  BY DEF CInv
<1>2. CASE Refused(c)
  <2>1. Over(c) /\ req[c].at = "asking" /\ UNCHANGED <<asked, future, closer>> /\ run' = run
    BY <1>2 DEF Refused, question
  <2>2. QED
    BY <1>1, <2>1, OverSame, RunStays, QuietTold
<1>3. CASE Insert(c)
  <2>1. /\ req[c].at = "asking" /\ "inserted" \in ReqAts
        /\ UNCHANGED <<asked, future, closer>> /\ run' = run
    BY <1>3 DEF Insert, question, answering, ReqAts
  <2>2. PICK n \in Answers : req' = [req EXCEPT ![c].at = "inserted", ![c].list = {n}]
    BY <1>3 DEF Insert
  <2> DEFINE one == {n}
  <2>3. one \in SUBSET Answers /\ req' = [req EXCEPT ![c].at = "inserted", ![c].list = one]
    BY <2>2
  <2> HIDE DEF one
  <2>4. Others(c) /\ SameOption(c)
    <3>1. Others(c) /\ req'[c].at = "inserted" /\ req'[c].kind = req[c].kind /\ req'[c].on = req[c].on
      BY <1>1, <2>1, <2>3, ListIs
    <3>2. QED
      BY <3>1, SameIs
  <2>5. QED
    BY <2>1, <2>4, RunStays, QuietTold
<1>4. CASE Start(c)
  <2>1. /\ req[c].at = "inserted" /\ "late" \in ReqAts
        /\ UNCHANGED <<asked, future, closer>>
        /\ IF req[c].kind = "late" THEN Go(c, "late") ELSE Over(c)
    BY <1>4 DEF Start, question, ReqAts
  <2>2. PICK n \in Answers : run[n].at = "none" /\ run' = [run EXCEPT ![n].at = "turn"]
    <3>1. PICK n \in req[c].list : run' = [run EXCEPT ![n].at = "turn"]
      BY <1>4 DEF Start
    <3>2. n \in Answers /\ run[n].at = "none"
      BY <2>1, <3>1 DEF CInv, StreamFits
    <3>3. QED
      BY <3>1, <3>2
  <2>3. Others(c) /\ SameOption(c)
    <3>1. CASE req[c].kind = "late"
      BY <1>1, <2>1, <3>1, GoIs, SentOn
    <3>2. CASE req[c].kind # "late"
      BY <1>1, <2>1, <3>2, OverSame
    <3>3. QED
      BY <3>1, <3>2
  <2>4. RunsOn
    <3>1. \A b \in Answers : b = n \/ run'[b] = run[b]
      BY <2>2
    <3>2. QED
      BY <2>2, <3>1 DEF RunsOn, Dead
  <2>5. QED
    BY <2>1, <2>3, <2>4, QuietTold
<1>5. QED
  BY <1>2, <1>3, <1>4

LEMMA WordsTold ==
  ASSUME CInv, exists, Told, NEW c \in Requests, Words(c) \/ SupersedeReads(c) \/ PickFails(c)
  PROVE  Told'
<1>1. Types
  BY DEF CInv
<1>2. CASE Words(c)
  <2>1. /\ req[c].at = "words" /\ "closing" \in ReqAts
        /\ Go(c, "closing") \/ Over(c)
        /\ UNCHANGED <<asked, future, closer>> /\ run' = run
    BY <1>2 DEF Words, question, answering, ReqAts
  <2>2. QED
    BY <1>1, <2>1, OverSame, GoSame, RunStays, QuietTold
<1>3. CASE SupersedeReads(c)
  <2> DEFINE waiting == {a \in Answers : asked[a] = "pending"}
  <2>1. /\ req[c].at = "closing" /\ UNCHANGED <<asked, future, closer>> /\ run' = run
    BY <1>3 DEF SupersedeReads, question, answering
  <2>2. Others(c) /\ SameOption(c)
    <3>1. CASE waiting = {}
      BY <1>1, <1>3, <3>1, AfterWordsIs, SentOn DEF SupersedeReads
    <3>2. CASE waiting # {}
      <4>1. req' = [req EXCEPT ![c].at = "close", ![c].list = waiting] /\ "close" \in ReqAts
        BY <1>3, <3>2 DEF SupersedeReads, ReqAts
      <4>2. waiting \in SUBSET Answers
        OBVIOUS
      <4> HIDE DEF waiting
      <4>3. Others(c) /\ req'[c].at = "close" /\ req'[c].kind = req[c].kind /\ req'[c].on = req[c].on
        BY <1>1, <4>1, <4>2, ListIs
      <4>4. QED
        BY <4>3, SameIs
    <3>3. QED
      BY <3>1, <3>2
  <2>3. QED
    BY <2>1, <2>2, RunStays, QuietTold
<1>4. CASE PickFails(c)
  <2>1. Over(c) /\ req[c].at = "failed" /\ UNCHANGED <<asked, future, closer>> /\ run' = run
    BY <1>4 DEF PickFails, question, answering
  <2>2. QED
    BY <1>1, <2>1, OverSame, RunStays, QuietTold
<1>5. QED
  BY <1>2, <1>3, <1>4

LEMMA MarksOn ==
  ASSUME Types, NEW c \in Requests, Stop(c) \/ Delete(c) \/ Stopping(c) PROVE RunsOn
<1>1. ASSUME NEW a \in Answers
      PROVE  (run[a].at = "tells" => run'[a].at = "tells") /\ (Dead(a) => Dead(a)')
  BY StopMarks DEF Dead
<1>2. QED
  BY <1>1 DEF RunsOn

LEMMA StopsTold ==
  ASSUME CInv, exists, Told, NEW c \in Requests, Stop(c) \/ Delete(c) \/ StopEnds(c) \/ StopTimesOut(c)
  PROVE  Told'
<1>1. Types /\ RunsOn /\ UNCHANGED <<asked, future, closer>>
  BY MarksOn DEF CInv, Stopping, Stop, Delete, StopEnds, StopTimesOut, question
<1>2. CASE Stop(c)
  <2>1. "stop" \in Kinds /\ runs \in Ids /\ StopRun(c, "stop", runs) /\ req[c].at = "idle"
    BY <1>1, <1>2, Begins DEF Stop, Kinds, Types
  <2>2. Others(c) /\ SameOption(c)
    BY <1>1, <2>1, StopRunIs, SameIs
  <2>3. QED
    BY <1>1, <2>1, <2>2, QuietTold
<1>3. CASE Delete(c)
  <2>1. "delete" \in Kinds /\ runs \in Ids /\ req[c].at = "idle"
    BY <1>1, <1>3, Begins DEF Delete, Kinds, Types
  <2>2. Others(c) /\ SameOption(c)
    <3>1. CASE runs = None
      <4> DEFINE removes == [NoRequest EXCEPT !.at = "removes", !.kind = "delete"]
      <4>1. req' = [req EXCEPT ![c] = removes]
        BY <1>3, <3>1 DEF Delete
      <4>2. removes.at = "removes" /\ removes.kind = "delete"
        BY DEF NoRequest
      <4> HIDE DEF removes
      <4>3. Others(c) /\ req'[c].at = "removes" /\ req'[c].kind = "delete"
        BY <1>1, <4>1, <4>2 DEF Types, Others
      <4>4. QED
        BY <4>3, SameIs
    <3>2. CASE runs # None
      BY <1>1, <1>3, <2>1, <3>2, StopRunIs, SameIs DEF Delete
    <3>3. QED
      BY <3>1, <3>2
  <2>3. QED
    BY <1>1, <2>1, <2>2, QuietTold
<1>4. CASE StopEnds(c) \/ StopTimesOut(c)
  <2>1. /\ req[c].at \in {"waits", "gathers"} /\ {"removes", "gathers"} \subseteq ReqAts
        /\ Go(c, "removes") \/ Go(c, "gathers") \/ Over(c)
    BY <1>4 DEF StopEnds, StopTimesOut, ReqAts
  <2>2. Others(c) /\ SameOption(c)
    BY <1>1, <2>1, OverSame, GoSame
  <2>3. QED
    BY <1>1, <2>1, <2>2, QuietTold
<1>5. QED
  BY <1>2, <1>3, <1>4

LEMMA PartsTold ==
  ASSUME CInv, exists, Told, NEW c \in Requests, PartChanged(c) \/ \E a \in Answers : ChangePart(c, a)
  PROVE  Told'
<1>1. Types
  BY DEF CInv
<1>2. CASE PartChanged(c)
  <2>1. Over(c) /\ req[c].at = "changes" /\ UNCHANGED <<asked, future, closer>> /\ run' = run
    BY <1>2 DEF PartChanged, question, answering
  <2>2. QED
    BY <1>1, <2>1, OverSame, RunStays, QuietTold
<1>3. ASSUME NEW a \in Answers, ChangePart(c, a) PROVE Told'
  <2>1. req[c].at = "idle" /\ UNCHANGED <<asked, future, closer>>
    BY <1>3, Begins DEF ChangePart, question
  <2>2. CASE runs = a
    <3>1. run' = [run EXCEPT ![a].parts = @ \cup {c}] /\ req' = req
      BY <1>3, <2>2 DEF ChangePart
    <3>2. \A b \in Answers : run'[b].at = run[b].at /\ run'[b].kill = run[b].kill
      BY <1>1, <3>1 DEF Types, RunSet
    <3>3. RunsOn
      BY <3>2 DEF RunsOn, Dead
    <3>4. Others(c) /\ SameOption(c)
      BY <2>1, <3>1 DEF Others, SameOption, Sent
    <3>5. QED
      BY <2>1, <3>3, <3>4, QuietTold
  <2>3. CASE runs # a
    <3> DEFINE changes == [NoRequest EXCEPT !.at = "changes", !.on = a, !.seen = kept[a]]
    <3>1. req' = [req EXCEPT ![c] = changes] /\ run' = run
      BY <1>3, <2>3 DEF ChangePart
    <3>2. changes.at = "changes" /\ changes.kind = "none"
      BY DEF NoRequest
    <3> HIDE DEF changes
    <3>3. Others(c) /\ req'[c].at = "changes" /\ req'[c].kind = "none"
      BY <1>1, <3>1, <3>2 DEF Types, Others
    <3>4. QED
      BY <2>1, <3>1, <3>3, SameIs, RunStays, QuietTold
  <2>4. QED
    BY <2>2, <2>3
<1>4. QED
  BY <1>2, <1>3

-----------------------------------------------------------------------------
(* Steps of requests that take a row or tell an agent *)

\* A step of one request before which it tells nobody.
LEMMA StillTold ==
  ASSUME NEW c \in Requests, Others(c), req[c].at \notin {"picked", "closed", "stopTells"},
         run' = run, closer' = closer, NEW a \in Answers
  PROVE  (AboutToTell(a) => AboutToTell(a)') /\ (Dead(a) => Dead(a)')
<1>1. ~Telling(c, a)
  BY DEF Telling
<1>2. \A d \in Requests : Telling(d, a) => Telling(d, a)'
  BY <1>1, OthersTell
<1>3. QED
  BY <1>2, TellersStay DEF Dead

\* A row that was sent as a message has left "pending" before.
LEMMA LateAnsweredTold ==
  ASSUME CInv, exists, Told, NEW c \in Requests, LateAnswered(c)
  PROVE  Told'
<1>1. /\ Types /\ Over(c) /\ req[c].at = "late" /\ UNCHANGED <<future, run, closer>>
      /\ asked' = [asked EXCEPT ![req[c].on] =
                     IF @ \in {"pending", "superseded", "cancelled"} THEN "late" ELSE @]
  BY DEF CInv, LateAnswered, answering
<1>2. Others(c) /\ SameOption(c) /\ req'[c].at = "idle"
  BY <1>1, OverSame, OverIs
<1>3. \A a \in Answers : \/ asked'[a] = asked[a]
                         \/ asked[a] \in {"pending", "superseded", "cancelled"} /\ asked'[a] = "late" /\ req[c].on = a
  BY <1>1 DEF Types
<1>4. \A a \in Answers : req[c].on = a => asked[a] # "pending"
  BY <1>1 DEF Told, OptionFits, Sent
<1>5. Moved
  BY <1>3 DEF Moved
<1>6. ASSUME NEW a \in Answers PROVE Fares(a)
  <2>1. (AboutToTell(a) => AboutToTell(a)') /\ (Dead(a) => Dead(a)')
    BY <1>1, <1>2, StillTold
  <2>2. \/ asked'[a] = asked[a]
        \/ asked[a] \in {"superseded", "cancelled"} /\ asked'[a] = "late"
    BY <1>3, <1>4
  <2>3. Lost(a) => Lost(a)'
    BY <2>1, <2>2 DEF Lost, Dead
  <2>4. QED
    BY <1>1, <2>1, <2>2, <2>3 DEF Fares
<1>7. QED
  BY <1>2, <1>5, <1>6, RequestTold

\* Whoever takes a row is about to tell its agent.
LEMMA TakeTold ==
  ASSUME CInv, exists, Told, NEW c \in Requests, Others(c),
         NEW b, NEW status \in Statuses \ {"none", "pending"}, asked' = RowBecomes(b, status),
         UNCHANGED <<future, run, closer>>, req[c].at \notin {"picked", "closed", "stopTells"},
         b \in Answers /\ asked[b] = "pending" => Telling(c, b)',
         SameOption(c) \/ \A a \in Answers : OptionFits(c, a)',
         req'[c].at = "picked" => asked[req'[c].on] = "pending"
  PROVE  Told'
<1>1. Types /\ run' = run /\ closer' = closer /\ future' = future
  BY DEF CInv
<1>2. ASSUME NEW a \in Answers PROVE Fares(a)
  <2>1. (AboutToTell(a) => AboutToTell(a)') /\ (Dead(a) => Dead(a)')
    BY <1>1, StillTold
  <2>2. a = b /\ asked[a] = "pending" => AboutToTell(a)'
    BY DEF AboutToTell
  <2>3. QED
    BY <1>1, <2>1, <2>2, TakeFares
<1>3. Moved
  BY <1>1, RowMoves
<1>4. QED
  BY <1>2, <1>3, RequestTold

LEMMA PickedTold ==
  ASSUME CInv, exists, Told, NEW c \in Requests, Picked(c)
  PROVE  Told'
<1>1. /\ Types /\ req[c].at = "pick" /\ "answered" \in Statuses \ {"none", "pending"}
      /\ asked' = RowBecomes(req[c].on, "answered") /\ UNCHANGED <<future, run, closer>>
  BY DEF CInv, Picked, Statuses, answering
<1>2. CASE asked[req[c].on] = "pending"
  <2>1. Go(c, "picked") /\ "picked" \in ReqAts
    BY <1>2 DEF Picked, ReqAts
  <2>2. /\ Others(c) /\ req'[c].at = "picked" /\ req'[c].on = req[c].on /\ req'[c].kind = req[c].kind
    BY <1>1, <2>1, GoIs
  <2>3. ASSUME NEW a \in Answers, req[c].on = a PROVE OptionFits(c, a)'
    <3>1. asked[a] = "pending" /\ OptionFits(c, a)
      BY <1>2, <2>3 DEF Told
    <3>2. future[a] # "option"
      BY <3>1 DEF CInv, HearFits, Says, Replies
    <3>3. req[c].kind # "late"
      BY <2>3, <3>1 DEF OptionFits, Sent
    <3>4. QED
      BY <1>1, <2>2, <3>2, <3>3 DEF OptionFits, Sent
  <2>4. \A a \in Answers : OptionFits(c, a)'
    BY <2>2, <2>3 DEF OptionFits
  <2>5. PICK b : b = req[c].on
    OBVIOUS
  <2>6. Telling(c, b)'
    BY <2>2, <2>5 DEF Telling
  <2>7. asked' = RowBecomes(b, "answered")
    BY <1>1, <2>5
  <2>8. QED
    BY <1>1, <1>2, <2>2, <2>4, <2>6, <2>7, TakeTold
<1>3. CASE asked[req[c].on] # "pending"
  <2>1. Others(c) /\ SameOption(c) /\ asked' = asked
    BY <1>1, <1>3, OverSame DEF Picked, RowBecomes
  <2>2. QED
    BY <1>1, <2>1, RunStays, QuietTold
<1>4. QED
  BY <1>2, <1>3

LEMMA RowClosedTold ==
  ASSUME CInv, exists, Told, NEW c \in Requests, Supersede(c)
  PROVE  Told'
<1>1. /\ Types /\ req[c].at = "close" /\ "superseded" \in Statuses \ {"none", "pending"}
      /\ UNCHANGED <<future, run, closer>>
  BY DEF CInv, Supersede, Statuses, answering
<1>2. CASE req[c].list = {}
  <2>1. AfterWords(c) /\ asked' = asked
    BY <1>2 DEF Supersede
  <2>2. Others(c) /\ SameOption(c)
    BY <1>1, <2>1, AfterWordsIs, SentOn
  <2>3. QED
    BY <1>1, <2>1, <2>2, RunStays, QuietTold
<1>3. CASE req[c].list # {}
  <2> DEFINE b == First(req[c].list)
  <2>1. /\ asked' = RowBecomes(b, "superseded")
        /\ IF asked[b] = "pending"
           THEN Go(c, "closed")
           ELSE req' = [req EXCEPT ![c].list = @ \ {b}]
    BY <1>3 DEF Supersede
  <2>2. CASE asked[b] = "pending"
    <3>1. Go(c, "closed") /\ "closed" \in ReqAts
      BY <2>1, <2>2 DEF ReqAts
    <3>2. Others(c) /\ SameOption(c) /\ req'[c].at = "closed" /\ req'[c].list = req[c].list
      BY <1>1, <3>1, GoIs, GoSame
    <3>3. PICK a : a = b
      OBVIOUS
    <3>4. asked' = RowBecomes(a, "superseded") /\ a = First(req'[c].list)
      BY <2>1, <3>2, <3>3
    <3>5. Telling(c, a)'
      BY <3>2, <3>4 DEF Telling
    <3>6. QED
      BY <1>1, <3>2, <3>4, <3>5, TakeTold
  <2>3. CASE asked[b] # "pending"
    <3> HIDE DEF b
    <3>1. req' = [req EXCEPT ![c].list = @ \ {b}]
      BY <2>1, <2>3
    <3>2. /\ Others(c) /\ req'[c].at = "close"
          /\ req'[c].kind = req[c].kind /\ req'[c].on = req[c].on
      BY <1>1, <3>1 DEF Types, ReqSet, Others
    <3>3. SameOption(c)
      BY <3>2, SameIs
    <3>4. asked' = asked
      BY <2>1, <2>3 DEF RowBecomes
    <3>5. QED
      BY <1>1, <3>2, <3>3, <3>4, RunStays, QuietTold
  <2>4. QED
    BY <2>2, <2>3
<1>4. QED
  BY <1>2, <1>3

LEMMA StopCancelsTold ==
  ASSUME CInv, exists, Told, NEW c \in Requests, StopCancels(c)
  PROVE  Told'
<1> DEFINE place == IF asked[req[c].on] = "pending" THEN "stopTells" ELSE "waits"
<1>1. /\ Types /\ req[c].at = "stops" /\ "cancelled" \in Statuses \ {"none", "pending"}
      /\ asked' = RowBecomes(req[c].on, "cancelled") /\ UNCHANGED <<future, run, closer>>
      /\ Go(c, place) /\ place \in ReqAts \ {"picked", "failed", "late"}
  BY DEF CInv, StopCancels, Statuses, answering, ReqAts
<1> HIDE DEF place
<1>2. Others(c) /\ SameOption(c) /\ req'[c].at = place /\ req'[c].on = req[c].on
  BY <1>1, GoIs, GoSame
<1>3. PICK b : b = req[c].on
  OBVIOUS
<1>4. asked[b] = "pending" => Telling(c, b)'
  BY <1>2, <1>3 DEF place, Telling
<1>5. asked' = RowBecomes(b, "cancelled")
  BY <1>1, <1>3
<1>6. QED
  BY <1>1, <1>2, <1>4, <1>5, TakeTold DEF SameOption

\* Whoever has taken a row tells its agent, and nobody else was to tell that one an option.
LEMMA TellTold ==
  ASSUME CInv, exists, Told, NEW c \in Requests, Others(c),
         NEW b, NEW reply \in Replies, future' = Resolve(b, reply), UNCHANGED <<asked, run, closer>>,
         \A a \in Answers : Telling(c, a) => a = b, reply = "option" => ~Picking(b)',
         SameOption(c) \/ \A a \in Answers : OptionFits(c, a)', req'[c].at # "picked"
  PROVE  Told'
<1>1. Types /\ run' = run /\ closer' = closer /\ asked' = asked
  BY DEF CInv
<1>2. ASSUME NEW a \in Answers PROVE Fares(a)
  <2>1. Dead(a) => Dead(a)'
    BY <1>1 DEF Dead
  <2>2. a = b \/ (AboutToTell(a) => AboutToTell(a)')
    <3>1. ASSUME a # b PROVE AboutToTell(a) => AboutToTell(a)'
      <4>1. ~Telling(c, a)
        BY <3>1
      <4>2. \A d \in Requests : Telling(d, a) => Telling(d, a)'
        BY <4>1, OthersTell
      <4>3. QED
        BY <1>1, <4>2, TellersStay
    <3>2. QED
      BY <3>1
  <2>3. a = b /\ reply = "option" => ~Picking(a)'
    BY DEF Picking
  <2>4. QED
    BY <1>1, <2>1, <2>2, <2>3, TellFares
<1>3. Moved
  BY <1>1 DEF Moved
<1>4. QED
  BY <1>2, <1>3, RequestTold

LEMMA PickToldTold ==
  ASSUME CInv, exists, Told, NEW c \in Requests, PickTold(c)
  PROVE  Told'
<1>1. PICK b : b = req[c].on
  OBVIOUS
<1>2. /\ Types /\ req[c].at = "picked" /\ "option" \in Replies /\ "failed" \in ReqAts
      /\ future' = Resolve(b, "option") /\ UNCHANGED <<asked, run, closer>>
      /\ IF future[b] \in {"waits", "leaked"} THEN Over(c) ELSE Go(c, "failed")
  BY <1>1 DEF CInv, PickTold, Replies, answering, ReqAts
<1>3. /\ Others(c)
      /\ \/ SameOption(c) /\ req'[c].at = "idle"
         \/ /\ future[b] \notin {"waits", "leaked"} /\ req'[c].at = "failed"
            /\ req'[c].on = b /\ req'[c].kind = req[c].kind
  BY <1>1, <1>2, OverIs, OverSame, GoIs
<1>4. ASSUME ~SameOption(c), NEW a \in Answers PROVE OptionFits(c, a)'
  <2>1. /\ future[b] \notin {"waits", "leaked"} /\ req'[c].at = "failed"
        /\ req'[c].on = b /\ req'[c].kind = req[c].kind
    BY <1>3, <1>4
  <2>2. CASE a = b
    <3>1. OptionFits(c, a) /\ future[a] \in Futures
      BY <1>2 DEF Told, Types
    <3>2. Says(a, "option")
      BY <1>1, <1>2, <2>2 DEF CInv, HearFits, Tells
    <3>3. future[a] \notin {"none", "adding", "words", "stopped"}
      BY <3>2 DEF CInv, HearFits, Says, Replies
    <3>4. future[a] = "gone"
      BY <1>1, <1>2, <2>1, <2>2, <3>1, <3>3 DEF OptionFits, Futures
    <3>5. future'[a] = "gone"
      BY <1>2, <3>4 DEF Resolve, Types
    <3>6. req[c].kind = "late" => asked[a] \notin {"none", "pending"}
      BY <1>1, <2>2, <3>1 DEF OptionFits, Sent
    <3>7. asked'[a] = asked[a]
      BY <1>2
    <3>8. QED
      BY <2>1, <3>5, <3>6, <3>7 DEF OptionFits, Sent
  <2>3. CASE a # b
    BY <2>1, <2>3 DEF OptionFits
  <2>4. QED
    BY <2>2, <2>3
<1>5. \A a \in Answers : Telling(c, a) => a = b
  BY <1>1, <1>2 DEF Telling
<1>6. CASE b \in Answers
  <2>1. ~Picking(b)'
    <3>1. ASSUME NEW d \in Requests, req'[d].at = "picked", req'[d].on = b PROVE FALSE
      <4>1. d # c /\ req'[d] = req[d]
        BY <1>3, <3>1 DEF Others, SameOption
      <4>2. QED
        BY <1>1, <1>2, <1>6, <3>1, <4>1 DEF Told, OnePicks
    <3>2. QED
      BY <3>1 DEF Picking
  <2>2. QED
    BY <1>2, <1>3, <1>4, <1>5, <2>1, TellTold
<1>7. CASE b \notin Answers
  <2>1. future' = future
    BY <1>2, <1>7 DEF Resolve, Types
  <2>2. ASSUME NEW a \in Answers PROVE Fares(a)
    <3>1. ~Telling(c, a)
      BY <1>5, <1>7
    <3>2. \A d \in Requests : Telling(d, a) => Telling(d, a)'
      BY <1>3, <3>1, OthersTell
    <3>3. run' = run /\ closer' = closer /\ asked' = asked
      BY <1>2
    <3>4. (AboutToTell(a) => AboutToTell(a)') /\ (Dead(a) => Dead(a)')
      BY <3>2, <3>3, TellersStay DEF Dead
    <3>5. QED
      BY <2>1, <3>3, <3>4, UndisturbedFares
  <2>3. Moved
    BY <1>2 DEF Moved
  <2>4. QED
    BY <1>3, <1>4, <2>2, <2>3, RequestTold
<1>8. QED
  BY <1>6, <1>7

LEMMA RowClosedIsTold ==
  ASSUME CInv, exists, Told, NEW c \in Requests, SupersedeTold(c)
  PROVE  Told'
<1>1. PICK b : b = First(req[c].list)
  OBVIOUS
<1>2. /\ Types /\ req[c].at = "closed" /\ "words" \in Replies /\ "close" \in ReqAts
      /\ future' = Resolve(b, "words") /\ UNCHANGED <<asked, run, closer>>
      /\ req' = [req EXCEPT ![c].at = "close", ![c].list = @ \ {b}]
  BY <1>1 DEF CInv, SupersedeTold, Replies, answering, ReqAts
<1>3. PICK rest \in SUBSET Answers : req' = [req EXCEPT ![c].at = "close", ![c].list = rest]
  <2>1. req[c] \in ReqSet
    BY <1>2 DEF Types
  <2>2. req[c].list \ {b} \in SUBSET Answers
    BY <2>1 DEF ReqSet
  <2>3. req' = [req EXCEPT ![c].at = "close", ![c].list = req[c].list \ {b}]
    BY <1>2, <2>1 DEF Types, ReqSet
  <2>4. QED
    BY <2>2, <2>3
<1>4. Others(c) /\ req'[c].at = "close" /\ req'[c].kind = req[c].kind /\ req'[c].on = req[c].on
  BY <1>2, <1>3, ListIs
<1>5. SameOption(c)
  BY <1>4, SameIs
<1>6. \A a \in Answers : Telling(c, a) => a = b
  BY <1>1, <1>2 DEF Telling
<1>7. QED
  BY <1>2, <1>4, <1>5, <1>6, TellTold

LEMMA StopTellsTold ==
  ASSUME CInv, exists, Told, NEW c \in Requests, StopTells(c)
  PROVE  Told'
<1>1. PICK b : b = req[c].on
  OBVIOUS
<1>2. /\ Types /\ req[c].at = "stopTells" /\ "stopped" \in Replies
      /\ "waits" \in ReqAts \ {"picked", "failed", "late"}
      /\ future' = Resolve(b, "stopped") /\ UNCHANGED <<asked, run, closer>> /\ Go(c, "waits")
  BY <1>1 DEF CInv, StopTells, Replies, answering, ReqAts
<1>3. Others(c) /\ SameOption(c)
  BY <1>2, GoSame
<1>4. \A a \in Answers : Telling(c, a) => a = b
  BY <1>1, <1>2 DEF Telling
<1>5. QED
  BY <1>2, <1>3, <1>4, TellTold DEF SameOption

-----------------------------------------------------------------------------
(* Steps of the agent, of the run and of close *)

\* An agent's own step tells nobody else.
LEMMA AloneStays ==
  ASSUME req' = req, run' = run, closer' = closer, NEW a \in Answers
  PROVE  (AboutToTell(a) => AboutToTell(a)') /\ (Dead(a) => Dead(a)')
  BY DEF AboutToTell, Telling, Dead

LEMMA AgentTold ==
  ASSUME CInv, exists, Told, NEW a \in Answers, AgentAsks(a)
  PROVE  Told'
<1>1. Types /\ req' = req /\ run' = run /\ closer' = closer
  BY DEF CInv, AgentAsks, Ask, AskAdded, AskDropped, answering, users
<1>2. future[a] \in {"none", "adding"} => asked[a] = "none"
  BY DEF CInv, HearFits
<1>3. \A b \in Answers \ {a} : asked'[b] = asked[b] /\ future'[b] = future[b]
  BY <1>1 DEF Types, AgentAsks, Ask, AskAdded, AskDropped, RowBecomes
<1>4. \/ future[a] = "none" /\ future'[a] = "adding" /\ asked'[a] = asked[a]
      \/ future[a] = "adding" /\ future'[a] = "waits" /\ asked'[a] = "pending"
      \/ future[a] = "adding" /\ future'[a] = "leaked" /\ asked'[a] \in {"pending", asked[a]}
      \/ /\ future[a] = "waits" /\ future'[a] = "gone"
         /\ asked'[a] = IF asked[a] = "pending" THEN "cancelled" ELSE asked[a]
  BY <1>1 DEF Types, AgentAsks, Ask, AskAdded, AskDropped, RowBecomes
<1>5. ASSUME NEW b \in Answers PROVE Fares(b)
  <2>1. (AboutToTell(b) => AboutToTell(b)') /\ (Dead(b) => Dead(b)')
    BY <1>1, AloneStays
  <2>2. CASE b # a
    BY <1>3, <2>1, <2>2, UndisturbedFares
  <2>3. CASE b = a
    BY <1>4, <2>3 DEF Fares, Waiting
  <2>4. QED
    BY <2>2, <2>3
<1>6. Moved
  <2>1. ASSUME NEW b \in Answers, b # a PROVE asked'[b] = asked[b]
    BY <1>3, <2>1
  <2>2. \/ asked'[a] = asked[a] \/ asked[a] = "pending"
        \/ asked[a] = "none" /\ future'[a] \notin {"none", "adding"}
    BY <1>2, <1>4
  <2>3. QED
    BY <2>1, <2>2 DEF Moved
<1>7. QED
  BY <1>1, <1>5, <1>6, NobodyTold

\* A run that goes on, but not past its own question.
LEMMA RunsTold ==
  ASSUME CInv, exists, Told, NEW a \in Answers,
         \/ TurnEnds(a) \/ Checkpoint(a) \/ FinishLogs(a) \/ FinishReads(a) \/ FinishSaves(a)
         \/ FinishEnds(a) \/ SaveFails(a) \/ KilledInTurn(a) \/ KilledInReads(a) \/ KilledInSave(a)
  PROVE  Told'
<1>1. UNCHANGED <<asked, future, closer, req>> /\ run[a].at \notin {"tells", "ended"}
  BY DEF TurnEnds, Checkpoint, FinishLogs, FinishReads, FinishSaves, FinishEnds, SaveFails, KilledInTurn,
         KilledInReads, KilledInSave, question, users, answering
<1>2. \A b \in Answers \ {a} : run'[b] = run[b]
  BY DEF CInv, Types, TurnEnds, Checkpoint, FinishLogs, FinishReads, FinishSaves, FinishEnds, SaveFails,
         KilledInTurn, KilledInReads, KilledInSave, Left, answering
<1>3. QED
  BY <1>1, <1>2, RunTold

LEMMA FinishCancelsTold ==
  ASSUME CInv, exists, Told, NEW a \in Answers, FinishCancels(a)
  PROVE  Told'
<1>1. /\ Types /\ run[a].at = "cancels" /\ "cancelled" \in Statuses \ {"none", "pending"}
      /\ asked' = RowBecomes(a, "cancelled") /\ UNCHANGED <<future, closer, req>>
      /\ run' = [run EXCEPT ![a] = IF asked[a] = "pending" THEN [@ EXCEPT !.at = "tells"] ELSE Decided(@)]
  BY DEF CInv, FinishCancels, Statuses, users
<1>2. \A b \in Answers \ {a} : run'[b] = run[b]
  BY <1>1 DEF Types
<1>3. asked[a] = "pending" => run'[a].at = "tells"
  BY <1>1 DEF Types, RunSet
<1>4. ASSUME NEW b \in Answers PROVE Fares(b)
  <2>1. AboutToTell(b) => AboutToTell(b)'
    BY <1>1, <1>2 DEF AboutToTell, Telling
  <2>2. Dead(b) => Dead(b)'
    BY <1>1, <1>2 DEF Dead
  <2>3. b = a /\ asked[b] = "pending" => AboutToTell(b)'
    BY <1>3 DEF AboutToTell
  <2>4. QED
    BY <1>1, <2>1, <2>2, <2>3, TakeFares
<1>5. Moved
  BY <1>1, RowMoves
<1>6. QED
  BY <1>1, <1>4, <1>5, NobodyTold

LEMMA FinishTellsTold ==
  ASSUME CInv, exists, Told, NEW a \in Answers, FinishTells(a)
  PROVE  Told'
<1>1. /\ Types /\ run[a].at = "tells" /\ "stopped" \in Replies
      /\ future' = Resolve(a, "stopped") /\ UNCHANGED <<asked, closer, req>>
      /\ run' = [run EXCEPT ![a] = Decided(@)]
  BY DEF CInv, FinishTells, Replies, users
<1>2. \A b \in Answers \ {a} : run'[b] = run[b]
  BY <1>1 DEF Types
<1>3. ASSUME NEW b \in Answers PROVE Fares(b)
  <2>1. b = a \/ (AboutToTell(b) => AboutToTell(b)')
    BY <1>1, <1>2 DEF AboutToTell, Telling
  <2>2. Dead(b) => Dead(b)'
    BY <1>1, <1>2 DEF Dead
  <2>3. QED
    BY <1>1, <2>1, <2>2, TellFares
<1>4. Moved
  BY <1>1 DEF Moved
<1>5. QED
  BY <1>1, <1>3, <1>4, NobodyTold

\* A run that is cancelled on its way has left its row as it was, or taken it.
LEMMA KilledTold ==
  ASSUME CInv, exists, Told, NEW a \in Answers, KilledInFinish(a)
  PROVE  Told'
<1>1. /\ Types /\ run[a].at \in {"cancels", "tells", "logs"} /\ run[a].kill
      /\ UNCHANGED <<future, closer, req>> /\ run' = [run EXCEPT ![a].at = "ended"]
      /\ \/ asked' = asked
         \/ asked' = RowBecomes(a, "cancelled")
  BY DEF CInv, KilledInFinish, users
<1>2. \A b \in Answers \ {a} : run'[b] = run[b]
  BY <1>1 DEF Types
<1>3. Dead(a)'
  BY <1>1 DEF Types, RunSet, Dead
<1>4. \A b \in Answers : \/ asked'[b] = asked[b]
                         \/ b = a /\ asked[b] = "pending" /\ asked'[b] = "cancelled"
  BY <1>1 DEF Types, RowBecomes
<1>5. run[a].at = "tells" => asked[a] \in {"cancelled", "late"}
  BY DEF CInv, HearFits, Says
<1>6. ASSUME NEW b \in Answers PROVE Fares(b)
  <2>1. Dead(b) => Dead(b)'
    BY <1>1, <1>2 DEF Dead
  <2>2. CASE b # a
    <3>1. AboutToTell(b) => AboutToTell(b)'
      BY <1>1, <1>2, <2>2 DEF AboutToTell, Telling
    <3>2. asked'[b] = asked[b] /\ future'[b] = future[b]
      BY <1>1, <1>4, <2>2
    <3>3. QED
      BY <2>1, <3>1, <3>2, UndisturbedFares
  <2>3. CASE b = a /\ asked'[b] = "cancelled"
    <3>1. Lost(b)'
      BY <1>3, <2>3 DEF Lost, Dead
    <3>2. QED
      BY <1>1, <2>3, <3>1 DEF Fares, Waiting
  <2>4. CASE b = a /\ asked'[b] # "cancelled"
    <3>1. asked'[b] = asked[b] /\ future'[b] = future[b]
      BY <1>1, <1>4, <2>4
    <3>2. run[b].at = "tells" => Lost(b)'
      BY <1>3, <1>5, <2>4, <3>1 DEF Lost, Dead
    <3>3. AboutToTell(b) => AboutToTell(b)' \/ Lost(b)'
      BY <1>1, <3>2 DEF AboutToTell, Telling
    <3>4. Lost(b) => Lost(b)'
      BY <2>1, <3>1 DEF Lost, Dead
    <3>5. QED
      BY <3>1, <3>3, <3>4 DEF Fares, Waiting
  <2>5. QED
    BY <2>2, <2>3, <2>4
<1>7. Moved
  BY <1>4 DEF Moved
<1>8. QED
  BY <1>1, <1>6, <1>7, NobodyTold

LEMMA CloseTold ==
  ASSUME CInv, exists, Told, Close \/ CloseGoesOn
  PROVE  Told'
<1>1. Types /\ req' = req
  BY DEF CInv, Close, CloseGoesOn, CloseCancels, CloseTells, CloseEnds, CloseTimesOut, CloseSaves, users
<1>2. RunsOn
  <2>1. ASSUME NEW a \in Answers
        PROVE  run'[a].at = run[a].at /\ (run[a].kill => run'[a].kill)
    <3>1. run[a] \in RunSet
      BY <1>1 DEF Types
    <3>2. CASE Close
      <4>1. run'[a] = run[a] \/ run'[a] = [run[a] EXCEPT !.closing = TRUE, !.stopping = TRUE]
        BY <3>2 DEF Close
      <4>2. QED
        BY <3>1, <4>1, MarkIs
    <3>3. CASE CloseSaves
      <4>1. run'[a] = run[a] \/ run'[a] = [run[a] EXCEPT !.kill = @ \/ run[a].at # "ended"]
        BY <1>1, <3>3 DEF CloseSaves, Types
      <4>2. QED
        BY <3>1, <4>1 DEF RunSet
    <3>4. CASE CloseCancels \/ CloseTells \/ CloseEnds \/ CloseTimesOut
      BY <3>4 DEF CloseCancels, CloseTells, CloseEnds, CloseTimesOut, answering
    <3>5. QED
      BY <3>2, <3>3, <3>4 DEF CloseGoesOn
  <2>2. QED
    BY <2>1 DEF RunsOn, Dead
<1>3. ASSUME NEW a \in Answers
      PROVE  (Dead(a) => Dead(a)') /\ (AboutToTell(a) => AboutToTell(a)' \/ (closer.at = "tells" /\ closer.on = a))
  BY <1>1, <1>2 DEF RunsOn, AboutToTell, Telling
<1>4. CASE CloseCancels
  <2>1. PICK b : b = closer.on
    OBVIOUS
  <2>2. /\ asked' = RowBecomes(b, "cancelled") /\ "cancelled" \in Statuses \ {"none", "pending"}
        /\ future' = future /\ closer.at = "cancels"
        /\ closer' = [closer EXCEPT !.at = IF asked[b] = "pending" THEN "tells" ELSE "waits"]
    BY <1>4, <2>1 DEF CloseCancels, CloserGo, Statuses
  <2>3. asked[b] = "pending" => closer'.at = "tells" /\ closer'.on = b
    BY <1>1, <2>1, <2>2 DEF Types, Closers
  <2>4. ASSUME NEW a \in Answers PROVE Fares(a)
    <3>1. a = b /\ asked[a] = "pending" => AboutToTell(a)'
      BY <2>3 DEF AboutToTell
    <3>2. (AboutToTell(a) => AboutToTell(a)') /\ (Dead(a) => Dead(a)')
      BY <1>3, <2>2
    <3>3. QED
      BY <1>1, <2>2, <3>1, <3>2, TakeFares
  <2>5. Moved
    BY <1>1, <2>2, RowMoves
  <2>6. QED
    BY <1>1, <2>4, <2>5, NobodyTold
<1>5. CASE CloseTells
  <2>1. PICK b : b = closer.on
    OBVIOUS
  <2>2. future' = Resolve(b, "stopped") /\ "stopped" \in Replies /\ asked' = asked
    BY <1>5, <2>1 DEF CloseTells, Replies
  <2>3. ASSUME NEW a \in Answers PROVE Fares(a)
    <3>1. (a = b \/ (AboutToTell(a) => AboutToTell(a)')) /\ (Dead(a) => Dead(a)')
      BY <1>3, <2>1
    <3>2. QED
      BY <1>1, <2>2, <3>1, TellFares
  <2>4. Moved
    BY <2>2 DEF Moved
  <2>5. QED
    BY <1>1, <2>3, <2>4, NobodyTold
<1>6. CASE Close \/ CloseEnds \/ CloseTimesOut \/ CloseSaves
  <2>1. asked' = asked /\ future' = future /\ closer.at # "tells"
    BY <1>6 DEF Close, CloseEnds, CloseTimesOut, CloseSaves, question
  <2>2. \A a \in Answers : Fares(a)
    BY <1>3, <2>1, UndisturbedFares
  <2>3. Moved
    BY <2>1 DEF Moved
  <2>4. QED
    BY <1>1, <2>2, <2>3, NobodyTold
<1>7. QED
  BY <1>4, <1>5, <1>6 DEF CloseGoesOn

\* After a start nobody waits and nothing is asked.
LEMMA RestartTold == ASSUME CInv, Restart PROVE Told'
<1>1. \A a \in Answers : future'[a] \in {"none", "gone"} /\ asked'[a] # "pending"
  BY DEF Restart
<1>2. \A c \in Requests : req'[c].at = "idle" /\ req'[c].kind = "none"
  BY DEF Restart, NoRequest
<1>3. \A a \in Answers : WaitFits(a)'
  BY <1>1 DEF WaitFits
<1>4. \A c \in Requests, a \in Answers : OptionFits(c, a)'
  BY <1>2 DEF OptionFits, Sent
<1>5. OnePicks'
  BY <1>2 DEF OnePicks
<1>6. QED
  BY <1>3, <1>4, <1>5 DEF Told

-----------------------------------------------------------------------------
(* The theorem about what the agent hears *)

\* A chat that is gone is not there again.
LEMMA ExistsStays == ASSUME CInv, [Next]_vars PROVE exists' => exists
<1>1. ASSUME NEW c \in Requests, Sending(c) \/ Answering(c) \/ Stopping(c) PROVE exists' => exists
  <2>1. exists' = exists \/ exists' = FALSE
    BY <1>1, Zenon DEF Sending, Looked, Insert, Refused, Start, LateAnswered, Answering, Words, SupersedeReads,
       Supersede, SupersedeTold, Picked, PickTold, PickFails, Stopping, StopCancels, StopTells, StopEnds,
       StopTimesOut, Remove, store
  <2>2. QED
    BY <2>1, Zenon
<1>2. ASSUME NEW c \in Requests, Send(c) \/ Stop(c) \/ Delete(c) \/ PartChanged(c) PROVE exists' => exists
  BY <1>2, Zenon DEF Send, Stop, Delete, PartChanged, store
<1>3. ASSUME NEW c \in Requests, NEW a \in Answers,
             \/ Pick(c, a) \/ ChangePart(c, a)
             \/ \E kind \in {"regenerate", "resume", "edit"} : AskAgain(c, kind, a)
      PROVE  exists' => exists
  BY <1>3, Zenon DEF Pick, ChangePart, AskAgain, store
<1>4. ASSUME NEW a \in Answers, TurnEnds(a) \/ Finishing(a) \/ AgentAsks(a) \/ Checkpoint(a)
      PROVE  exists' => exists
  BY <1>4, Zenon DEF TurnEnds, Checkpoint, Finishing, FinishCancels, FinishTells, FinishLogs, FinishReads,
     FinishSaves, FinishEnds, SaveFails, KilledInTurn, KilledInFinish, KilledInReads, KilledInSave,
     AgentAsks, Ask, AskAdded, AskDropped, store
<1>5. CASE Close \/ CloseGoesOn \/ Restart \/ UNCHANGED vars
  BY <1>5, Zenon DEF Close, CloseGoesOn, CloseCancels, CloseTells, CloseEnds, CloseTimesOut, CloseSaves, Restart,
     vars, store
<1>6. QED
  BY <1>1, <1>2, <1>3, <1>4, <1>5 DEF Next

LEMMA RequestHears ==
  ASSUME CInv, exists, exists', Told, NEW c \in Requests,
         \/ Send(c) \/ Stop(c) \/ Delete(c)
         \/ Sending(c) \/ Answering(c) \/ Stopping(c) \/ PartChanged(c)
         \/ \E a \in Answers :
              \/ Pick(c, a) \/ ChangePart(c, a)
              \/ \E kind \in {"regenerate", "resume", "edit"} : AskAgain(c, kind, a)
  PROVE  Told'
<1>1. CASE Send(c) \/ Looked(c) \/ \E a \in Answers : \E kind \in {"regenerate", "resume", "edit"} : AskAgain(c, kind, a)
  BY <1>1, SendsTold
<1>2. CASE Refused(c) \/ Insert(c) \/ Start(c) \/ LateAnswered(c)
  BY <1>2, StartsTold, LateAnsweredTold
<1>3. CASE Answering(c)
  BY <1>3, WordsTold, RowClosedTold, RowClosedIsTold, PickedTold, PickToldTold DEF Answering
<1>4. CASE Stop(c) \/ Delete(c) \/ StopCancels(c) \/ StopTells(c) \/ StopEnds(c) \/ StopTimesOut(c)
  BY <1>4, StopsTold, StopCancelsTold, StopTellsTold
<1>5. CASE Remove(c)
  BY <1>5, Zenon DEF Remove
<1>6. CASE PartChanged(c) \/ \E a \in Answers : ChangePart(c, a)
  BY <1>6, PartsTold
<1>7. CASE \E a \in Answers : Pick(c, a)
  BY <1>7, PickTakesTold
<1>8. QED
  BY <1>1, <1>2, <1>3, <1>4, <1>5, <1>6, <1>7 DEF Sending, Stopping

LEMMA ToldStep == ASSUME CInv, ToldFits, [Next]_vars PROVE ToldFits'
<1> SUFFICES ASSUME exists' PROVE Told'
  BY DEF ToldFits
<1>1. exists /\ Told
  BY ExistsStays DEF ToldFits
<1>2. ASSUME NEW a \in Answers, TurnEnds(a) \/ Finishing(a) \/ AgentAsks(a) \/ Checkpoint(a) PROVE Told'
  BY <1>1, <1>2, RunsTold, AgentTold, FinishCancelsTold, FinishTellsTold, KilledTold DEF Finishing
<1>3. CASE Close \/ CloseGoesOn \/ Restart
  BY <1>1, <1>3, CloseTold, RestartTold
<1>4. CASE UNCHANGED vars
  BY <1>1, <1>4 DEF vars, question, answering, users, Told, WaitFits, Waiting, AboutToTell, Telling, Lost,
                    OptionFits, Sent, OnePicks
<1>5. QED
  BY <1>1, <1>2, <1>3, <1>4, RequestHears DEF Next

LEMMA ToldHears == ASSUME CInv, ToldFits PROVE AgentHearsTheAnswer
<1> SUFFICES ASSUME exists
             PROVE  /\ \A a \in Answers : HeardIsShown(a) /\ ShownIsHeard(a) /\ NobodyWaitsInVain(a)
                    /\ \A c \in Requests, a \in Answers :
                         req[c].at = "failed" /\ req[c].on = a => future[a] = "gone"
  BY DEF AgentHearsTheAnswer
<1>1. \A a \in Answers, reply \in Replies : future[a] = reply => Says(a, reply)
  BY DEF CInv, HearFits
<1>2. ASSUME NEW a \in Answers PROVE HeardIsShown(a)
  BY <1>1 DEF Says, Replies, HeardIsShown
<1>3. ASSUME NEW a \in Answers PROVE NobodyWaitsInVain(a)
  BY DEF ToldFits, Told, WaitFits, Waiting, Lost, NobodyWaitsInVain
<1>4. ASSUME NEW a \in Answers, asked[a] = "answered", future[a] \notin {"option", "gone", "leaked"}
      PROVE  \E c \in Requests : req[c].at = "picked" /\ req[c].on = a
  <2>1. future[a] \in Futures \ {"none", "adding", "words", "stopped"}
    BY <1>1, <1>4 DEF CInv, Types, HearFits, Says, Replies
  <2>2. future[a] = "waits"
    BY <1>4, <2>1 DEF Futures
  <2>3. AboutToTell(a)
    BY <1>4, <2>2 DEF ToldFits, Told, WaitFits, Waiting, Lost
  <2>4. ~(run[a].at = "tells") /\ ~(closer.at = "tells" /\ closer.on = a)
    BY <1>4 DEF CInv, HearFits, Says
  <2>5. PICK c \in Requests : Telling(c, a)
    BY <2>3, <2>4 DEF AboutToTell
  <2>6. req[c].at \notin {"stopTells", "closed"}
    BY <1>4, <2>5 DEF CInv, HearFits, Tells, Telling, Says, Replies
  <2>7. QED
    BY <2>5, <2>6 DEF Telling
<1>5. QED
  BY <1>2, <1>3, <1>4 DEF ShownIsHeard, ToldFits, Told, OptionFits

\* What the agent of an answer got is what the row of its question says; an option that the user
\* sees as taken is the agent's or the agent has dropped its call; an agent that waits is told,
\* whoever of answer, supersede, Stop, close and the answer's own end came first.
THEOREM AgentHears == Spec => []AgentHearsTheAnswer
<1>1. Init => ToldFits
  <2> SUFFICES ASSUME Init PROVE Told
    BY DEF ToldFits
  <2>1. \A a \in Answers : future[a] = "none"
    BY DEF Init
  <2>2. \A c \in Requests : req[c].at = "idle" /\ req[c].kind = "none"
    BY DEF Init, NoRequest
  <2>3. QED
    BY <2>1, <2>2 DEF Told, WaitFits, OptionFits, Sent, OnePicks
<1>2. CInv /\ ToldFits /\ [Next]_vars => ToldFits'
  BY ToldStep
<1>3. CInv /\ ToldFits => AgentHearsTheAnswer
  BY ToldHears
<1>4. QED
  BY <1>1, <1>2, <1>3, ChatInvariant, PTL DEF Spec
=============================================================================
