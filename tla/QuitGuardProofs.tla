---------------------------- MODULE QuitGuardProofs ----------------------------
(***************************************************************************)
(* Theorems about QuitGuard (a recording, its way to the backend, and the  *)
(* quit around it), for any number of windows, faults, attempts and        *)
(* retries.                                                                *)
(*                                                                         *)
(* The invariant LInv says where the sound is: the queue holds the windows *)
(* from seq on, the log those before seq and perhaps window seq as well,   *)
(* and what is under way on the wire can only add window seq.  Every       *)
(* action has a lemma, with one step for each part of LInv.                *)
(***************************************************************************)
EXTENDS QuitGuard, TLAPS

\* The queue holds the windows from seq to the last one that was taken.
Holds(q, first) == \A i \in 1..Len(q) : q[i] = first + i - 1
QueueFits ==
  /\ Holds(queue, seq)
  /\ made = seq + Len(queue) + dropped
  /\ Len(queue) <= MaxPending + over

\* The log has the windows before seq, or seq too, which was sent then.
LogFits ==
  /\ \A i \in 1..Len(log) : log[i] = i - 1
  /\ Len(log) = seq \/ (Len(log) = seq + 1 /\ attempted)
  /\ attempted => queue # <<>>
  /\ recovered => Len(log) = seq + 1

\* An attempt has a window; a blocked queue has no attempt.
AttemptFits ==
  /\ Busy => queue # <<>>
  /\ blocked => queue # <<>> /\ ~Busy
  /\ op = "sleep" => tries < MaxAttempts
  /\ op = "open" => link = "failed"
  /\ op = "audio" => link = "connected"
  /\ link # "differs"

\* The connection and the route: a socket is there for an attempt to open one, or for one that is
\* open.
SocketFits ==
  /\ here => route # "none" /\ (link = "failed" => op = "open")
  /\ here /\ route \in {"opening", "refused"} => op = "open" /\ reply.type # "opened"
  /\ "new" \in hello => op = "open" /\ reply.type # "opened" /\ ~here
  /\ inbox.type # "none" => route \in {"ready", "closing"}

\* Messages: audio on the way is window seq or an older one, and a receipt is for window seq.
WireFits ==
  /\ inbox.type = "audio" =>
       /\ inbox.window = inbox.seq
       /\ inbox.seq <= seq
       /\ inbox.seq = seq => attempted
       /\ here => op = "audio" /\ inbox.seq = seq
  /\ reply.type = "saved" => op = "audio" /\ Len(log) = seq + 1 /\ inbox.type # "audio"
  /\ reply.type = "opened" => op = "open" /\ reply.next = Len(log) /\ inbox.type # "audio"

\* Who stops or saves is where the phase says; who saw the queue empty still finds it empty.
ScreenFits ==
  /\ phase = "finishing" <=> pc["stop"] # "off"
  /\ pc["keep"] # "off" => phase = "idle"
  /\ pc["quit"] \in {"drain", "redrain", "no", "lost", "end", "saved", "yes"} => phase = "idle"
  /\ phase = "recording" => pc["quit"] = "off"
  /\ unsaved => phase = "idle"
  /\ phase # "idle" => retries = 0
  /\ pc["keep"] = "sleep" => retries < SaveRetries
  /\ \A s \in Savers : pc[s] \in {"end", "saved"} => queue = <<>>
  /\ pc["quit"] = "yes" => queue = <<>>
  /\ GuardCounts

\* The types, in groups.
TNum ==
  /\ made \in 0..Windows /\ dropped \in 0..Windows /\ seq \in 0..Windows
  /\ tries \in 0..MaxAttempts /\ over \in 0..2 /\ faults \in 0..Faults
  /\ retries \in 0..SaveRetries
TFlags ==
  /\ blocked \in BOOLEAN /\ attempted \in BOOLEAN /\ recovered \in BOOLEAN
  /\ here \in BOOLEAN /\ active \in BOOLEAN /\ byUser \in BOOLEAN /\ unsaved \in BOOLEAN
TPlaces ==
  /\ op \in {"none", "call", "sleep", "open", "audio", "end"}
  /\ link \in {"connected", "failed", "differs", "stopped"}
  /\ route \in {"none", "opening", "ready", "closing", "refused"}
  /\ phase \in {"recording", "finishing", "idle"}
TSeq == queue \in Seq(0..Windows - 1) /\ log \in Seq(0..Windows - 1)
WireTypes ==
  /\ hello \subseteq {"new", "old"}
  /\ inbox \in [type : {"none", "audio", "end"}, seq : 0..Windows, window : 0..Windows]
  /\ reply \in [type : {"none", "opened", "saved", "stopped", "error"}, next : 0..Windows]
PcPlaces == {"off", "flush", "drain", "redrain", "no", "lost", "end", "saved", "sleep",
             "wait", "stopping", "yes", "waited", "refused"}
TPc == pc \in [Savers -> PcPlaces]

Parts ==
  /\ TNum /\ TFlags /\ TPlaces /\ TSeq /\ WireTypes /\ TPc
  /\ QueueFits /\ LogFits /\ AttemptFits /\ SocketFits /\ WireFits /\ ScreenFits
\* A name the provers leave closed where the parts do not matter.
LInv == Parts

(***************************************************************************)
(* The queue as a sequence                                                 *)
(***************************************************************************)

\* What Append adds.
LEMMA AppendFacts ==
  ASSUME NEW N \in Nat, NEW q \in Seq(0..N - 1), NEW w \in 0..N - 1
  PROVE  /\ Append(q, w) \in Seq(0..N - 1)
         /\ Len(Append(q, w)) = Len(q) + 1
         /\ \A i \in 1..Len(q) + 1 : Append(q, w)[i] = IF i = Len(q) + 1 THEN w ELSE q[i]
OBVIOUS

\* enqueue: the window after the last one goes to the end.
LEMMA HoldsAppend ==
  ASSUME NEW N \in Nat, NEW q \in Seq(0..N - 1), NEW first \in Nat, NEW w \in 0..N - 1,
         Holds(q, first), w = first + Len(q)
  PROVE  /\ Append(q, w) \in Seq(0..N - 1)
         /\ Len(Append(q, w)) = Len(q) + 1
         /\ Holds(Append(q, w), first)
         /\ Append(q, w) # <<>>
<1>1. Append(q, w) \in Seq(0..N - 1) /\ Len(Append(q, w)) = Len(q) + 1
  OBVIOUS
<1>2. \A i \in 1..Len(q) + 1 : Append(q, w)[i] = IF i = Len(q) + 1 THEN w ELSE q[i]
  OBVIOUS
<1>3. Holds(Append(q, w), first)
  <2>1. Len(q) \in Nat
    OBVIOUS
  <2>2. ASSUME NEW i \in 1..Len(q) + 1 PROVE Append(q, w)[i] = first + i - 1
    <3>1. CASE i = Len(q) + 1
      BY <2>1, <3>1, <1>2
    <3>2. CASE i # Len(q) + 1
      BY <2>1, <3>2, <1>2 DEF Holds
    <3>3. QED
      BY <3>1, <3>2
  <2>3. QED
    BY <2>2, <1>1 DEF Holds
<1>4. Append(q, w) # <<>>
  BY <1>1
<1>5. QED
  BY <1>1, <1>3, <1>4

\* run(): the first window is stored.
LEMMA HoldsTail ==
  ASSUME NEW N \in Nat, NEW q \in Seq(0..N - 1), NEW first \in Nat, Holds(q, first), q # <<>>
  PROVE  /\ Head(q) = first
         /\ first \in 0..N - 1
         /\ Tail(q) \in Seq(0..N - 1)
         /\ Len(Tail(q)) = Len(q) - 1
         /\ Holds(Tail(q), first + 1)
         /\ Len(q) = 1 <=> Tail(q) = <<>>
<1>1. Len(q) \in Nat /\ Len(q) > 0
  OBVIOUS
<1>2. q[1] = first /\ q[1] \in 0..N - 1
  BY <1>1 DEF Holds
<1>3. \A i \in 1..Len(q) - 1 : Tail(q)[i] = q[i + 1]
  BY <1>1
<1>4. Len(Tail(q)) = Len(q) - 1 /\ Tail(q) \in Seq(0..N - 1)
  BY <1>1
<1>5. Holds(Tail(q), first + 1)
  BY <1>1, <1>3, <1>4 DEF Holds
<1>6. Len(q) = 1 <=> Tail(q) = <<>>
  <2>1. ASSUME NEW t \in Seq(0..N - 1) PROVE t = <<>> <=> Len(t) = 0
    OBVIOUS
  <2>2. Tail(q) = <<>> <=> Len(Tail(q)) = 0
    BY <2>1, <1>4
  <2>3. QED
    BY <2>2, <1>1, <1>4, SMTT(30)
<1>7. Head(q) = first
  BY <1>1, <1>2
<1>8. QED
  BY <1>1, <1>2, <1>4, <1>5, <1>6, <1>7

(***************************************************************************)
(* The steps                                                               *)
(***************************************************************************)
\* A recording begins.
LEMMA InitLInv == ASSUME Init PROVE LInv
<1> USE BoundsNat, AttemptsPositive, RetriesPositive, PendingPositive
<1>1. TNum /\ TPlaces
  BY DEF Init, TNum, TPlaces
<1>2. TFlags
  BY DEF Init, TFlags
<1>3. TSeq
  BY DEF Init, TSeq
<1>4. WireTypes
  BY DEF Init, WireTypes, Message, Nothing, Silence, Reply
<1>5. TPc
  BY DEF Init, TPc, PcPlaces, Savers
<1>6. QueueFits /\ LogFits /\ AttemptFits
  BY DEF Init, QueueFits, LogFits, AttemptFits, Holds, Busy
<1>7. SocketFits /\ WireFits
  BY DEF Init, SocketFits, WireFits, Message, Nothing, Silence, Reply
<1>8. ScreenFits
  BY DEF Init, ScreenFits, GuardCounts, Savers
<1>9. QED
  BY <1>1, <1>2, <1>3, <1>4, <1>5, <1>6, <1>7, <1>8 DEF LInv, Parts

\* The pause between two attempts is over.
LEMMA WakeStep ==
  ASSUME LInv, Wake
  PROVE  LInv'
<1> USE BoundsNat, AttemptsPositive, RetriesPositive, PendingPositive
<1>0. Parts
  BY DEF LInv, Parts
<1>1. TNum'
  BY <1>0 DEF Parts, TNum, Wake, keeping, writer, wire, backend, screen, AttemptFits
<1>2. TFlags'
  BY <1>0 DEF Parts, TFlags, Wake, keeping, writer, wire, backend, screen
<1>3. TPlaces'
  BY <1>0 DEF Parts, TPlaces, Wake, keeping, writer, wire, backend, screen
<1>4. TSeq'
  BY <1>0 DEF Parts, TSeq, Wake, keeping, writer, wire, backend, screen
<1>5. WireTypes'
  BY <1>0 DEF Parts, WireTypes, Wake, keeping, writer, wire, backend, screen
<1>6. TPc'
  BY <1>0 DEF Parts, TPc, PcPlaces, Savers, Wake, keeping, writer, wire, backend, screen
<1>7. QueueFits'
  BY <1>0 DEF Parts, QueueFits, Wake, keeping, writer, wire, backend, screen
<1>8. LogFits'
  BY <1>0 DEF Parts, LogFits, Wake, keeping, writer, wire, backend, screen
<1>9. AttemptFits'
  BY <1>0 DEF Parts, AttemptFits, Busy, Wake, keeping, writer, wire, backend, screen
<1>10. SocketFits'
  BY <1>0 DEF Parts, SocketFits, Wake, keeping, writer, wire, backend, screen
<1>11. WireFits'
  BY <1>0 DEF Parts, WireFits, Wake, keeping, writer, wire, backend, screen
<1>12. ScreenFits'
  BY <1>0 DEF Parts, ScreenFits, GuardCounts, TPc, PcPlaces, Savers, Wake, keeping, writer,
     wire, backend, screen
<1>13. QED
  BY <1>1, <1>2, <1>3, <1>4, <1>5, <1>6, <1>7, <1>8, <1>9, <1>10, <1>11, <1>12 DEF LInv, Parts

\* A new connection is asked for.
LEMMA ReopenStep ==
  ASSUME LInv, Reopen
  PROVE  LInv'
<1> USE BoundsNat, AttemptsPositive, RetriesPositive, PendingPositive
<1>0. Parts
  BY DEF LInv, Parts
<1>1. TNum'
  BY <1>0 DEF Parts, TNum, Reopen, NotStored, Settled, Alarm, Alarmed, keeping, writer,
     wire, backend, screen
<1>2. TFlags'
  BY <1>0 DEF Parts, TFlags, Reopen, NotStored, Settled, Alarm, Alarmed, keeping, writer,
     wire, backend, screen
<1>3. TPlaces'
  BY <1>0 DEF Parts, TPlaces, Reopen, NotStored, Settled, Alarm, Alarmed, keeping, writer,
     wire, backend, screen
<1>4. TSeq'
  BY <1>0 DEF Parts, TSeq, Reopen, NotStored, Settled, Alarm, Alarmed, keeping, writer,
     wire, backend, screen
<1>5. WireTypes'
  BY <1>0 DEF Parts, WireTypes, Reopen, NotStored, Settled, Alarm, Alarmed, keeping, writer,
     wire, backend, screen
<1>6. TPc'
  BY <1>0 DEF Parts, TPc, PcPlaces, Savers, Reopen, NotStored, Settled, Alarm, Alarmed,
     keeping, writer, wire, backend, screen
<1>7. QueueFits'
  BY <1>0 DEF Parts, QueueFits, Reopen, NotStored, Settled, Alarm, Alarmed, keeping, writer,
     wire, backend, screen
<1>8. LogFits'
  BY <1>0 DEF Parts, LogFits, Reopen, NotStored, Settled, Alarm, Alarmed, keeping, writer,
     wire, backend, screen
<1>9. AttemptFits'
  BY <1>0 DEF Parts, AttemptFits, Busy, Reopen, NotStored, Settled, Alarm, Alarmed, keeping,
     writer, wire, backend, screen
<1>10. SocketFits'
  BY <1>0 DEF Parts, SocketFits, Reopen, NotStored, Settled, Alarm, Alarmed, keeping,
     writer, wire, backend, screen, WireFits, AttemptFits
<1>11. WireFits'
  BY <1>0 DEF Parts, WireFits, Reopen, NotStored, Settled, Alarm, Alarmed, keeping, writer,
     wire, backend, screen
<1>12. ScreenFits'
  BY <1>0 DEF Parts, ScreenFits, GuardCounts, TPc, PcPlaces, Savers, Reopen, NotStored,
     Settled, Alarm, Alarmed, keeping, writer, wire, backend, screen
<1>13. QED
  BY <1>1, <1>2, <1>3, <1>4, <1>5, <1>6, <1>7, <1>8, <1>9, <1>10, <1>11, <1>12 DEF LInv, Parts

\* The connection is open: the clocks agree.
LEMMA OpenedStep ==
  ASSUME LInv, Opened
  PROVE  LInv'
<1> USE BoundsNat, AttemptsPositive, RetriesPositive, PendingPositive
<1>0. Parts
  BY DEF LInv, Parts
<1>1. TNum'
  BY <1>0 DEF Parts, TNum, Opened, ClockFits, Arrived, NotStored, Settled, Alarm, Alarmed,
     Silence, Reply, keeping, writer, wire, backend, screen
<1>2. TFlags'
  BY <1>0 DEF Parts, TFlags, Opened, ClockFits, Arrived, NotStored, Settled, Alarm, Alarmed,
     Silence, Reply, keeping, writer, wire, backend, screen
<1>3. TPlaces'
  BY <1>0 DEF Parts, TPlaces, Opened, ClockFits, Arrived, NotStored, Settled, Alarm,
     Alarmed, Silence, Reply, keeping, writer, wire, backend, screen
<1>4. TSeq'
  BY <1>0 DEF Parts, TSeq, Opened, ClockFits, Arrived, NotStored, Settled, Alarm, Alarmed,
     Silence, Reply, keeping, writer, wire, backend, screen
<1>5. WireTypes'
  BY <1>0 DEF Parts, WireTypes, Opened, ClockFits, Arrived, NotStored, Settled, Alarm,
     Alarmed, Silence, Reply, keeping, writer, wire, backend, screen
<1>6. TPc'
  BY <1>0 DEF Parts, TPc, PcPlaces, Savers, Opened, ClockFits, Arrived, NotStored, Settled,
     Alarm, Alarmed, Silence, Reply, keeping, writer, wire, backend, screen
<1>7. QueueFits'
  BY <1>0 DEF Parts, QueueFits, Opened, ClockFits, Arrived, NotStored, Settled, Alarm,
     Alarmed, Silence, Reply, keeping, writer, wire, backend, screen
<1>8. LogFits'
  BY <1>0 DEF Parts, LogFits, Opened, ClockFits, Arrived, NotStored, Settled, Alarm,
     Alarmed, Silence, Reply, keeping, writer, wire, backend, screen, WireFits, TNum,
     TFlags, TSeq, AttemptFits
<1>9. AttemptFits'
  BY <1>0 DEF Parts, AttemptFits, Busy, Opened, ClockFits, Arrived, NotStored, Settled,
     Alarm, Alarmed, Silence, Reply, keeping, writer, wire, backend, screen, WireFits,
     LogFits, TNum, TSeq, TFlags
<1>10. SocketFits'
  BY <1>0 DEF Parts, SocketFits, Opened, ClockFits, Arrived, NotStored, Settled, Alarm,
     Alarmed, Silence, Reply, keeping, writer, wire, backend, screen
<1>11. WireFits'
  BY <1>0 DEF Parts, WireFits, Opened, ClockFits, Arrived, NotStored, Settled, Alarm,
     Alarmed, Silence, Reply, keeping, writer, wire, backend, screen
<1>12. ScreenFits'
  BY <1>0 DEF Parts, ScreenFits, GuardCounts, TPc, PcPlaces, Savers, Opened, ClockFits,
     Arrived, NotStored, Settled, Alarm, Alarmed, Silence, Reply, keeping, writer, wire,
     backend, screen
<1>13. QED
  BY <1>1, <1>2, <1>3, <1>4, <1>5, <1>6, <1>7, <1>8, <1>9, <1>10, <1>11, <1>12 DEF LInv, Parts

\* A window goes out.
LEMMA SendStep ==
  ASSUME LInv, Send
  PROVE  LInv'
<1> USE BoundsNat, AttemptsPositive, RetriesPositive, PendingPositive
<1>0. Parts
  BY DEF LInv, Parts
<1>1. queue # <<>> /\ Head(queue) = seq /\ seq \in 0..Windows - 1
  BY <1>0, HoldsTail DEF Parts, AttemptFits, Busy, TNum, TSeq, QueueFits, Send
<1>2. TNum'
  BY <1>0 DEF Parts, TNum, Send, Message, keeping, writer, wire, backend, screen
<1>3. TFlags'
  BY <1>0 DEF Parts, TFlags, Send, Message, keeping, writer, wire, backend, screen
<1>4. TPlaces'
  BY <1>0 DEF Parts, TPlaces, Send, Message, keeping, writer, wire, backend, screen
<1>5. TSeq'
  BY <1>0 DEF Parts, TSeq, Send, Message, keeping, writer, wire, backend, screen
<1>6. WireTypes'
  BY <1>0, <1>1 DEF Parts, WireTypes, Send, Message, keeping, writer, wire, backend, screen,
     TNum
<1>7. TPc'
  BY <1>0 DEF Parts, TPc, PcPlaces, Savers, Send, Message, keeping, writer, wire, backend,
     screen
<1>8. QueueFits'
  BY <1>0 DEF Parts, QueueFits, Send, Message, keeping, writer, wire, backend, screen
<1>9. LogFits'
  BY <1>0, <1>1 DEF Parts, LogFits, Send, Message, keeping, writer, wire, backend, screen,
     TFlags
<1>10. AttemptFits'
  BY <1>0 DEF Parts, AttemptFits, Busy, Send, Message, keeping, writer, wire, backend,
     screen
<1>11. SocketFits'
  BY <1>0 DEF Parts, SocketFits, Send, Message, keeping, writer, wire, backend, screen,
     TPlaces, TFlags
<1>12. WireFits'
  BY <1>0, <1>1 DEF Parts, WireFits, Send, Message, keeping, writer, wire, backend, screen,
     SocketFits, TNum, TFlags
<1>13. ScreenFits'
  BY <1>0 DEF Parts, ScreenFits, GuardCounts, TPc, PcPlaces, Savers, Send, Message, keeping,
     writer, wire, backend, screen
<1>14. QED
  BY <1>2, <1>3, <1>4, <1>5, <1>6, <1>7, <1>8, <1>9, <1>10, <1>11, <1>12, <1>13 DEF LInv, Parts

\* The connection has ended.
LEMMA EndedStep ==
  ASSUME LInv, Ended
  PROVE  LInv'
<1> USE BoundsNat, AttemptsPositive, RetriesPositive, PendingPositive
<1>0. Parts
  BY DEF LInv, Parts
<1>1. TNum'
  BY <1>0 DEF Parts, TNum, Ended, Silence, Reply, keeping, writer, wire, backend, screen
<1>2. TFlags'
  BY <1>0 DEF Parts, TFlags, Ended, Silence, Reply, keeping, writer, wire, backend, screen
<1>3. TPlaces'
  BY <1>0 DEF Parts, TPlaces, Ended, Silence, Reply, keeping, writer, wire, backend, screen
<1>4. TSeq'
  BY <1>0 DEF Parts, TSeq, Ended, Silence, Reply, keeping, writer, wire, backend, screen
<1>5. WireTypes'
  BY <1>0 DEF Parts, WireTypes, Ended, Silence, Reply, keeping, writer, wire, backend,
     screen
<1>6. TPc'
  BY <1>0 DEF Parts, TPc, PcPlaces, Savers, Ended, Silence, Reply, keeping, writer, wire,
     backend, screen
<1>7. QueueFits'
  BY <1>0 DEF Parts, QueueFits, Ended, Silence, Reply, keeping, writer, wire, backend,
     screen
<1>8. LogFits'
  BY <1>0 DEF Parts, LogFits, Ended, Silence, Reply, keeping, writer, wire, backend, screen
<1>9. AttemptFits'
  BY <1>0 DEF Parts, AttemptFits, Busy, Ended, Silence, Reply, keeping, writer, wire,
     backend, screen
<1>10. SocketFits'
  BY <1>0 DEF Parts, SocketFits, Ended, Silence, Reply, keeping, writer, wire, backend,
     screen
<1>11. WireFits'
  BY <1>0 DEF Parts, WireFits, Ended, Silence, Reply, keeping, writer, wire, backend, screen
<1>12. ScreenFits'
  BY <1>0 DEF Parts, ScreenFits, GuardCounts, TPc, PcPlaces, Savers, Ended, Silence, Reply,
     keeping, writer, wire, backend, screen
<1>13. QED
  BY <1>1, <1>2, <1>3, <1>4, <1>5, <1>6, <1>7, <1>8, <1>9, <1>10, <1>11, <1>12 DEF LInv, Parts

\* An open message arrives.
LEMMA HelloStep ==
  ASSUME LInv, NEW h \in hello, Hello(h)
  PROVE  LInv'
<1> USE BoundsNat, AttemptsPositive, RetriesPositive, PendingPositive
<1>0. Parts
  BY DEF LInv, Parts
<1>1. TNum'
  BY <1>0 DEF Parts, TNum, Hello, Silence, Reply, keeping, writer, wire, backend, screen
<1>2. TFlags'
  BY <1>0 DEF Parts, TFlags, Hello, Silence, Reply, keeping, writer, wire, backend, screen
<1>3. TPlaces'
  BY <1>0 DEF Parts, TPlaces, Hello, Silence, Reply, keeping, writer, wire, backend, screen
<1>4. TSeq'
  BY <1>0 DEF Parts, TSeq, Hello, Silence, Reply, keeping, writer, wire, backend, screen
<1>5. WireTypes'
  BY <1>0 DEF Parts, WireTypes, Hello, Silence, Reply, keeping, writer, wire, backend,
     screen
<1>6. TPc'
  BY <1>0 DEF Parts, TPc, PcPlaces, Savers, Hello, Silence, Reply, keeping, writer, wire,
     backend, screen
<1>7. QueueFits'
  BY <1>0 DEF Parts, QueueFits, Hello, Silence, Reply, keeping, writer, wire, backend,
     screen
<1>8. LogFits'
  BY <1>0 DEF Parts, LogFits, Hello, Silence, Reply, keeping, writer, wire, backend, screen
<1>9. AttemptFits'
  BY <1>0 DEF Parts, AttemptFits, Busy, Hello, Silence, Reply, keeping, writer, wire,
     backend, screen
<1>10. SocketFits'
  BY <1>0 DEF Parts, SocketFits, Hello, Silence, Reply, keeping, writer, wire, backend,
     screen
<1>11. WireFits'
  BY <1>0 DEF Parts, WireFits, Hello, Silence, Reply, keeping, writer, wire, backend,
     screen, SocketFits
<1>12. ScreenFits'
  BY <1>0 DEF Parts, ScreenFits, GuardCounts, TPc, PcPlaces, Savers, Hello, Silence, Reply,
     keeping, writer, wire, backend, screen
<1>13. QED
  BY <1>1, <1>2, <1>3, <1>4, <1>5, <1>6, <1>7, <1>8, <1>9, <1>10, <1>11, <1>12 DEF LInv, Parts

\* A connection is accepted or refused.
LEMMA AcceptStep ==
  ASSUME LInv, Accept
  PROVE  LInv'
<1> USE BoundsNat, AttemptsPositive, RetriesPositive, PendingPositive
<1>0. Parts
  BY DEF LInv, Parts
<1>1. Len(log) \in 0..Windows
  BY <1>0 DEF Parts, TNum, TFlags, TSeq, QueueFits, LogFits
<1>2. TNum'
  BY <1>0 DEF Parts, TNum, Accept, Answer, Reply, keeping, writer, wire, backend, screen
<1>3. TFlags'
  BY <1>0 DEF Parts, TFlags, Accept, Answer, Reply, keeping, writer, wire, backend, screen
<1>4. TPlaces'
  BY <1>0 DEF Parts, TPlaces, Accept, Answer, Reply, keeping, writer, wire, backend, screen
<1>5. TSeq'
  BY <1>0 DEF Parts, TSeq, Accept, Answer, Reply, keeping, writer, wire, backend, screen
<1>6. WireTypes'
  BY <1>0, <1>1 DEF Parts, WireTypes, Accept, Answer, Reply, keeping, writer, wire, backend,
     screen
<1>7. TPc'
  BY <1>0 DEF Parts, TPc, PcPlaces, Savers, Accept, Answer, Reply, keeping, writer, wire,
     backend, screen
<1>8. QueueFits'
  BY <1>0 DEF Parts, QueueFits, Accept, Answer, Reply, keeping, writer, wire, backend,
     screen
<1>9. LogFits'
  BY <1>0 DEF Parts, LogFits, Accept, Answer, Reply, keeping, writer, wire, backend, screen
<1>10. AttemptFits'
  BY <1>0 DEF Parts, AttemptFits, Busy, Accept, Answer, Reply, keeping, writer, wire,
     backend, screen
<1>11. SocketFits'
  BY <1>0 DEF Parts, SocketFits, Accept, Answer, Reply, keeping, writer, wire, backend,
     screen
<1>12. WireFits'
  BY <1>0 DEF Parts, WireFits, Accept, Answer, Reply, keeping, writer, wire, backend,
     screen, SocketFits
<1>13. ScreenFits'
  BY <1>0 DEF Parts, ScreenFits, GuardCounts, TPc, PcPlaces, Savers, Accept, Answer, Reply,
     keeping, writer, wire, backend, screen
<1>14. QED
  BY <1>2, <1>3, <1>4, <1>5, <1>6, <1>7, <1>8, <1>9, <1>10, <1>11, <1>12, <1>13 DEF LInv, Parts

\* The end message.
LEMMA EndStep ==
  ASSUME LInv, End
  PROVE  LInv'
<1> USE BoundsNat, AttemptsPositive, RetriesPositive, PendingPositive
<1>0. Parts
  BY DEF LInv, Parts
<1>1. TNum'
  BY <1>0 DEF Parts, TNum, End, Answer, Reply, Nothing, Message, keeping, writer, wire,
     backend, screen
<1>2. TFlags'
  BY <1>0 DEF Parts, TFlags, End, Answer, Reply, Nothing, Message, keeping, writer, wire,
     backend, screen
<1>3. TPlaces'
  BY <1>0 DEF Parts, TPlaces, End, Answer, Reply, Nothing, Message, keeping, writer, wire,
     backend, screen
<1>4. TSeq'
  BY <1>0 DEF Parts, TSeq, End, Answer, Reply, Nothing, Message, keeping, writer, wire,
     backend, screen
<1>5. WireTypes'
  BY <1>0 DEF Parts, WireTypes, End, Answer, Reply, Nothing, Message, keeping, writer, wire,
     backend, screen
<1>6. TPc'
  BY <1>0 DEF Parts, TPc, PcPlaces, Savers, End, Answer, Reply, Nothing, Message, keeping,
     writer, wire, backend, screen
<1>7. QueueFits'
  BY <1>0 DEF Parts, QueueFits, End, Answer, Reply, Nothing, Message, keeping, writer, wire,
     backend, screen
<1>8. LogFits'
  BY <1>0 DEF Parts, LogFits, End, Answer, Reply, Nothing, Message, keeping, writer, wire,
     backend, screen
<1>9. AttemptFits'
  BY <1>0 DEF Parts, AttemptFits, Busy, End, Answer, Reply, Nothing, Message, keeping,
     writer, wire, backend, screen
<1>10. SocketFits'
  BY <1>0 DEF Parts, SocketFits, End, Answer, Reply, Nothing, Message, keeping, writer,
     wire, backend, screen
<1>11. WireFits'
  BY <1>0 DEF Parts, WireFits, End, Answer, Reply, Nothing, Message, keeping, writer, wire,
     backend, screen
<1>12. ScreenFits'
  BY <1>0 DEF Parts, ScreenFits, GuardCounts, TPc, PcPlaces, Savers, End, Answer, Reply,
     Nothing, Message, keeping, writer, wire, backend, screen
<1>13. QED
  BY <1>1, <1>2, <1>3, <1>4, <1>5, <1>6, <1>7, <1>8, <1>9, <1>10, <1>11, <1>12 DEF LInv, Parts

\* A write of the backend fails.
LEMMA FailsStep ==
  ASSUME LInv, StorageFails
  PROVE  LInv'
<1> USE BoundsNat, AttemptsPositive, RetriesPositive, PendingPositive
<1>0. Parts
  BY DEF LInv, Parts
<1>1. TNum'
  BY <1>0 DEF Parts, TNum, StorageFails, Answer, Reply, Nothing, Message, keeping, writer,
     wire, backend, screen
<1>2. TFlags'
  BY <1>0 DEF Parts, TFlags, StorageFails, Answer, Reply, Nothing, Message, keeping, writer,
     wire, backend, screen
<1>3. TPlaces'
  BY <1>0 DEF Parts, TPlaces, StorageFails, Answer, Reply, Nothing, Message, keeping,
     writer, wire, backend, screen
<1>4. TSeq'
  BY <1>0 DEF Parts, TSeq, StorageFails, Answer, Reply, Nothing, Message, keeping, writer,
     wire, backend, screen
<1>5. WireTypes'
  BY <1>0 DEF Parts, WireTypes, StorageFails, Answer, Reply, Nothing, Message, keeping,
     writer, wire, backend, screen
<1>6. TPc'
  BY <1>0 DEF Parts, TPc, PcPlaces, Savers, StorageFails, Answer, Reply, Nothing, Message,
     keeping, writer, wire, backend, screen
<1>7. QueueFits'
  BY <1>0 DEF Parts, QueueFits, StorageFails, Answer, Reply, Nothing, Message, keeping,
     writer, wire, backend, screen
<1>8. LogFits'
  BY <1>0 DEF Parts, LogFits, StorageFails, Answer, Reply, Nothing, Message, keeping,
     writer, wire, backend, screen
<1>9. AttemptFits'
  BY <1>0 DEF Parts, AttemptFits, Busy, StorageFails, Answer, Reply, Nothing, Message,
     keeping, writer, wire, backend, screen
<1>10. SocketFits'
  BY <1>0 DEF Parts, SocketFits, StorageFails, Answer, Reply, Nothing, Message, keeping,
     writer, wire, backend, screen
<1>11. WireFits'
  BY <1>0 DEF Parts, WireFits, StorageFails, Answer, Reply, Nothing, Message, keeping,
     writer, wire, backend, screen
<1>12. ScreenFits'
  BY <1>0 DEF Parts, ScreenFits, GuardCounts, TPc, PcPlaces, Savers, StorageFails, Answer,
     Reply, Nothing, Message, keeping, writer, wire, backend, screen
<1>13. QED
  BY <1>1, <1>2, <1>3, <1>4, <1>5, <1>6, <1>7, <1>8, <1>9, <1>10, <1>11, <1>12 DEF LInv, Parts

\* The route sees that its socket is gone.
LEMMA LeaveStep ==
  ASSUME LInv, Leave
  PROVE  LInv'
<1> USE BoundsNat, AttemptsPositive, RetriesPositive, PendingPositive
<1>0. Parts
  BY DEF LInv, Parts
<1>1. TNum'
  BY <1>0 DEF Parts, TNum, Leave, Nothing, Message, keeping, writer, wire, backend, screen
<1>2. TFlags'
  BY <1>0 DEF Parts, TFlags, Leave, Nothing, Message, keeping, writer, wire, backend, screen
<1>3. TPlaces'
  BY <1>0 DEF Parts, TPlaces, Leave, Nothing, Message, keeping, writer, wire, backend,
     screen
<1>4. TSeq'
  BY <1>0 DEF Parts, TSeq, Leave, Nothing, Message, keeping, writer, wire, backend, screen
<1>5. WireTypes'
  BY <1>0 DEF Parts, WireTypes, Leave, Nothing, Message, keeping, writer, wire, backend,
     screen
<1>6. TPc'
  BY <1>0 DEF Parts, TPc, PcPlaces, Savers, Leave, Nothing, Message, keeping, writer, wire,
     backend, screen
<1>7. QueueFits'
  BY <1>0 DEF Parts, QueueFits, Leave, Nothing, Message, keeping, writer, wire, backend,
     screen
<1>8. LogFits'
  BY <1>0 DEF Parts, LogFits, Leave, Nothing, Message, keeping, writer, wire, backend,
     screen
<1>9. AttemptFits'
  BY <1>0 DEF Parts, AttemptFits, Busy, Leave, Nothing, Message, keeping, writer, wire,
     backend, screen
<1>10. SocketFits'
  BY <1>0 DEF Parts, SocketFits, Leave, Nothing, Message, keeping, writer, wire, backend,
     screen
<1>11. WireFits'
  BY <1>0 DEF Parts, WireFits, Leave, Nothing, Message, keeping, writer, wire, backend,
     screen
<1>12. ScreenFits'
  BY <1>0 DEF Parts, ScreenFits, GuardCounts, TPc, PcPlaces, Savers, Leave, Nothing,
     Message, keeping, writer, wire, backend, screen
<1>13. QED
  BY <1>1, <1>2, <1>3, <1>4, <1>5, <1>6, <1>7, <1>8, <1>9, <1>10, <1>11, <1>12 DEF LInv, Parts

\* cleanup().
LEMMA CleanupStep ==
  ASSUME LInv, Cleanup
  PROVE  LInv'
<1> USE BoundsNat, AttemptsPositive, RetriesPositive, PendingPositive
<1>0. Parts
  BY DEF LInv, Parts
<1>1. TNum'
  BY <1>0 DEF Parts, TNum, Cleanup, Nothing, Message, keeping, writer, wire, backend, screen
<1>2. TFlags'
  BY <1>0 DEF Parts, TFlags, Cleanup, Nothing, Message, keeping, writer, wire, backend,
     screen
<1>3. TPlaces'
  BY <1>0 DEF Parts, TPlaces, Cleanup, Nothing, Message, keeping, writer, wire, backend,
     screen
<1>4. TSeq'
  BY <1>0 DEF Parts, TSeq, Cleanup, Nothing, Message, keeping, writer, wire, backend, screen
<1>5. WireTypes'
  BY <1>0 DEF Parts, WireTypes, Cleanup, Nothing, Message, keeping, writer, wire, backend,
     screen
<1>6. TPc'
  BY <1>0 DEF Parts, TPc, PcPlaces, Savers, Cleanup, Nothing, Message, keeping, writer,
     wire, backend, screen
<1>7. QueueFits'
  BY <1>0 DEF Parts, QueueFits, Cleanup, Nothing, Message, keeping, writer, wire, backend,
     screen
<1>8. LogFits'
  BY <1>0 DEF Parts, LogFits, Cleanup, Nothing, Message, keeping, writer, wire, backend,
     screen
<1>9. AttemptFits'
  BY <1>0 DEF Parts, AttemptFits, Busy, Cleanup, Nothing, Message, keeping, writer, wire,
     backend, screen
<1>10. SocketFits'
  BY <1>0 DEF Parts, SocketFits, Cleanup, Nothing, Message, keeping, writer, wire, backend,
     screen
<1>11. WireFits'
  BY <1>0 DEF Parts, WireFits, Cleanup, Nothing, Message, keeping, writer, wire, backend,
     screen
<1>12. ScreenFits'
  BY <1>0 DEF Parts, ScreenFits, GuardCounts, TPc, PcPlaces, Savers, Cleanup, Nothing,
     Message, keeping, writer, wire, backend, screen
<1>13. QED
  BY <1>1, <1>2, <1>3, <1>4, <1>5, <1>6, <1>7, <1>8, <1>9, <1>10, <1>11, <1>12 DEF LInv, Parts

\* The backend dies.
LEMMA CrashStep ==
  ASSUME LInv, Crash
  PROVE  LInv'
<1> USE BoundsNat, AttemptsPositive, RetriesPositive, PendingPositive
<1>0. Parts
  BY DEF LInv, Parts
<1>1. TNum'
  BY <1>0 DEF Parts, TNum, Crash, Nothing, Message, Silence, Reply, keeping, writer, wire,
     backend, screen
<1>2. TFlags'
  BY <1>0 DEF Parts, TFlags, Crash, Nothing, Message, Silence, Reply, keeping, writer, wire,
     backend, screen
<1>3. TPlaces'
  BY <1>0 DEF Parts, TPlaces, Crash, Nothing, Message, Silence, Reply, keeping, writer,
     wire, backend, screen
<1>4. TSeq'
  BY <1>0 DEF Parts, TSeq, Crash, Nothing, Message, Silence, Reply, keeping, writer, wire,
     backend, screen
<1>5. WireTypes'
  BY <1>0 DEF Parts, WireTypes, Crash, Nothing, Message, Silence, Reply, keeping, writer,
     wire, backend, screen
<1>6. TPc'
  BY <1>0 DEF Parts, TPc, PcPlaces, Savers, Crash, Nothing, Message, Silence, Reply,
     keeping, writer, wire, backend, screen
<1>7. QueueFits'
  BY <1>0 DEF Parts, QueueFits, Crash, Nothing, Message, Silence, Reply, keeping, writer,
     wire, backend, screen
<1>8. LogFits'
  BY <1>0 DEF Parts, LogFits, Crash, Nothing, Message, Silence, Reply, keeping, writer,
     wire, backend, screen
<1>9. AttemptFits'
  BY <1>0 DEF Parts, AttemptFits, Busy, Crash, Nothing, Message, Silence, Reply, keeping,
     writer, wire, backend, screen
<1>10. SocketFits'
  BY <1>0 DEF Parts, SocketFits, Crash, Nothing, Message, Silence, Reply, keeping, writer,
     wire, backend, screen
<1>11. WireFits'
  BY <1>0 DEF Parts, WireFits, Crash, Nothing, Message, Silence, Reply, keeping, writer,
     wire, backend, screen
<1>12. ScreenFits'
  BY <1>0 DEF Parts, ScreenFits, GuardCounts, TPc, PcPlaces, Savers, Crash, Nothing,
     Message, Silence, Reply, keeping, writer, wire, backend, screen
<1>13. QED
  BY <1>1, <1>2, <1>3, <1>4, <1>5, <1>6, <1>7, <1>8, <1>9, <1>10, <1>11, <1>12 DEF LInv, Parts

\* A recording is stopped.
LEMMA StopStep ==
  ASSUME LInv, Stop
  PROVE  LInv'
<1> USE BoundsNat, AttemptsPositive, RetriesPositive, PendingPositive
<1>0. Parts
  BY DEF LInv, Parts
<1>1. TNum'
  BY <1>0 DEF Parts, TNum, Stop, keeping, writer, wire, backend, screen
<1>2. TFlags'
  BY <1>0 DEF Parts, TFlags, Stop, keeping, writer, wire, backend, screen
<1>3. TPlaces'
  BY <1>0 DEF Parts, TPlaces, Stop, keeping, writer, wire, backend, screen
<1>4. TSeq'
  BY <1>0 DEF Parts, TSeq, Stop, keeping, writer, wire, backend, screen
<1>5. WireTypes'
  BY <1>0 DEF Parts, WireTypes, Stop, keeping, writer, wire, backend, screen
<1>6. TPc'
  BY <1>0 DEF Parts, TPc, PcPlaces, Savers, Stop, keeping, writer, wire, backend, screen
<1>7. QueueFits'
  BY <1>0 DEF Parts, QueueFits, Stop, keeping, writer, wire, backend, screen
<1>8. LogFits'
  BY <1>0 DEF Parts, LogFits, Stop, keeping, writer, wire, backend, screen
<1>9. AttemptFits'
  BY <1>0 DEF Parts, AttemptFits, Busy, Stop, keeping, writer, wire, backend, screen
<1>10. SocketFits'
  BY <1>0 DEF Parts, SocketFits, Stop, keeping, writer, wire, backend, screen
<1>11. WireFits'
  BY <1>0 DEF Parts, WireFits, Stop, keeping, writer, wire, backend, screen
<1>12. ScreenFits'
  BY <1>0 DEF Parts, ScreenFits, GuardCounts, TPc, PcPlaces, Savers, Stop, keeping, writer,
     wire, backend, screen
<1>13. QED
  BY <1>1, <1>2, <1>3, <1>4, <1>5, <1>6, <1>7, <1>8, <1>9, <1>10, <1>11, <1>12 DEF LInv, Parts

\* The tail is recorded.
LEMMA FlushedStep ==
  ASSUME LInv, Flushed
  PROVE  LInv'
<1> USE BoundsNat, AttemptsPositive, RetriesPositive, PendingPositive
<1>0. Parts
  BY DEF LInv, Parts
<1>1. TNum'
  BY <1>0 DEF Parts, TNum, Flushed, Drained, keeping, writer, wire, backend, screen
<1>2. TFlags'
  BY <1>0 DEF Parts, TFlags, Flushed, Drained, keeping, writer, wire, backend, screen
<1>3. TPlaces'
  BY <1>0 DEF Parts, TPlaces, Flushed, Drained, keeping, writer, wire, backend, screen
<1>4. TSeq'
  BY <1>0 DEF Parts, TSeq, Flushed, Drained, keeping, writer, wire, backend, screen
<1>5. WireTypes'
  BY <1>0 DEF Parts, WireTypes, Flushed, Drained, keeping, writer, wire, backend, screen
<1>6. TPc'
  BY <1>0 DEF Parts, TPc, PcPlaces, Savers, Flushed, Drained, keeping, writer, wire,
     backend, screen
<1>7. QueueFits'
  BY <1>0 DEF Parts, QueueFits, Flushed, Drained, keeping, writer, wire, backend, screen
<1>8. LogFits'
  BY <1>0 DEF Parts, LogFits, Flushed, Drained, keeping, writer, wire, backend, screen
<1>9. AttemptFits'
  BY <1>0 DEF Parts, AttemptFits, Busy, Flushed, Drained, keeping, writer, wire, backend,
     screen
<1>10. SocketFits'
  BY <1>0 DEF Parts, SocketFits, Flushed, Drained, keeping, writer, wire, backend, screen
<1>11. WireFits'
  BY <1>0 DEF Parts, WireFits, Flushed, Drained, keeping, writer, wire, backend, screen
<1>12. ScreenFits'
  BY <1>0 DEF Parts, ScreenFits, GuardCounts, TPc, PcPlaces, Savers, Flushed, Drained,
     keeping, writer, wire, backend, screen
<1>13. QED
  BY <1>1, <1>2, <1>3, <1>4, <1>5, <1>6, <1>7, <1>8, <1>9, <1>10, <1>11, <1>12 DEF LInv, Parts

\* stop() retries.
LEMMA RetryAtOnceStep ==
  ASSUME LInv, RetryAtOnce
  PROVE  LInv'
<1> USE BoundsNat, AttemptsPositive, RetriesPositive, PendingPositive
<1>0. Parts
  BY DEF LInv, Parts
<1>1. TNum'
  BY <1>0 DEF Parts, TNum, RetryAtOnce, Retry, keeping, writer, wire, backend, screen
<1>2. TFlags'
  BY <1>0 DEF Parts, TFlags, RetryAtOnce, Retry, keeping, writer, wire, backend, screen
<1>3. TPlaces'
  BY <1>0 DEF Parts, TPlaces, RetryAtOnce, Retry, keeping, writer, wire, backend, screen
<1>4. TSeq'
  BY <1>0 DEF Parts, TSeq, RetryAtOnce, Retry, keeping, writer, wire, backend, screen
<1>5. WireTypes'
  BY <1>0 DEF Parts, WireTypes, RetryAtOnce, Retry, keeping, writer, wire, backend, screen
<1>6. TPc'
  BY <1>0 DEF Parts, TPc, PcPlaces, Savers, RetryAtOnce, Retry, keeping, writer, wire,
     backend, screen
<1>7. QueueFits'
  BY <1>0 DEF Parts, QueueFits, RetryAtOnce, Retry, keeping, writer, wire, backend, screen
<1>8. LogFits'
  BY <1>0 DEF Parts, LogFits, RetryAtOnce, Retry, keeping, writer, wire, backend, screen
<1>9. AttemptFits'
  BY <1>0 DEF Parts, AttemptFits, Busy, RetryAtOnce, Retry, keeping, writer, wire, backend,
     screen
<1>10. SocketFits'
  BY <1>0 DEF Parts, SocketFits, RetryAtOnce, Retry, keeping, writer, wire, backend, screen,
     AttemptFits, Busy
<1>11. WireFits'
  BY <1>0 DEF Parts, WireFits, RetryAtOnce, Retry, keeping, writer, wire, backend, screen,
     AttemptFits, Busy
<1>12. ScreenFits'
  BY <1>0 DEF Parts, ScreenFits, GuardCounts, TPc, PcPlaces, Savers, RetryAtOnce, Retry,
     keeping, writer, wire, backend, screen
<1>13. QED
  BY <1>1, <1>2, <1>3, <1>4, <1>5, <1>6, <1>7, <1>8, <1>9, <1>10, <1>11, <1>12 DEF LInv, Parts

\* What is left is kept as unsaved.
LEMMA KeepStep ==
  ASSUME LInv, Keep
  PROVE  LInv'
<1> USE BoundsNat, AttemptsPositive, RetriesPositive, PendingPositive
<1>0. Parts
  BY DEF LInv, Parts
<1>1. TNum'
  BY <1>0 DEF Parts, TNum, Keep, Told, keeping, writer, wire, backend, screen
<1>2. TFlags'
  BY <1>0 DEF Parts, TFlags, Keep, Told, keeping, writer, wire, backend, screen
<1>3. TPlaces'
  BY <1>0 DEF Parts, TPlaces, Keep, Told, keeping, writer, wire, backend, screen
<1>4. TSeq'
  BY <1>0 DEF Parts, TSeq, Keep, Told, keeping, writer, wire, backend, screen
<1>5. WireTypes'
  BY <1>0 DEF Parts, WireTypes, Keep, Told, keeping, writer, wire, backend, screen
<1>6. TPc'
  BY <1>0 DEF Parts, TPc, PcPlaces, Savers, Keep, Told, keeping, writer, wire, backend,
     screen
<1>7. QueueFits'
  BY <1>0 DEF Parts, QueueFits, Keep, Told, keeping, writer, wire, backend, screen
<1>8. LogFits'
  BY <1>0 DEF Parts, LogFits, Keep, Told, keeping, writer, wire, backend, screen
<1>9. AttemptFits'
  BY <1>0 DEF Parts, AttemptFits, Busy, Keep, Told, keeping, writer, wire, backend, screen
<1>10. SocketFits'
  BY <1>0 DEF Parts, SocketFits, Keep, Told, keeping, writer, wire, backend, screen
<1>11. WireFits'
  BY <1>0 DEF Parts, WireFits, Keep, Told, keeping, writer, wire, backend, screen
<1>12. ScreenFits'
  BY <1>0 DEF Parts, ScreenFits, GuardCounts, TPc, PcPlaces, Savers, Keep, Told, keeping,
     writer, wire, backend, screen
<1>13. QED
  BY <1>1, <1>2, <1>3, <1>4, <1>5, <1>6, <1>7, <1>8, <1>9, <1>10, <1>11, <1>12 DEF LInv, Parts

\* The connection is ended.
LEMMA FinishStep ==
  ASSUME LInv, NEW s \in Savers, Finish(s)
  PROVE  LInv'
<1> USE BoundsNat, AttemptsPositive, RetriesPositive, PendingPositive
<1>0. Parts
  BY DEF LInv, Parts
<1>1. TNum'
  BY <1>0 DEF Parts, TNum, Finish, Message, keeping, writer, wire, backend, screen
<1>2. TFlags'
  BY <1>0 DEF Parts, TFlags, Finish, Message, keeping, writer, wire, backend, screen
<1>3. TPlaces'
  BY <1>0 DEF Parts, TPlaces, Finish, Message, keeping, writer, wire, backend, screen
<1>4. TSeq'
  BY <1>0 DEF Parts, TSeq, Finish, Message, keeping, writer, wire, backend, screen
<1>5. WireTypes'
  BY <1>0 DEF Parts, WireTypes, Finish, Message, keeping, writer, wire, backend, screen
<1>6. TPc'
  BY <1>0 DEF Parts, TPc, PcPlaces, Savers, Finish, Message, keeping, writer, wire, backend,
     screen
<1>7. QueueFits'
  BY <1>0 DEF Parts, QueueFits, Finish, Message, keeping, writer, wire, backend, screen
<1>8. LogFits'
  BY <1>0 DEF Parts, LogFits, Finish, Message, keeping, writer, wire, backend, screen
<1>9. AttemptFits'
  BY <1>0 DEF Parts, AttemptFits, Busy, Finish, Message, keeping, writer, wire, backend,
     screen
<1>10. SocketFits'
  BY <1>0 DEF Parts, SocketFits, Finish, Message, keeping, writer, wire, backend, screen,
     TPlaces, TFlags
<1>11. WireFits'
  BY <1>0 DEF Parts, WireFits, Finish, Message, keeping, writer, wire, backend, screen
<1>12. ScreenFits'
  BY <1>0 DEF Parts, ScreenFits, GuardCounts, TPc, PcPlaces, Savers, Finish, Message,
     keeping, writer, wire, backend, screen
<1>13. QED
  BY <1>1, <1>2, <1>3, <1>4, <1>5, <1>6, <1>7, <1>8, <1>9, <1>10, <1>11, <1>12 DEF LInv, Parts

\* A recording has stopped.
LEMMA StopDoneStep ==
  ASSUME LInv, StopDone
  PROVE  LInv'
<1> USE BoundsNat, AttemptsPositive, RetriesPositive, PendingPositive
<1>0. Parts
  BY DEF LInv, Parts
<1>1. TNum'
  BY <1>0 DEF Parts, TNum, StopDone, Told, keeping, writer, wire, backend, screen
<1>2. TFlags'
  BY <1>0 DEF Parts, TFlags, StopDone, Told, keeping, writer, wire, backend, screen
<1>3. TPlaces'
  BY <1>0 DEF Parts, TPlaces, StopDone, Told, keeping, writer, wire, backend, screen
<1>4. TSeq'
  BY <1>0 DEF Parts, TSeq, StopDone, Told, keeping, writer, wire, backend, screen
<1>5. WireTypes'
  BY <1>0 DEF Parts, WireTypes, StopDone, Told, keeping, writer, wire, backend, screen
<1>6. TPc'
  BY <1>0 DEF Parts, TPc, PcPlaces, Savers, StopDone, Told, keeping, writer, wire, backend,
     screen
<1>7. QueueFits'
  BY <1>0 DEF Parts, QueueFits, StopDone, Told, keeping, writer, wire, backend, screen
<1>8. LogFits'
  BY <1>0 DEF Parts, LogFits, StopDone, Told, keeping, writer, wire, backend, screen
<1>9. AttemptFits'
  BY <1>0 DEF Parts, AttemptFits, Busy, StopDone, Told, keeping, writer, wire, backend,
     screen
<1>10. SocketFits'
  BY <1>0 DEF Parts, SocketFits, StopDone, Told, keeping, writer, wire, backend, screen
<1>11. WireFits'
  BY <1>0 DEF Parts, WireFits, StopDone, Told, keeping, writer, wire, backend, screen
<1>12. ScreenFits'
  BY <1>0 DEF Parts, ScreenFits, GuardCounts, TPc, PcPlaces, Savers, StopDone, Told,
     keeping, writer, wire, backend, screen
<1>13. QED
  BY <1>1, <1>2, <1>3, <1>4, <1>5, <1>6, <1>7, <1>8, <1>9, <1>10, <1>11, <1>12 DEF LInv, Parts

\* A retry in the background.
LEMMA KeepSavingStep ==
  ASSUME LInv, KeepSaving
  PROVE  LInv'
<1> USE BoundsNat, AttemptsPositive, RetriesPositive, PendingPositive
<1>0. Parts
  BY DEF LInv, Parts
<1>1. TNum'
  BY <1>0 DEF Parts, TNum, KeepSaving, Retry, keeping, writer, wire, backend, screen,
     ScreenFits
<1>2. TFlags'
  BY <1>0 DEF Parts, TFlags, KeepSaving, Retry, keeping, writer, wire, backend, screen
<1>3. TPlaces'
  BY <1>0 DEF Parts, TPlaces, KeepSaving, Retry, keeping, writer, wire, backend, screen
<1>4. TSeq'
  BY <1>0 DEF Parts, TSeq, KeepSaving, Retry, keeping, writer, wire, backend, screen
<1>5. WireTypes'
  BY <1>0 DEF Parts, WireTypes, KeepSaving, Retry, keeping, writer, wire, backend, screen
<1>6. TPc'
  BY <1>0 DEF Parts, TPc, PcPlaces, Savers, KeepSaving, Retry, keeping, writer, wire,
     backend, screen
<1>7. QueueFits'
  BY <1>0 DEF Parts, QueueFits, KeepSaving, Retry, keeping, writer, wire, backend, screen
<1>8. LogFits'
  BY <1>0 DEF Parts, LogFits, KeepSaving, Retry, keeping, writer, wire, backend, screen
<1>9. AttemptFits'
  BY <1>0 DEF Parts, AttemptFits, Busy, KeepSaving, Retry, keeping, writer, wire, backend,
     screen
<1>10. SocketFits'
  BY <1>0 DEF Parts, SocketFits, KeepSaving, Retry, keeping, writer, wire, backend, screen,
     AttemptFits, Busy
<1>11. WireFits'
  BY <1>0 DEF Parts, WireFits, KeepSaving, Retry, keeping, writer, wire, backend, screen,
     AttemptFits, Busy
<1>12. ScreenFits'
  BY <1>0 DEF Parts, ScreenFits, GuardCounts, TPc, PcPlaces, Savers, KeepSaving, Retry,
     keeping, writer, wire, backend, screen
<1>13. QED
  BY <1>1, <1>2, <1>3, <1>4, <1>5, <1>6, <1>7, <1>8, <1>9, <1>10, <1>11, <1>12 DEF LInv, Parts

\* ... and its result.
LEMMA KeptStep ==
  ASSUME LInv, Kept
  PROVE  LInv'
<1> USE BoundsNat, AttemptsPositive, RetriesPositive, PendingPositive
<1>0. Parts
  BY DEF LInv, Parts
<1>1. TNum'
  BY <1>0 DEF Parts, TNum, Kept, StillUnsaved, MoreRetries, keeping, writer, wire, backend,
     screen
<1>2. TFlags'
  BY <1>0 DEF Parts, TFlags, Kept, StillUnsaved, MoreRetries, keeping, writer, wire,
     backend, screen
<1>3. TPlaces'
  BY <1>0 DEF Parts, TPlaces, Kept, StillUnsaved, MoreRetries, keeping, writer, wire,
     backend, screen
<1>4. TSeq'
  BY <1>0 DEF Parts, TSeq, Kept, StillUnsaved, MoreRetries, keeping, writer, wire, backend,
     screen
<1>5. WireTypes'
  BY <1>0 DEF Parts, WireTypes, Kept, StillUnsaved, MoreRetries, keeping, writer, wire,
     backend, screen
<1>6. TPc'
  BY <1>0 DEF Parts, TPc, PcPlaces, Savers, Kept, StillUnsaved, MoreRetries, keeping,
     writer, wire, backend, screen
<1>7. QueueFits'
  BY <1>0 DEF Parts, QueueFits, Kept, StillUnsaved, MoreRetries, keeping, writer, wire,
     backend, screen
<1>8. LogFits'
  BY <1>0 DEF Parts, LogFits, Kept, StillUnsaved, MoreRetries, keeping, writer, wire,
     backend, screen
<1>9. AttemptFits'
  BY <1>0 DEF Parts, AttemptFits, Busy, Kept, StillUnsaved, MoreRetries, keeping, writer,
     wire, backend, screen
<1>10. SocketFits'
  BY <1>0 DEF Parts, SocketFits, Kept, StillUnsaved, MoreRetries, keeping, writer, wire,
     backend, screen
<1>11. WireFits'
  BY <1>0 DEF Parts, WireFits, Kept, StillUnsaved, MoreRetries, keeping, writer, wire,
     backend, screen
<1>12. ScreenFits'
  BY <1>0 DEF Parts, ScreenFits, GuardCounts, TPc, PcPlaces, Savers, Kept, StillUnsaved,
     MoreRetries, keeping, writer, wire, backend, screen
<1>13. QED
  BY <1>1, <1>2, <1>3, <1>4, <1>5, <1>6, <1>7, <1>8, <1>9, <1>10, <1>11, <1>12 DEF LInv, Parts

\* Main asks before it quits.
LEMMA AskStep ==
  ASSUME LInv, Ask
  PROVE  LInv'
<1> USE BoundsNat, AttemptsPositive, RetriesPositive, PendingPositive
<1>0. Parts
  BY DEF LInv, Parts
<1>1. TNum'
  BY <1>0 DEF Parts, TNum, Ask, Retry, Looked, keeping, writer, wire, backend, screen
<1>2. TFlags'
  BY <1>0 DEF Parts, TFlags, Ask, Retry, Looked, keeping, writer, wire, backend, screen
<1>3. TPlaces'
  BY <1>0 DEF Parts, TPlaces, Ask, Retry, Looked, keeping, writer, wire, backend, screen
<1>4. TSeq'
  BY <1>0 DEF Parts, TSeq, Ask, Retry, Looked, keeping, writer, wire, backend, screen
<1>5. WireTypes'
  BY <1>0 DEF Parts, WireTypes, Ask, Retry, Looked, keeping, writer, wire, backend, screen
<1>6. TPc'
  BY <1>0 DEF Parts, TPc, PcPlaces, Savers, Ask, Retry, Looked, keeping, writer, wire,
     backend, screen
<1>7. QueueFits'
  BY <1>0 DEF Parts, QueueFits, Ask, Retry, Looked, keeping, writer, wire, backend, screen
<1>8. LogFits'
  BY <1>0 DEF Parts, LogFits, Ask, Retry, Looked, keeping, writer, wire, backend, screen
<1>9. AttemptFits'
  BY <1>0 DEF Parts, AttemptFits, Busy, Ask, Retry, Looked, keeping, writer, wire, backend,
     screen
<1>10. SocketFits'
  BY <1>0 DEF Parts, SocketFits, Ask, Retry, Looked, keeping, writer, wire, backend, screen,
     AttemptFits, Busy
<1>11. WireFits'
  BY <1>0 DEF Parts, WireFits, Ask, Retry, Looked, keeping, writer, wire, backend, screen,
     AttemptFits, Busy
<1>12. ScreenFits'
  BY <1>0 DEF Parts, ScreenFits, GuardCounts, TPc, PcPlaces, Savers, Ask, Retry, Looked,
     keeping, writer, wire, backend, screen
<1>13. QED
  BY <1>1, <1>2, <1>3, <1>4, <1>5, <1>6, <1>7, <1>8, <1>9, <1>10, <1>11, <1>12 DEF LInv, Parts

\* The retry of a quit and its result.
LEMMA RetriedStep ==
  ASSUME LInv, Retried
  PROVE  LInv'
<1> USE BoundsNat, AttemptsPositive, RetriesPositive, PendingPositive
<1>0. Parts
  BY DEF LInv, Parts
<1>1. TNum'
  BY <1>0 DEF Parts, TNum, Retried, StillUnsaved, Looked, keeping, writer, wire, backend,
     screen
<1>2. TFlags'
  BY <1>0 DEF Parts, TFlags, Retried, StillUnsaved, Looked, keeping, writer, wire, backend,
     screen
<1>3. TPlaces'
  BY <1>0 DEF Parts, TPlaces, Retried, StillUnsaved, Looked, keeping, writer, wire, backend,
     screen
<1>4. TSeq'
  BY <1>0 DEF Parts, TSeq, Retried, StillUnsaved, Looked, keeping, writer, wire, backend,
     screen
<1>5. WireTypes'
  BY <1>0 DEF Parts, WireTypes, Retried, StillUnsaved, Looked, keeping, writer, wire,
     backend, screen
<1>6. TPc'
  BY <1>0 DEF Parts, TPc, PcPlaces, Savers, Retried, StillUnsaved, Looked, keeping, writer,
     wire, backend, screen
<1>7. QueueFits'
  BY <1>0 DEF Parts, QueueFits, Retried, StillUnsaved, Looked, keeping, writer, wire,
     backend, screen
<1>8. LogFits'
  BY <1>0 DEF Parts, LogFits, Retried, StillUnsaved, Looked, keeping, writer, wire, backend,
     screen
<1>9. AttemptFits'
  BY <1>0 DEF Parts, AttemptFits, Busy, Retried, StillUnsaved, Looked, keeping, writer,
     wire, backend, screen
<1>10. SocketFits'
  BY <1>0 DEF Parts, SocketFits, Retried, StillUnsaved, Looked, keeping, writer, wire,
     backend, screen
<1>11. WireFits'
  BY <1>0 DEF Parts, WireFits, Retried, StillUnsaved, Looked, keeping, writer, wire,
     backend, screen
<1>12. ScreenFits'
  BY <1>0 DEF Parts, ScreenFits, GuardCounts, TPc, PcPlaces, Savers, Retried, StillUnsaved,
     Looked, keeping, writer, wire, backend, screen
<1>13. QED
  BY <1>1, <1>2, <1>3, <1>4, <1>5, <1>6, <1>7, <1>8, <1>9, <1>10, <1>11, <1>12 DEF LInv, Parts

\* A quit has waited for the recording.
LEMMA WaitedStep ==
  ASSUME LInv, Waited
  PROVE  LInv'
<1> USE BoundsNat, AttemptsPositive, RetriesPositive, PendingPositive
<1>0. Parts
  BY DEF LInv, Parts
<1>1. TNum'
  BY <1>0 DEF Parts, TNum, Waited, keeping, writer, wire, backend, screen
<1>2. TFlags'
  BY <1>0 DEF Parts, TFlags, Waited, keeping, writer, wire, backend, screen
<1>3. TPlaces'
  BY <1>0 DEF Parts, TPlaces, Waited, keeping, writer, wire, backend, screen
<1>4. TSeq'
  BY <1>0 DEF Parts, TSeq, Waited, keeping, writer, wire, backend, screen
<1>5. WireTypes'
  BY <1>0 DEF Parts, WireTypes, Waited, keeping, writer, wire, backend, screen
<1>6. TPc'
  BY <1>0 DEF Parts, TPc, PcPlaces, Savers, Waited, keeping, writer, wire, backend, screen
<1>7. QueueFits'
  BY <1>0 DEF Parts, QueueFits, Waited, keeping, writer, wire, backend, screen
<1>8. LogFits'
  BY <1>0 DEF Parts, LogFits, Waited, keeping, writer, wire, backend, screen
<1>9. AttemptFits'
  BY <1>0 DEF Parts, AttemptFits, Busy, Waited, keeping, writer, wire, backend, screen
<1>10. SocketFits'
  BY <1>0 DEF Parts, SocketFits, Waited, keeping, writer, wire, backend, screen
<1>11. WireFits'
  BY <1>0 DEF Parts, WireFits, Waited, keeping, writer, wire, backend, screen
<1>12. ScreenFits'
  BY <1>0 DEF Parts, ScreenFits, GuardCounts, TPc, PcPlaces, Savers, Waited, keeping,
     writer, wire, backend, screen
<1>13. QED
  BY <1>1, <1>2, <1>3, <1>4, <1>5, <1>6, <1>7, <1>8, <1>9, <1>10, <1>11, <1>12 DEF LInv, Parts

\* A quit is answered.
LEMMA AnsweredStep ==
  ASSUME LInv, Answered
  PROVE  LInv'
<1> USE BoundsNat, AttemptsPositive, RetriesPositive, PendingPositive
<1>0. Parts
  BY DEF LInv, Parts
<1>1. TNum'
  BY <1>0 DEF Parts, TNum, Answered, keeping, writer, wire, backend, screen
<1>2. TFlags'
  BY <1>0 DEF Parts, TFlags, Answered, keeping, writer, wire, backend, screen
<1>3. TPlaces'
  BY <1>0 DEF Parts, TPlaces, Answered, keeping, writer, wire, backend, screen
<1>4. TSeq'
  BY <1>0 DEF Parts, TSeq, Answered, keeping, writer, wire, backend, screen
<1>5. WireTypes'
  BY <1>0 DEF Parts, WireTypes, Answered, keeping, writer, wire, backend, screen
<1>6. TPc'
  BY <1>0 DEF Parts, TPc, PcPlaces, Savers, Answered, keeping, writer, wire, backend, screen
<1>7. QueueFits'
  BY <1>0 DEF Parts, QueueFits, Answered, keeping, writer, wire, backend, screen
<1>8. LogFits'
  BY <1>0 DEF Parts, LogFits, Answered, keeping, writer, wire, backend, screen
<1>9. AttemptFits'
  BY <1>0 DEF Parts, AttemptFits, Busy, Answered, keeping, writer, wire, backend, screen
<1>10. SocketFits'
  BY <1>0 DEF Parts, SocketFits, Answered, keeping, writer, wire, backend, screen
<1>11. WireFits'
  BY <1>0 DEF Parts, WireFits, Answered, keeping, writer, wire, backend, screen
<1>12. ScreenFits'
  BY <1>0 DEF Parts, ScreenFits, GuardCounts, TPc, PcPlaces, Savers, Answered, keeping,
     writer, wire, backend, screen
<1>13. QED
  BY <1>1, <1>2, <1>3, <1>4, <1>5, <1>6, <1>7, <1>8, <1>9, <1>10, <1>11, <1>12 DEF LInv, Parts

\* The connection breaks.
LEMMA BreakStep ==
  ASSUME LInv, Broken, Connected, faults' \in {faults, faults + 1}, faults' <= Faults
  PROVE  LInv'
<1> USE BoundsNat, AttemptsPositive, RetriesPositive, PendingPositive
<1>0. Parts
  BY DEF LInv, Parts
<1>1. TNum'
  BY <1>0 DEF Parts, TNum, Broken, Connected, Settled, Alarm, Alarmed, Silence, Reply,
     keeping, writer, wire, backend, screen
<1>2. TFlags'
  BY <1>0 DEF Parts, TFlags, Broken, Connected, Settled, Alarm, Alarmed, Silence, Reply,
     keeping, writer, wire, backend, screen
<1>3. TPlaces'
  BY <1>0 DEF Parts, TPlaces, Broken, Connected, Settled, Alarm, Alarmed, Silence, Reply,
     keeping, writer, wire, backend, screen
<1>4. TSeq'
  BY <1>0 DEF Parts, TSeq, Broken, Connected, Settled, Alarm, Alarmed, Silence, Reply,
     keeping, writer, wire, backend, screen
<1>5. WireTypes'
  BY <1>0 DEF Parts, WireTypes, Broken, Connected, Settled, Alarm, Alarmed, Silence, Reply,
     keeping, writer, wire, backend, screen, Nothing, Message, TFlags
<1>6. TPc'
  BY <1>0 DEF Parts, TPc, PcPlaces, Savers, Broken, Connected, Settled, Alarm, Alarmed,
     Silence, Reply, keeping, writer, wire, backend, screen
<1>7. QueueFits'
  BY <1>0 DEF Parts, QueueFits, Broken, Connected, Settled, Alarm, Alarmed, Silence, Reply,
     keeping, writer, wire, backend, screen
<1>8. LogFits'
  BY <1>0 DEF Parts, LogFits, Broken, Connected, Settled, Alarm, Alarmed, Silence, Reply,
     keeping, writer, wire, backend, screen
<1>9. AttemptFits'
  BY <1>0 DEF Parts, AttemptFits, Busy, Broken, Connected, Settled, Alarm, Alarmed, Silence,
     Reply, keeping, writer, wire, backend, screen, TNum
<1>10. SocketFits'
  BY <1>0 DEF Parts, SocketFits, Broken, Connected, Settled, Alarm, Alarmed, Silence, Reply,
     keeping, writer, wire, backend, screen, Nothing, Message, TFlags, WireTypes
<1>11. WireFits'
  BY <1>0 DEF Parts, WireFits, Broken, Connected, Settled, Alarm, Alarmed, Silence, Reply,
     keeping, writer, wire, backend, screen, Nothing, Message, TFlags, WireTypes
<1>12. ScreenFits'
  BY <1>0 DEF Parts, ScreenFits, GuardCounts, TPc, PcPlaces, Savers, Broken, Connected,
     Settled, Alarm, Alarmed, Silence, Reply, keeping, writer, wire, backend, screen
<1>13. QED
  BY <1>1, <1>2, <1>3, <1>4, <1>5, <1>6, <1>7, <1>8, <1>9, <1>10, <1>11, <1>12 DEF LInv, Parts

\* A window is recorded.
LEMMA EnqueueStep ==
  ASSUME LInv, Enqueue
  PROVE  LInv'
<1> USE BoundsNat, AttemptsPositive, RetriesPositive, PendingPositive
<1>0. Parts
  BY DEF LInv, Parts
<1>1. /\ made \in 0..Windows - 1 /\ made < Windows
      /\ ~Refuses => made = seq + Len(queue) /\ dropped = 0 /\ (Len(queue) >= MaxPending => over < 2)
      /\ Len(queue) \in Nat /\ dropped < Windows
  BY <1>0 DEF Parts, Enqueue, Refuses, TNum, TSeq, QueueFits
<1>2. ASSUME ~Refuses
      PROVE  /\ Append(queue, made) \in Seq(0..Windows - 1)
             /\ Len(Append(queue, made)) = Len(queue) + 1
             /\ Holds(Append(queue, made), seq)
             /\ Append(queue, made) # <<>>
  <2>1. /\ Windows \in Nat /\ seq \in Nat /\ queue \in Seq(0..Windows - 1)
        /\ Holds(queue, seq) /\ made = seq + Len(queue) /\ made \in 0..Windows - 1
    BY <1>0, <1>1, <1>2 DEF Parts, TNum, TSeq, QueueFits
  <2>2. QED
    BY <2>1, HoldsAppend
<1>3. TNum'
  BY <1>0, <1>1 DEF Parts, TNum, Enqueue, Refuses, Alarm, Alarmed, keeping, writer, wire,
     backend, screen
<1>4. TFlags'
  BY <1>0 DEF Parts, TFlags, Enqueue, Refuses, Alarm, Alarmed, keeping, writer, wire,
     backend, screen
<1>5. TPlaces'
  BY <1>0 DEF Parts, TPlaces, Enqueue, Refuses, Alarm, Alarmed, keeping, writer, wire,
     backend, screen
<1>6. TSeq'
  BY <1>0, <1>1, <1>2 DEF Parts, TSeq, Enqueue, Refuses, Alarm, Alarmed, keeping, writer,
     wire, backend, screen, TNum
<1>7. WireTypes'
  BY <1>0 DEF Parts, WireTypes, Enqueue, Refuses, Alarm, Alarmed, keeping, writer, wire,
     backend, screen
<1>8. TPc'
  BY <1>0 DEF Parts, TPc, PcPlaces, Savers, Enqueue, Refuses, Alarm, Alarmed, keeping,
     writer, wire, backend, screen
<1>9. QueueFits'
  <2>1. CASE Refuses
    BY <1>0, <1>1, <2>1 DEF Parts, QueueFits, TNum, Enqueue, writer
  <2>2. CASE ~Refuses
    <3>1. queue' = Append(queue, made) /\ seq' = seq /\ made' = made + 1 /\ dropped' = dropped
      BY <2>2 DEF Enqueue, writer
    <3>2. Len(queue) < MaxPending \/ over' = over + 1
      BY <2>2, <1>1 DEF Enqueue
    <3>3. over' >= over
      BY <2>2, <1>0 DEF Enqueue, Parts, TNum
    <3>4. Holds(queue', seq') /\ Len(queue') = Len(queue) + 1
      BY <3>1, <2>2, <1>2
    <3>5. made' = seq' + Len(queue') + dropped'
      BY <3>1, <3>4, <2>2, <1>0, <1>1 DEF Parts, TNum
    <3>6. Len(queue') <= MaxPending + over'
      <4>1. over \in Nat /\ over' \in Nat /\ Len(queue) \in Nat /\ MaxPending \in Nat
        BY <1>0, <1>1, <1>3 DEF Parts, TNum
      <4>2. Len(queue) <= MaxPending + over
        BY <1>0 DEF Parts, QueueFits
      <4>3. QED
        BY <4>1, <4>2, <3>2, <3>3, <3>4
    <3>7. QED
      BY <3>4, <3>5, <3>6 DEF QueueFits
  <2>3. QED
    BY <2>1, <2>2
<1>10. LogFits'
  BY <1>0, <1>1, <1>2 DEF Parts, LogFits, Enqueue, Refuses, Alarm, Alarmed, keeping, writer,
     wire, backend, screen
<1>11. AttemptFits'
  BY <1>0, <1>1, <1>2 DEF Parts, AttemptFits, Busy, Enqueue, Refuses, Alarm, Alarmed,
     keeping, writer, wire, backend, screen
<1>12. SocketFits'
  BY <1>0 DEF Parts, SocketFits, Enqueue, Refuses, Alarm, Alarmed, keeping, writer, wire,
     backend, screen, Busy
<1>13. WireFits'
  BY <1>0 DEF Parts, WireFits, Enqueue, Refuses, Alarm, Alarmed, keeping, writer, wire,
     backend, screen, Busy
<1>14. ScreenFits'
  BY <1>0, <1>1, <1>2 DEF Parts, ScreenFits, GuardCounts, TPc, PcPlaces, Savers, Enqueue,
     Refuses, Alarm, Alarmed, keeping, writer, wire, backend, screen
<1>15. QED
  BY <1>3, <1>4, <1>5, <1>6, <1>7, <1>8, <1>9, <1>10, <1>11, <1>12, <1>13, <1>14 DEF LInv, Parts

\* A window is stored.
LEMMA StoredStep ==
  ASSUME LInv, Stored, Busy, Len(log) = seq + 1, link # "failed", op # "open", op # "sleep",
         reply' \in {reply, Silence}, reply'.type # "saved", reply'.type # "opened",
         inbox.type = "audio" => ~here,
         UNCHANGED made, UNCHANGED dropped, UNCHANGED faults, UNCHANGED blocked, UNCHANGED link,
         UNCHANGED hello, UNCHANGED inbox, UNCHANGED backend, UNCHANGED screen
  PROVE  LInv'
<1> USE BoundsNat, AttemptsPositive, RetriesPositive, PendingPositive
<1>0. Parts
  BY DEF LInv, Parts
<1>1. /\ queue # <<>> /\ seq \in 0..Windows - 1
      /\ Tail(queue) \in Seq(0..Windows - 1) /\ Len(Tail(queue)) = Len(queue) - 1
      /\ Holds(Tail(queue), seq + 1)
      /\ Len(queue) = 1 <=> Tail(queue) = <<>>
      /\ Len(queue) \in Nat \ {0}
  BY <1>0, HoldsTail, SMTT(30) DEF Parts, AttemptFits, TNum, TSeq, QueueFits
<1>2. /\ queue' = Tail(queue) /\ seq' = seq + 1 /\ tries' \in {0, 1}
      /\ over' = over \/ (over' = 0 /\ Len(queue) = 1)
      /\ (queue' = <<>> /\ pc' = Settled(pc, TRUE)) \/ UNCHANGED pc
  BY <1>1 DEF Stored
<1>3. TNum'
  BY <1>0, <1>1, <1>2, SMTT(30) DEF Parts, TNum, screen
<1>4. TFlags'
  BY <1>0 DEF Parts, TFlags, Stored, Settled, Silence, Reply, keeping, writer, wire,
     backend, screen
<1>5. TPlaces'
  BY <1>0 DEF Parts, TPlaces, Stored, Settled, Silence, Reply, keeping, writer, wire,
     backend, screen
<1>6. TSeq'
  BY <1>0, <1>1 DEF Parts, TSeq, Stored, Settled, Silence, Reply, keeping, writer, wire,
     backend, screen
<1>7. WireTypes'
  BY <1>0 DEF Parts, WireTypes, Stored, Settled, Silence, Reply, keeping, writer, wire,
     backend, screen
<1>8. TPc'
  BY <1>0 DEF Parts, TPc, PcPlaces, Savers, Stored, Settled, Silence, Reply, keeping,
     writer, wire, backend, screen
<1>9. QueueFits'
  <2>1. Holds(queue', seq')
    BY <1>1, <1>2
  <2>2. made' = seq' + Len(queue') + dropped'
    BY <1>0, <1>1, <1>2 DEF Parts, QueueFits, TNum
  <2>3. Len(queue') <= MaxPending + over'
    <3>1. Len(queue') = Len(queue) - 1 /\ Len(queue) \in Nat \ {0}
      BY <1>1, <1>2
    <3>2. Len(queue) <= MaxPending + over /\ over \in 0..2
      BY <1>0 DEF Parts, QueueFits, TNum
    <3>3. over' = over \/ (over' = 0 /\ Len(queue) = 1)
      BY <1>2
    <3>4. QED
      BY <3>1, <3>2, <3>3
  <2>4. QED
    BY <2>1, <2>2, <2>3 DEF QueueFits
<1>10. LogFits'
  BY <1>0, <1>1 DEF Parts, LogFits, Stored, Settled, Silence, Reply, keeping, writer, wire,
     backend, screen, TNum
<1>11. AttemptFits'
  BY <1>0, <1>1 DEF Parts, AttemptFits, Busy, Stored, Settled, Silence, Reply, keeping,
     writer, wire, backend, screen
<1>12. SocketFits'
  BY <1>0 DEF Parts, SocketFits, Stored, Settled, Silence, Reply, keeping, writer, wire,
     backend, screen, TNum
<1>13. WireFits'
  <2>1. here' = here /\ log' = log
    BY DEF backend
  <2>2. inbox.type = "audio" => inbox.window = inbox.seq /\ inbox.seq < seq'
    BY <1>0, <1>1, <1>2 DEF Parts, WireFits, WireTypes, TNum
  <2>3. inbox.type = "audio" =>
          /\ inbox.window = inbox.seq /\ inbox.seq <= seq'
          /\ inbox.seq # seq' /\ ~here'
    BY <2>1, <2>2, <1>0, <1>3 DEF Parts, WireTypes, TNum
  <2>4. QED
    BY <2>3 DEF WireFits
<1>14. ScreenFits'
  BY <1>0, <1>1, <1>2 DEF Parts, ScreenFits, GuardCounts, TPc, PcPlaces, Savers, Settled,
     screen
<1>15. QED
  BY <1>3, <1>4, <1>5, <1>6, <1>7, <1>8, <1>9, <1>10, <1>11, <1>12, <1>13, <1>14 DEF LInv, Parts

\* A window arrives at the backend.
LEMMA AppendAudioStep ==
  ASSUME LInv, AppendAudio
  PROVE  LInv'
<1> USE BoundsNat, AttemptsPositive, RetriesPositive, PendingPositive
<1>0. Parts
  BY DEF LInv, Parts
<1>1. \/ log' = log /\ (inbox.seq = Len(log) - 1 \/ reply' = reply \/ reply'.type = "error")
      \/ log' = Append(log, Len(log)) /\ Len(log) = seq /\ inbox.seq = seq /\ queue # <<>> /\ attempted
  BY <1>0 DEF Parts, WireFits, WireTypes, LogFits, AppendAudio, Answer, Reply, TNum, TSeq, TFlags
<1>2. Len(log) \in Nat /\ log \in Seq(0..Windows - 1)
  BY <1>0 DEF Parts, TSeq
<1>3. ASSUME queue # <<>>, Len(log) = seq
      PROVE  /\ Append(log, Len(log)) \in Seq(0..Windows - 1)
             /\ Len(Append(log, Len(log))) = Len(log) + 1
             /\ \A i \in 1..Len(log) + 1 : Append(log, Len(log))[i] = IF i = Len(log) + 1 THEN Len(log) ELSE log[i]
  <2>1. seq \in 0..Windows - 1
    BY <1>0, <1>3, HoldsTail DEF Parts, QueueFits, TNum, TSeq
  <2>2. QED
    BY <2>1, <1>2, <1>3, AppendFacts
<1>4. TNum'
  BY <1>0 DEF Parts, TNum, AppendAudio, Answer, Reply, Nothing, Message, keeping, writer,
     wire, backend, screen
<1>5. TFlags'
  BY <1>0 DEF Parts, TFlags, AppendAudio, Answer, Reply, Nothing, Message, keeping, writer,
     wire, backend, screen
<1>6. TPlaces'
  BY <1>0 DEF Parts, TPlaces, AppendAudio, Answer, Reply, Nothing, Message, keeping, writer,
     wire, backend, screen
<1>7. TSeq'
  BY <1>0, <1>1, <1>2, <1>3 DEF Parts, TSeq, AppendAudio, keeping, writer
<1>8. WireTypes'
  BY <1>0 DEF Parts, WireTypes, AppendAudio, Answer, Reply, Nothing, Message, keeping,
     writer, wire, backend, screen, TNum
<1>9. TPc'
  BY <1>0 DEF Parts, TPc, PcPlaces, Savers, AppendAudio, Answer, Reply, Nothing, Message,
     keeping, writer, wire, backend, screen
<1>10. QueueFits'
  BY <1>0 DEF Parts, QueueFits, AppendAudio, Answer, Reply, Nothing, Message, keeping,
     writer, wire, backend, screen
<1>11. LogFits'
  BY <1>0, <1>1, <1>2, <1>3, SMTT(30) DEF Parts, LogFits, TNum, writer, keeping, AppendAudio
<1>12. AttemptFits'
  BY <1>0 DEF Parts, AttemptFits, Busy, AppendAudio, Answer, Reply, Nothing, Message,
     keeping, writer, wire, backend, screen
<1>13. SocketFits'
  BY <1>0 DEF Parts, SocketFits, AppendAudio, Answer, Reply, Nothing, Message, keeping,
     writer, wire, backend, screen, WireTypes
<1>14. WireFits'
  <2>1. inbox'.type = "none" /\ reply'.type \in {reply.type, "saved", "error"}
    BY <1>0 DEF AppendAudio, Answer, Reply, Nothing, Message
  <2>2. ASSUME reply'.type = "saved" PROVE op' = "audio" /\ Len(log') = seq' + 1
    <3>1. op' = op /\ seq' = seq
      BY DEF AppendAudio, writer
    <3>2. CASE here
      BY <1>0, <1>1, <1>2, <1>3, <2>2, <3>1, <3>2 DEF Parts, WireFits, AppendAudio, Answer, Reply, TNum, TFlags
    <3>3. CASE ~here
      BY <1>0, <2>2, <3>1, <3>3 DEF Parts, WireFits, AppendAudio, Answer
    <3>4. QED
      BY <3>2, <3>3
  <2>3. ASSUME reply'.type = "opened" PROVE op' = "open" /\ reply'.next = Len(log')
    BY <1>0, <2>3 DEF Parts, WireFits, AppendAudio, Answer, Reply
  <2>4. QED
    BY <2>1, <2>2, <2>3 DEF WireFits
<1>15. ScreenFits'
  BY <1>0 DEF Parts, ScreenFits, GuardCounts, TPc, PcPlaces, Savers, AppendAudio, Answer,
     Reply, Nothing, Message, keeping, writer, wire, backend, screen
<1>16. QED
  BY <1>4, <1>5, <1>6, <1>7, <1>8, <1>9, <1>10, <1>11, <1>12, <1>13, <1>14, <1>15 DEF LInv, Parts

\* A window that had arrived before the connection broke is stored without being sent again.
LEMMA RecoveredStep ==
  ASSUME LInv, Recovered
  PROVE  LInv'
<1>0. Parts
  BY DEF LInv, Parts
<1>1. Stored /\ Busy /\ Len(log) = seq + 1 /\ link # "failed" /\ op = "call"
  BY <1>0 DEF Parts, LogFits, Recovered, Busy
<1>2. reply' = reply /\ reply.type # "saved" /\ reply.type # "opened"
  BY <1>0, <1>1 DEF Parts, WireFits, Recovered, wire
<1>3. inbox.type = "audio" => ~here
  BY <1>0, <1>1 DEF Parts, WireFits
<1>4. QED
  BY <1>1, <1>2, <1>3, StoredStep DEF Recovered, wire

\* A window is acknowledged.
LEMMA AcknowledgedStep ==
  ASSUME LInv, Acknowledged
  PROVE  LInv'
<1>0. Parts
  BY DEF LInv, Parts
<1>1. Stored /\ Busy /\ op = "audio"
  BY DEF Acknowledged, Busy
<1>2. Len(log) = seq + 1 /\ inbox.type # "audio"
  BY <1>0 DEF Parts, WireFits, Acknowledged
<1>3. link # "failed"
  BY <1>0, <1>1 DEF Parts, AttemptFits
<1>4. reply' = Silence /\ Silence.type = "none"
  BY DEF Acknowledged, Silence, Reply
<1>5. QED
  BY <1>1, <1>2, <1>3, <1>4, StoredStep DEF Acknowledged

\* The connection breaks: by itself, or because the backend closed it.
LEMMA ClosedStep ==
  ASSUME LInv, Break \/ Closed
  PROVE  LInv'
<1>1. Broken /\ Connected /\ faults' \in {faults, faults + 1}
  BY DEF Break, Closed
<1>2. faults' <= Faults
  BY BoundsNat DEF LInv, Parts, TNum, Break, Closed
<1>3. QED
  BY <1>1, <1>2, BreakStep

\* Whatever the window, main, the wire and the backend do next, LInv goes on.
LEMMA NextLInv ==
  ASSUME LInv, [QuitNext]_quitVars
  PROVE  LInv'
<1>1. ASSUME Delivery PROVE LInv'
  BY <1>1, WakeStep, ReopenStep, OpenedStep, SendStep, RecoveredStep, AcknowledgedStep, EndedStep,
     ClosedStep DEF Delivery
<1>2. ASSUME Stopping PROVE LInv'
  BY <1>2, FlushedStep, RetryAtOnceStep, KeepStep, FinishStep, StopDoneStep DEF Stopping, Savers
<1>3. ASSUME Keeping PROVE LInv'
  BY <1>3, KeepSavingStep, KeptStep, FinishStep DEF Keeping, Savers
<1>4. ASSUME Routing PROVE LInv'
  BY <1>4, AcceptStep, AppendAudioStep, EndStep, LeaveStep, CleanupStep DEF Routing
<1>5. ASSUME Hellos \/ Trouble PROVE LInv'
  BY <1>5, HelloStep, ClosedStep, FailsStep, CrashStep DEF Hellos, Trouble
<1>6. ASSUME Finish("quit") PROVE LInv'
  BY <1>6, FinishStep DEF Savers
<1>7. ASSUME Next PROVE LInv'
  BY <1>1, <1>2, <1>3, <1>4, <1>5, <1>6, <1>7, EnqueueStep, StopStep DEF Next
<1>8. ASSUME UNCHANGED vars PROVE LInv'
  BY <1>8 DEF vars, keeping, writer, wire, backend, screen, LInv, Parts, TNum, TFlags, TPlaces,
     TSeq, WireTypes, TPc, QueueFits, LogFits, AttemptFits, Busy, SocketFits, WireFits,
     ScreenFits, GuardCounts
<1>9. CASE QuitNext
  BY <1>7, <1>8, <1>9, AskStep, RetriedStep, WaitedStep, AnsweredStep DEF QuitNext, Late
<1>10. CASE UNCHANGED quitVars
  BY <1>8, <1>10 DEF quitVars
<1>11. QED
  BY <1>9, <1>10

\* LInv holds in every state a recording and the quits around it can reach, whatever fails on the way
\* of the sound (persistenceQueue.ts, nativeWriter.ts, nativeLive.ts, routes/live.py,
\* recordingStore.ts).
THEOREM QuitInvariant == QuitSpec => []LInv
<1>1. QuitInit => LInv
  BY InitLInv DEF QuitInit
<1>2. LInv /\ [QuitNext]_quitVars => LInv'
  BY NextLInv
<1>3. QED
  BY <1>1, <1>2, PTL DEF QuitSpec

(***************************************************************************)
(* Theorems                                                                *)
(***************************************************************************)

QuitPlaces == quit \in {"no", "saving", "gone"}

\* The state of the window, the writer, the wire, the route and the quit is always of its type
\* (persistenceQueue.ts, nativeWriter.ts, routes/live.py, recordingStore.ts).
THEOREM TypeCorrect == QuitSpec => []QuitTypeOK
<1>1. LInv => TypeOK
  BY DEF LInv, Parts, TNum, TFlags, TPlaces, TSeq, WireTypes, TPc, PcPlaces, TypeOK
<1>2. QuitInit => QuitPlaces
  BY DEF QuitInit, QuitPlaces
<1>3. QuitPlaces /\ [QuitNext]_quitVars => QuitPlaces'
  BY DEF QuitPlaces, QuitNext, quitVars, Ask, Retried, Waited, Answered, Late
<1>4. LInv /\ QuitPlaces => QuitTypeOK
  BY <1>1 DEF QuitPlaces, QuitTypeOK
<1>5. QED
  BY <1>2, <1>3, <1>4, QuitInvariant, PTL DEF QuitSpec

\* No window of sound is lost by a time-out, a broken or reordered connection, a failed write, a
\* crash of the backend, a stop or a quit: what was not refused is in the backend's log or in the
\* window's queue (persistenceQueue.ts run, nativeWriter.ts store, live_store.py append_audio).
THEOREM NothingIsForgotten == QuitSpec => []NothingForgotten
<1>1. ASSUME LInv PROVE NothingForgotten
  <2>1. SUFFICES ASSUME NEW w \in 0..(made - dropped) - 1
                 PROVE  \/ w < Len(log) /\ log[w + 1] = w
                        \/ \E i \in 1..Len(queue) : queue[i] = w
    BY DEF NothingForgotten
  <2>2. /\ seq \in Nat /\ made \in Nat /\ dropped \in Nat /\ Len(queue) \in Nat /\ Len(log) \in Nat
        /\ made = seq + Len(queue) + dropped
    BY <1>1, BoundsNat DEF LInv, Parts, TNum, TSeq, QueueFits
  <2>3. CASE w < seq
    <3>1. w < Len(log) /\ w + 1 \in 1..Len(log)
      BY <2>2, <2>3, <1>1 DEF LInv, Parts, LogFits
    <3>2. log[w + 1] = w
      BY <3>1, <1>1 DEF LInv, Parts, LogFits
    <3>3. QED
      BY <3>1, <3>2
  <2>4. CASE w >= seq
    <3>1. w - seq + 1 \in 1..Len(queue)
      BY <2>2, <2>4
    <3>2. queue[w - seq + 1] = seq + (w - seq + 1) - 1
      BY <3>1, <1>1 DEF LInv, Parts, QueueFits, Holds
    <3>3. queue[w - seq + 1] = w
      BY <3>2, <2>2
    <3>4. QED
      BY <3>1, <3>3
  <2>5. QED
    BY <2>2, <2>3, <2>4
<1>2. QED
  BY <1>1, QuitInvariant, PTL

\* After any reconnect the backend's clock is the writer's, or one window ahead when that window had
\* been sent: the writer never refuses a connection for its clock (nativeWriter.ts open).
THEOREM ClocksAgree == QuitSpec => []ClockAgrees
<1>1. LInv => ClockAgrees
  BY DEF LInv, Parts, AttemptFits, ClockAgrees
<1>2. QED
  BY <1>1, QuitInvariant, PTL

\* The window never holds more than two windows past the limit (persistenceQueue.ts enqueue).
THEOREM QueueIsBounded == QuitSpec => []Bounded
<1>1. ASSUME LInv PROVE Bounded
  <2>1. Len(queue) <= MaxPending + over /\ over \in 0..2 /\ Len(queue) \in Nat
    BY <1>1 DEF LInv, Parts, QueueFits, TNum, TSeq
  <2>2. QED
    BY <2>1, PendingPositive DEF Bounded
<1>2. QED
  BY <1>1, QuitInvariant, PTL

\* Sound that a stopped recording still holds is kept as unsaved, so that the guard of a quit and
\* the retries see it (recordingStore.ts keepSaving).
THEOREM GuardAlwaysCounts == QuitSpec => []GuardCounts
<1>1. LInv => GuardCounts
  BY DEF LInv, Parts, ScreenFits
<1>2. QED
  BY <1>1, QuitInvariant, PTL

\* When prepareQuit answers "saved" without having waited for a recording that was finishing, the
\* window holds no sound any more (recordingStore.ts prepareQuit).
THEOREM SavedMeansSaved == QuitSpec => []SavedIsSaved
<1>1. LInv => SavedIsSaved
  BY DEF LInv, Parts, ScreenFits, SavedIsSaved
<1>2. QED
  BY <1>1, QuitInvariant, PTL

\* A step of the backend's store adds nothing to the log, or the next window, which was recorded and
\* not refused.
LEMMA LogGrows ==
  ASSUME LInv, AppendAudio
  PROVE  \/ UNCHANGED log
         \/ log' = Append(log, Len(log)) /\ Len(log) < made - dropped
<1>0. Parts
  BY DEF LInv, Parts
<1>1. \/ log' = log
      \/ log' = Append(log, Len(log)) /\ Len(log) = seq /\ queue # <<>>
  BY <1>0 DEF Parts, WireFits, WireTypes, LogFits, AppendAudio, TNum, TSeq, TFlags
<1>2. queue # <<>> => Len(queue) > 0 /\ Len(queue) \in Nat
  BY <1>0 DEF Parts, TSeq
<1>3. made = seq + Len(queue) + dropped /\ seq \in Nat /\ dropped \in Nat
  BY <1>0, BoundsNat DEF Parts, QueueFits, TNum
<1>4. QED
  BY <1>1, <1>2, <1>3

\* Every step of the window, main, the wire and the backend is a step of AudioLog or none.
LEMMA StepsKeepTheLog ==
  ASSUME LInv, [QuitNext]_quitVars
  PROVE  [Sound!Next]_<<made, dropped, log>>
<1>1. CASE Enqueue
  <2>1. UNCHANGED log /\ made' = made + 1
    BY <1>1 DEF Enqueue, backend
  <2>2. CASE Refuses
    BY <1>1, <2>1, <2>2 DEF Enqueue, Sound!Next, Sound!Refuse
  <2>3. CASE ~Refuses
    <3>1. dropped = 0 /\ UNCHANGED dropped
      BY <1>1, <2>3, BoundsNat DEF Enqueue, Refuses, LInv, Parts, TNum
    <3>2. QED
      BY <2>1, <3>1 DEF Sound!Next, Sound!Hear
  <2>4. QED
    BY <2>2, <2>3
<1>2. CASE AppendAudio
  <2>1. UNCHANGED <<made, dropped>>
    BY <1>2 DEF AppendAudio, keeping
  <2>2. QED
    BY <2>1, <1>2, LogGrows DEF Sound!Next, Sound!Keep
<1>3. ASSUME Delivery PROVE UNCHANGED <<made, dropped, log>>
  BY <1>3 DEF Delivery, Wake, Reopen, Opened, Send, Recovered, Acknowledged, Ended, Closed, Broken,
     keeping, backend
<1>4. ASSUME Stopping \/ Keeping \/ Finish("quit") \/ Stop PROVE UNCHANGED <<made, dropped, log>>
  BY <1>4 DEF Stopping, Keeping, Stop, Flushed, RetryAtOnce, Retry, Keep, Finish, StopDone,
     KeepSaving, Kept, keeping, backend
<1>5. ASSUME Routing, ~AppendAudio PROVE UNCHANGED <<made, dropped, log>>
  BY <1>5 DEF Routing, Accept, End, Leave, Cleanup, keeping, backend
<1>6. ASSUME Hellos \/ Trouble PROVE UNCHANGED <<made, dropped, log>>
  BY <1>6 DEF Hellos, Hello, Trouble, Break, Broken, StorageFails, Crash, keeping, backend
<1>7. ASSUME Ask \/ Retried \/ Waited \/ Answered \/ Late PROVE UNCHANGED <<made, dropped, log>>
  BY <1>7 DEF Ask, Retry, Retried, Waited, Answered, Late, vars, keeping, backend
<1>8. CASE UNCHANGED quitVars
  BY <1>8 DEF quitVars, vars, keeping, backend
<1>9. QED
  BY <1>1, <1>2, <1>3, <1>4, <1>5, <1>6, <1>7, <1>8 DEF QuitNext, Next

\* The recording refines AudioLog: the backend's log is the sound in the order it was recorded, each
\* window once, and without a hole (live_store.py append_audio, persistenceQueue.ts enqueue).
THEOREM RecordingKeepsTheLog == QuitSpec => KeepsTheLog
<1>1. QuitInit => Sound!Init
  BY DEF QuitInit, Init, Sound!Init
<1>2. LInv /\ [QuitNext]_quitVars => [Sound!Next]_<<made, dropped, log>>
  BY StepsKeepTheLog
<1>3. QED
  BY <1>1, <1>2, QuitInvariant, PTL DEF QuitSpec, KeepsTheLog, Sound!Spec
===============================================================================
