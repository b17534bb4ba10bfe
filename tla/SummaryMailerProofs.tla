------------------------ MODULE SummaryMailerProofs ------------------------
(***************************************************************************)
(* Nothing that reaches the event log in time is skipped by the nightly     *)
(* summary, for any number of instances, events and recipients, however     *)
(* often a night fails, but for what runs without a marker leave out.       *)
(***************************************************************************)
EXTENDS SummaryMailer, TLAPS

----------------------------------------------------------------------------
(* A number is d times its quotient and a rest below d.                      *)

LEMMA DivMod ==
  ASSUME NEW d \in Nat \ {0}, NEW t \in Int
  PROVE  t % d \in 0..(d - 1) /\ t \div d \in Int /\ t = d * (t \div d) + (t % d)
OBVIOUS

LEMMA LessThanOnce ==
  ASSUME NEW d \in Nat \ {0}, NEW m \in Int, 0 <= d * m, d * m < d
  PROVE  m = 0
<1>1. CASE m >= 1
  <2>1. d * m >= d * 1
    BY <1>1
  <2> QED BY <2>1
<1>2. CASE m <= 0 - 1
  <2>1. d * m <= d * (0 - 1)
    BY <1>2
  <2> QED BY <2>1
<1> QED BY <1>1, <1>2

LEMMA Distributes ==
  ASSUME NEW d \in Int, NEW a \in Int, NEW b \in Int
  PROVE  d * (a - b) = d * a - d * b
OBVIOUS

\* A time has one day and one hour of the day.
LEMMA ModOfSum ==
  ASSUME NEW d \in Nat \ {0}, NEW a \in Int, NEW h \in 0..(d - 1)
  PROVE  (d * a + h) % d = h
<1> DEFINE t == d * a + h
           m == t \div d
           r == t % d
<1>0. t \in Int
  OBVIOUS
<1>1. m \in Int /\ r \in 0..(d - 1) /\ t = d * m + r
  BY <1>0, DivMod
<1>2. d * a \in Int /\ d * m \in Int
  BY <1>1
<1>3. d * a + h = d * m + r
  BY <1>1
<1>4. d * (a - m) = r - h /\ d * (m - a) = h - r
  BY <1>1, <1>2, <1>3, Distributes
<1> HIDE DEF m, r
<1>5. CASE r >= h
  BY <1>1, <1>4, <1>5, LessThanOnce
<1>6. CASE r < h
  BY <1>1, <1>4, <1>6, LessThanOnce
<1>7. r = h
  BY <1>1, <1>4, <1>5, <1>6
<1> QED BY <1>7 DEF r

----------------------------------------------------------------------------

USE SummaryAssumption

Running == {"collect", "send", "mark"}

\* What WindowsAreComplete says of one instance.
WindowOf(i) ==
  /\ pc[i] \in Running /\ ~blind[i] =>
       \A e \in timely : at[e] < since[i] => MailedToAll(e) \/ IsLeftOut(e)
  /\ pc[i] \in {"send", "mark"} =>
       /\ \A e \in timely : since[i] <= at[e] /\ at[e] < until[i] => e \in digest[i]
       /\ \A e \in digest[i] : 1..(next[i] - 1) \subseteq mailed[e]
  /\ pc[i] = "mark" => next[i] = Recipients + 1
  /\ pc[i] \notin {"send", "mark"} => next[i] = 1

LEMMA InitIInv == Init => IInv
BY DEF Init, IInv, TypeOK, NothingIsSkipped, WindowsAreComplete

\* The locals of a run that has ended are well-typed, and those of the others
\* have not changed.
LEMMA Ended ==
  ASSUME TypeOK, NEW i \in Instances, EndRun(i)
  PROVE  /\ pc' \in [Instances -> {"arm", "wait", "state", "collect", "send", "mark"}]
         /\ since' \in [Instances -> Int] /\ until' \in [Instances -> Nat]
         /\ digest' \in [Instances -> SUBSET Events]
         /\ next' \in [Instances -> 1..(Recipients + 1)]
         /\ blind' \in [Instances -> BOOLEAN]
         /\ pc'[i] = "arm" /\ next'[i] = 1
         /\ \A j \in Instances \ {i} :
              /\ pc'[j] = pc[j] /\ since'[j] = since[j] /\ until'[j] = until[j]
              /\ digest'[j] = digest[j] /\ next'[j] = next[j] /\ blind'[j] = blind[j]
<1>1. digest' \in [Instances -> SUBSET Events]
  BY Zenon DEF EndRun, TypeOK
<1>2. \A j \in Instances \ {i} : digest'[j] = digest[j]
  BY DEF EndRun, TypeOK
<1> QED BY <1>1, <1>2 DEF EndRun, Goto, TypeOK

\* A run that ends leaves the windows of the others complete, whatever was mailed.
LEMMA EndKeepsWindows ==
  ASSUME TypeOK, WindowsAreComplete, NEW i \in Instances, EndRun(i),
         UNCHANGED <<timely, at>>, leftOut \subseteq leftOut',
         mailed' \in [Events -> SUBSET (1..Recipients)],
         \A e \in Events : mailed[e] \subseteq mailed'[e]
  PROVE  WindowsAreComplete'
<1>1. ASSUME NEW j \in Instances PROVE WindowOf(j)'
  <2>1. CASE j = i
    BY <2>1, Ended DEF WindowOf, Running
  <2>2. CASE j # i
    <3>1. /\ pc'[j] = pc[j] /\ since'[j] = since[j] /\ until'[j] = until[j]
          /\ digest'[j] = digest[j] /\ next'[j] = next[j] /\ blind'[j] = blind[j]
      BY <2>2, Ended
    <3>2. \A e \in Events : (MailedToAll(e) => MailedToAll(e)') /\ (IsLeftOut(e) => IsLeftOut(e)')
      BY DEF MailedToAll, IsLeftOut
    <3>3. timely \subseteq Events /\ digest[j] \subseteq Events
      BY DEF TypeOK
    <3>4. WindowOf(j)
      BY DEF WindowsAreComplete, WindowOf, Running
    <3> QED BY <3>1, <3>2, <3>3, <3>4 DEF WindowOf, Running
  <2> QED BY <2>1, <2>2
<1> QED BY <1>1 DEF WindowsAreComplete, WindowOf, Running

\* Windows stay complete when one instance goes on and the log and the mails stay.
LEMMA OthersKeepWindows ==
  ASSUME WindowsAreComplete, NEW i \in Instances, WindowOf(i)',
         UNCHANGED <<timely, at, mailed, leftOut>>,
         \A j \in Instances \ {i} :
           /\ pc'[j] = pc[j] /\ since'[j] = since[j] /\ until'[j] = until[j]
           /\ digest'[j] = digest[j] /\ next'[j] = next[j] /\ blind'[j] = blind[j]
  PROVE  WindowsAreComplete'
<1>1. ASSUME NEW j \in Instances, j # i PROVE WindowOf(j)'
  <2>1. WindowOf(j)
    BY DEF WindowsAreComplete, WindowOf, Running
  <2>2. /\ pc'[j] = pc[j] /\ since'[j] = since[j] /\ until'[j] = until[j]
        /\ digest'[j] = digest[j] /\ next'[j] = next[j] /\ blind'[j] = blind[j]
    BY <1>1
  <2> QED BY <2>1, <2>2 DEF WindowOf, Running, MailedToAll, IsLeftOut
<1> QED BY <1>1 DEF WindowsAreComplete, WindowOf, Running

\* The digest that goes out: what has been mailed only grows.
LEMMA Delivered ==
  ASSUME TypeOK, NEW i \in Instances, next[i] <= Recipients, Deliver(i)
  PROVE  /\ mailed' \in [Events -> SUBSET (1..Recipients)]
         /\ \A e \in Events : mailed[e] \subseteq mailed'[e]
         /\ \A e \in digest[i] : mailed'[e] = mailed[e] \cup {next[i]}
<1>1. next[i] \in 1..Recipients /\ digest[i] \subseteq Events
  BY DEF TypeOK
<1>2. \A e \in Events : mailed'[e] = IF e \in digest[i] THEN mailed[e] \cup {next[i]} ELSE mailed[e]
  BY DEF Deliver
<1>3. \A e \in Events : mailed[e] \subseteq 1..Recipients
  BY DEF TypeOK
<1>4. mailed' = [e \in Events |-> IF e \in digest[i] THEN mailed[e] \cup {next[i]} ELSE mailed[e]]
  BY DEF Deliver
<1> QED BY <1>1, <1>2, <1>3, <1>4

LEMMA MoreMailed ==
  ASSUME TypeOK, NothingIsSkipped, UNCHANGED <<marker, timely, at, leftOut>>,
         mailed' \in [Events -> SUBSET (1..Recipients)],
         \A e \in Events : mailed[e] \subseteq mailed'[e]
  PROVE  NothingIsSkipped'
<1>1. timely \subseteq Events
  BY DEF TypeOK
<1> QED BY <1>1 DEF NothingIsSkipped, MailedToAll, IsLeftOut

LEMMA ArmInv == ASSUME IInv, NEW i \in Instances, Arm(i) PROVE IInv'
<1>1. TypeOK'
  <2>1. NextRun(now) \in Int
    BY DEF IInv, TypeOK, NextRun, HourToday, Date, Local
  <2> QED BY <2>1 DEF IInv, TypeOK, Arm, Goto, logVars
<1>2. NothingIsSkipped'
  BY DEF IInv, NothingIsSkipped, MailedToAll, IsLeftOut, Arm, logVars
<1>3. WindowOf(i)'
  BY DEF IInv, TypeOK, Arm, Goto, WindowOf, Running, WindowsAreComplete
<1>4. WindowsAreComplete'
  BY <1>3, OthersKeepWindows DEF IInv, TypeOK, Arm, Goto, logVars
<1> QED BY <1>1, <1>2, <1>4 DEF IInv

LEMMA WakeInv == ASSUME IInv, NEW i \in Instances, Wake(i) PROVE IInv'
<1>1. TypeOK'
  BY DEF IInv, TypeOK, Wake, Goto, logVars
<1>2. NothingIsSkipped'
  BY DEF IInv, NothingIsSkipped, MailedToAll, IsLeftOut, Wake, logVars
<1>3. WindowOf(i)'
  BY DEF IInv, TypeOK, Wake, Goto, WindowOf, Running, WindowsAreComplete
<1>4. WindowsAreComplete'
  BY <1>3, OthersKeepWindows DEF IInv, TypeOK, Wake, Goto, logVars
<1> QED BY <1>1, <1>2, <1>4 DEF IInv

\* What is below the marker has been mailed, so a window may start there.
LEMMA SystemStateInv ==
  ASSUME IInv, NEW i \in Instances, SystemState(i)
  PROVE  IInv'
<1>1. PICK from \in Int :
        /\ since' = [since EXCEPT ![i] = from]
        /\ blind'[i] \/ (marker # None /\ from = marker)
        /\ blind' \in [Instances -> BOOLEAN] /\ \A j \in Instances \ {i} : blind'[j] = blind[j]
  <2>1. until[i] - Day \in Int /\ blind \in [Instances -> BOOLEAN] /\ marker \in Int \cup {None}
    BY DEF IInv, TypeOK
  <2> QED BY <2>1 DEF SystemState, SinceMarker
<1>2. TypeOK'
  BY <1>1 DEF IInv, TypeOK, SystemState, Goto, logVars
<1>3. NothingIsSkipped'
  BY DEF IInv, NothingIsSkipped, MailedToAll, IsLeftOut, SystemState, logVars
<1>4. WindowOf(i)'
  <2>1. /\ pc'[i] = "collect" /\ next'[i] = next[i] /\ next[i] = 1 /\ since'[i] = from
        /\ UNCHANGED <<timely, at, mailed, leftOut>>
    BY <1>1 DEF IInv, TypeOK, SystemState, Goto, WindowsAreComplete, logVars
  <2>2. ~blind'[i] => \A e \in timely : at[e] < from => MailedToAll(e) \/ IsLeftOut(e)
    BY <1>1 DEF IInv, NothingIsSkipped
  <2> QED BY <2>1, <2>2 DEF WindowOf, Running, MailedToAll, IsLeftOut
<1>5. WindowsAreComplete'
  BY <1>1, <1>4, OthersKeepWindows DEF IInv, TypeOK, SystemState, Goto, logVars
<1> QED BY <1>2, <1>3, <1>5 DEF IInv

\* A run that ends, with or without a last mail, but without a new marker.
LEMMA EndInv ==
  ASSUME IInv, NEW i \in Instances, EndRun(i),
         UNCHANGED <<now, logVars, marker, armed, wakeAt, leftOut>>,
         mailed' \in [Events -> SUBSET (1..Recipients)],
         \A e \in Events : mailed[e] \subseteq mailed'[e]
  PROVE  IInv'
<1>1. TypeOK'
  BY Ended DEF IInv, TypeOK, logVars
<1>2. NothingIsSkipped'
  BY MoreMailed DEF IInv, logVars
<1>3. WindowsAreComplete'
  BY EndKeepsWindows DEF IInv, logVars
<1> QED BY <1>1, <1>2, <1>3 DEF IInv

LEMMA SameMails ==
  ASSUME TypeOK, UNCHANGED mailed
  PROVE  /\ mailed' \in [Events -> SUBSET (1..Recipients)]
         /\ \A e \in Events : mailed[e] \subseteq mailed'[e]
BY DEF TypeOK

\* The window as it was read has every event that was in time for it.
LEMMA EventsBetweenInv == ASSUME IInv, NEW i \in Instances, EventsBetween(i) PROVE IInv'
<1>1. CASE EndRun(i)
  BY <1>1, SameMails, EndInv DEF EventsBetween, IInv
<1>2. CASE Goto(i, "send")
           /\ digest' = [digest EXCEPT ![i] = {e \in stored : InWindow(at[e], since[i], until[i])}]
           /\ UNCHANGED <<since, until, next, blind>>
  <2>0. UNCHANGED <<now, logVars, marker, armed, wakeAt, mailed, leftOut>> /\ pc[i] = "collect"
    BY DEF EventsBetween
  <2> DEFINE d == {e \in stored : InWindow(at[e], since[i], until[i])}
  <2>1. d \subseteq Events
    BY DEF IInv, TypeOK
  <2>2. digest' \in [Instances -> SUBSET Events] /\ digest'[i] = d
        /\ \A j \in Instances \ {i} : digest'[j] = digest[j]
    BY <1>2, <2>1 DEF IInv, TypeOK
  <2>3. TypeOK'
    BY <1>2, <2>0, <2>2 DEF IInv, TypeOK, Goto, logVars
  <2>4. NothingIsSkipped'
    BY <2>0 DEF IInv, NothingIsSkipped, MailedToAll, IsLeftOut, logVars
  <2>5. WindowOf(i)'
    <3>1. pc'[i] = "send" /\ since'[i] = since[i] /\ until'[i] = until[i]
      BY <1>2 DEF IInv, TypeOK, Goto
    <3>2. next[i] = 1
      BY <2>0 DEF IInv, WindowsAreComplete
    <3>3. ~blind[i] => \A e \in timely : at[e] < since[i] => MailedToAll(e) \/ IsLeftOut(e)
      BY <2>0 DEF IInv, WindowsAreComplete
    <3>4. \A e \in timely : since[i] <= at[e] /\ at[e] < until[i] => e \in d
      BY DEF IInv, TypeOK, InWindow
    <3>5. next'[i] = 1 /\ UNCHANGED <<timely, at, mailed, leftOut>> /\ blind'[i] = blind[i]
      BY <1>2, <2>0, <3>2 DEF logVars
    <3>6. 1..(1 - 1) = {}
      OBVIOUS
    <3> HIDE DEF d
    <3> QED BY <2>2, <3>1, <3>3, <3>4, <3>5, <3>6 DEF WindowOf, Running, MailedToAll, IsLeftOut
  <2>6. WindowsAreComplete'
    BY <1>2, <2>0, <2>2, <2>5, OthersKeepWindows DEF IInv, TypeOK, Goto, logVars
  <2> QED BY <2>3, <2>4, <2>6 DEF IInv
<1> QED BY <1>1, <1>2 DEF EventsBetween

\* One mail more, or the end of the run because the mail failed.
LEMMA SendInv == ASSUME IInv, NEW i \in Instances, Send(i) PROVE IInv'
<1>0. TypeOK /\ pc[i] = "send" /\ next[i] <= Recipients
  BY DEF IInv, Send, HasNext
<1>1. UNCHANGED <<now, logVars, marker, armed, wakeAt, leftOut>>
  BY DEF Send
<1>2. CASE Deliver(i) /\ EndRun(i)
  BY <1>0, <1>1, <1>2, Delivered, EndInv
<1>3. CASE EndRun(i) /\ UNCHANGED mailed
  BY <1>0, <1>1, <1>3, SameMails, EndInv
<1>4. CASE Deliver(i) /\ next' = [next EXCEPT ![i] = @ + 1] /\ UNCHANGED <<pc, since, until, digest, blind>>
  <2>1. /\ mailed' \in [Events -> SUBSET (1..Recipients)]
        /\ \A e \in Events : mailed[e] \subseteq mailed'[e]
        /\ \A e \in digest[i] : mailed'[e] = mailed[e] \cup {next[i]}
    BY <1>0, <1>4, Delivered
  <2>2. next[i] \in Nat /\ next'[i] = next[i] + 1 /\ next' \in [Instances -> 1..(Recipients + 1)]
        /\ \A j \in Instances \ {i} : next'[j] = next[j]
    BY <1>0, <1>4 DEF TypeOK
  <2>3. TypeOK'
    BY <1>0, <1>1, <1>4, <2>1, <2>2 DEF TypeOK, logVars
  <2>4. NothingIsSkipped'
    BY <1>1, <2>1, MoreMailed DEF IInv, logVars
  <2>5. \A e \in Events : (MailedToAll(e) => MailedToAll(e)') /\ (IsLeftOut(e) => IsLeftOut(e)')
    BY <1>1, <2>1 DEF MailedToAll, IsLeftOut, logVars
  <2>6. UNCHANGED <<timely, at>> /\ timely \subseteq Events /\ \A j \in Instances : digest[j] \subseteq Events
    BY <1>0, <1>1 DEF TypeOK, logVars
  <2>7. ASSUME NEW j \in Instances PROVE WindowOf(j)'
    <3>1. WindowOf(j)
      BY DEF IInv, WindowsAreComplete, WindowOf, Running
    <3>2. CASE j # i
      BY <1>4, <2>1, <2>2, <2>5, <2>6, <3>1, <3>2 DEF WindowOf, Running
    <3>3. CASE j = i
      <4>1. \A e \in digest[i] : 1..(next'[i] - 1) \subseteq mailed'[e]
        <5>1. 1..(next'[i] - 1) = (1..(next[i] - 1)) \cup {next[i]}
          BY <1>0, <2>2 DEF TypeOK
        <5>2. \A e \in digest[i] : 1..(next[i] - 1) \subseteq mailed[e]
          BY <1>0, <3>1, <3>3 DEF WindowOf
        <5> QED BY <2>1, <5>1, <5>2
      <4> QED BY <1>0, <1>4, <2>5, <2>6, <3>1, <3>3, <4>1 DEF WindowOf, Running
    <3> QED BY <3>2, <3>3
  <2> QED BY <2>3, <2>4, <2>7 DEF IInv, WindowsAreComplete, WindowOf, Running
<1> QED BY <1>2, <1>3, <1>4 DEF Send

LEMMA AllSentInv == ASSUME IInv, NEW i \in Instances, AllSent(i) PROVE IInv'
<1>1. TypeOK'
  BY DEF IInv, TypeOK, AllSent, Goto, logVars
<1>2. NothingIsSkipped'
  BY DEF IInv, NothingIsSkipped, MailedToAll, IsLeftOut, AllSent, logVars
<1>3. next[i] = Recipients + 1
  BY DEF IInv, TypeOK, AllSent, HasNext
<1>4. WindowOf(i)'
  BY <1>3 DEF IInv, TypeOK, AllSent, Goto, WindowOf, WindowsAreComplete, Running, MailedToAll, IsLeftOut, logVars
<1>5. WindowsAreComplete'
  BY <1>4, OthersKeepWindows DEF IInv, TypeOK, AllSent, Goto, logVars
<1> QED BY <1>1, <1>2, <1>5 DEF IInv

\* Everything below the end of a window that was mailed to everyone is mailed.
LEMMA SetSummarySentAtInv ==
  ASSUME IInv, NEW i \in Instances, SetSummarySentAt(i)
  PROVE  IInv'
<1>0. TypeOK /\ pc[i] = "mark" /\ EndRun(i) /\ UNCHANGED <<now, logVars, armed, wakeAt, mailed>>
  BY DEF IInv, SetSummarySentAt
<1>1. CASE UNCHANGED <<marker, leftOut>>
  BY <1>0, <1>1, SameMails, EndInv
<1>2. CASE marker' = until[i] /\ leftOut' = leftOut \cup PassedOver(i)
  <2>1. until[i] \in Nat /\ until[i] # None
    BY <1>0 DEF TypeOK
  <2>2. TypeOK'
    <3>1. since[i] \in Int /\ PassedOver(i) \subseteq Nat
      BY <1>0 DEF TypeOK, PassedOver
    <3>2. leftOut \subseteq Nat
      BY <1>0 DEF TypeOK
    <3>3. leftOut' \subseteq Nat
      BY <1>2, <3>1, <3>2, Zenon
    <3>4. marker' \in Int \cup {None}
      BY <1>2, <2>1
    <3> QED BY <1>0, <3>3, <3>4, Ended DEF TypeOK, logVars
  <2>3. ASSUME NEW e \in timely, at[e] < until[i]
        PROVE  MailedToAll(e) \/ IsLeftOut(e) \/ at[e] \in PassedOver(i)
    <3>1. e \in Events /\ at[e] \in Nat /\ since[i] \in Int /\ mailed[e] \subseteq 1..Recipients
      BY <1>0 DEF TypeOK
    <3>2. CASE at[e] < since[i]
      <4>1. CASE ~blind[i]
        BY <1>0, <3>2, <4>1 DEF IInv, WindowsAreComplete
      <4>2. CASE blind[i] /\ (marker = None \/ marker <= at[e])
        BY <3>1, <3>2, <4>2 DEF PassedOver
      <4>3. CASE marker # None /\ ~(marker <= at[e])
        BY <1>0, <3>1, <4>3 DEF IInv, TypeOK, NothingIsSkipped
      <4> QED BY <1>0, <4>1, <4>2, <4>3 DEF TypeOK
    <3>3. CASE since[i] <= at[e]
      <4>1. 1..(next[i] - 1) \subseteq mailed[e] /\ next[i] = Recipients + 1
        BY <1>0, <2>3, <3>3 DEF IInv, WindowsAreComplete
      <4>2. next[i] - 1 = Recipients
        BY <4>1
      <4>3. 1..Recipients \subseteq mailed[e]
        BY <4>1, <4>2
      <4> QED BY <3>1, <4>3 DEF MailedToAll
    <3> QED BY <3>1, <3>2, <3>3
  <2>4. NothingIsSkipped'
    BY <1>0, <1>2, <2>3 DEF NothingIsSkipped, MailedToAll, IsLeftOut, logVars
  <2>5. WindowsAreComplete'
    BY <1>0, <1>2, SameMails, EndKeepsWindows DEF IInv, logVars
  <2> QED BY <1>2, <2>1, <2>2, <2>4, <2>5 DEF IInv
<1> QED BY <1>1, <1>2 DEF SetSummarySentAt, SentAt

\* An event that is in time is not below any window that has been read.
LEMMA RecordEventInv == ASSUME IInv, NEW e \in Events, RecordEvent(e) PROVE IInv'
<1>0. /\ stored' = stored \cup {e} /\ at[e] \in Nat /\ TypeOK
      /\ UNCHANGED <<now, at, marker, loopVars, mailed, leftOut>>
  BY DEF IInv, TypeOK, RecordEvent
<1>1. timely' = timely \/ (timely' = timely \cup {e} /\ StillOpen(at[e]))
  BY DEF RecordEvent
<1>2. TypeOK'
  BY <1>0, <1>1 DEF TypeOK, loopVars
<1>3. NothingIsSkipped'
  BY <1>0, <1>1 DEF IInv, TypeOK, NothingIsSkipped, MailedToAll, IsLeftOut, StillOpen
<1>4. ASSUME NEW j \in Instances PROVE WindowOf(j)'
  <2>1. WindowOf(j)
    BY DEF IInv, WindowsAreComplete, WindowOf, Running
  <2>2. /\ pc'[j] = pc[j] /\ since'[j] = since[j] /\ until'[j] = until[j]
        /\ digest'[j] = digest[j] /\ next'[j] = next[j] /\ blind'[j] = blind[j] /\ at' = at /\ mailed' = mailed /\ leftOut' = leftOut
    BY <1>0 DEF loopVars
  <2>3. since[j] \in Int /\ until[j] \in Nat
    BY <1>0 DEF TypeOK
  <2> QED BY <1>0, <1>1, <2>1, <2>2, <2>3 DEF WindowOf, Running, StillOpen, MailedToAll, IsLeftOut
<1> QED BY <1>2, <1>3, <1>4 DEF IInv, WindowsAreComplete, WindowOf, Running

LEMMA StampEventInv == ASSUME IInv, NEW e \in Events, StampEvent(e) PROVE IInv'
<1>0. TypeOK /\ at[e] = None /\ e \notin stored /\ UNCHANGED <<stored, timely, marker, mailed, leftOut, loopVars, now>>
  BY DEF IInv, TypeOK, StampEvent
<1>1. \A f \in timely : at'[f] = at[f] /\ f \in Events
  BY <1>0 DEF StampEvent, TypeOK
<1>2. TypeOK'
  BY <1>0 DEF TypeOK, StampEvent, loopVars
<1>3. NothingIsSkipped'
  BY <1>0, <1>1 DEF IInv, NothingIsSkipped, MailedToAll, IsLeftOut
<1>4. WindowsAreComplete'
  BY <1>0, <1>1 DEF IInv, WindowsAreComplete, MailedToAll, IsLeftOut, loopVars
<1> QED BY <1>2, <1>3, <1>4 DEF IInv

LEMMA StepIInv == ASSUME IInv, [Next]_vars PROVE IInv'
<1>1. CASE UNCHANGED vars
  BY <1>1 DEF IInv, TypeOK, NothingIsSkipped, WindowsAreComplete, MailedToAll, IsLeftOut, vars, logVars, loopVars
<1>2. CASE Tick
  BY <1>2 DEF IInv, TypeOK, NothingIsSkipped, WindowsAreComplete, MailedToAll, IsLeftOut, Tick, logVars, loopVars
<1>3. ASSUME NEW i \in Instances, Crash(i) PROVE IInv'
  BY <1>3, SameMails, EndInv DEF Crash, IInv
<1> QED BY <1>1, <1>2, <1>3, ArmInv, WakeInv, SystemStateInv, EventsBetweenInv, SendInv, AllSentInv,
           SetSummarySentAtInv, RecordEventInv, StampEventInv DEF Next, NightlyRun

\* The inductive invariant: windows are mailed without a gap up to the marker.
THEOREM Inductive == Spec => []IInv
<1>1. Init => IInv
  BY InitIInv
<1>2. IInv /\ [Next]_vars => IInv'
  BY StepIInv
<1> QED BY <1>1, <1>2, PTL DEF Spec

\* Marker, event log and the locals of every instance are well-typed.
THEOREM TypeCorrect == Spec => []TypeOK
<1>1. IInv => TypeOK
  BY DEF IInv
<1> QED BY <1>1, Inductive, PTL

\* A night that failed for some recipient, was cut off by a crash or could not be
\* recorded is folded into a later one, whichever instance runs it: below the
\* marker every event that came into the log in time has been mailed to everyone,
\* but for those that a run without a marker left out when it moved the marker past
\* them.  Whatever fails, and with or without a marker at the start.
THEOREM MissedNightsAreFoldedIn == Spec => []NothingIsSkipped
<1>1. IInv => NothingIsSkipped
  BY DEF IInv
<1> QED BY <1>1, Inductive, PTL

----------------------------------------------------------------------------
(* The hour                                                                   *)

\* nextRun, while local time is not shifted: later than its argument, at the hour,
\* and no hour is left out on the way.
LEMMA NextHour ==
  ASSUME Shift = 0, NEW t \in Nat
  PROVE  /\ NextRun(t) \in Int /\ NextRun(t) > t
         /\ \A u \in (t + 1)..NextRun(t) : Local(u) % Day = Hour <=> u = NextRun(t)
<1> DEFINE q == t \div Day
           r == t % Day
<1>1. q \in Int /\ r \in 0..(Day - 1) /\ t = Day * q + r
  BY DivMod
<1>2. \A u \in Int : Local(u) = u /\ Date(u) = u
  BY DEF Local, Date
<1>3. Day * q \in Int /\ HourToday(t) = Day * q + Hour
  BY <1>1, <1>2 DEF HourToday
<1> HIDE DEF q, r
<1>4. PICK n \in Int : NextRun(t) = Day * n + Hour /\ NextRun(t) > t /\ NextRun(t) <= t + Day
  <2>1. CASE Hour > r
    <3>1. NextRun(t) = Day * q + Hour /\ NextRun(t) > t /\ NextRun(t) <= t + Day
      BY <1>1, <1>3, <2>1 DEF NextRun
    <3> QED BY <1>1, <3>1
  <2>2. CASE Hour <= r
    <3>1. Day * (q + 1) = Day * q + Day
      BY <1>1
    <3>2. NextRun(t) = Day * q + Hour + Day
      BY <1>1, <1>3, <2>2 DEF NextRun
    <3>3. NextRun(t) = Day * (q + 1) + Hour
      BY <1>3, <3>1, <3>2
    <3>4. q + 1 \in Int /\ NextRun(t) > t /\ NextRun(t) <= t + Day
      BY <1>1, <1>3, <2>2, <3>2
    <3> QED BY <3>3, <3>4
  <2> QED BY <1>1, <2>1, <2>2
<1>5. Day * n \in Int /\ NextRun(t) \in Int
  BY <1>4
<1>6. ASSUME NEW u \in (t + 1)..NextRun(t) PROVE u % Day = Hour <=> u = NextRun(t)
  <2>1. u \in Int
    BY <1>5
  <2>2. ASSUME u % Day = Hour PROVE u = NextRun(t)
    <3> DEFINE m == u \div Day
    <3>1. m \in Int /\ u = Day * m + Hour
      BY <2>1, <2>2, DivMod
    <3>2. Day * (n - m) = Day * n - Day * m /\ Day * m \in Int
      BY <3>1, Distributes
    <3> HIDE DEF m
    <3>3. 0 <= Day * (n - m) /\ Day * (n - m) < Day
      BY <1>4, <1>5, <1>6, <3>1, <3>2
    <3>4. n - m = 0
      BY <3>1, <3>3, LessThanOnce
    <3> QED BY <1>4, <3>1, <3>4
  <2>3. u = NextRun(t) => u % Day = Hour
    BY <1>4, ModOfSum
  <2> QED BY <2>2, <2>3
<1>7. \A u \in (t + 1)..NextRun(t) : Local(u) % Day = Hour <=> u = NextRun(t)
  BY <1>2, <1>5, <1>6
<1> QED BY <1>4, <1>5, <1>7

----------------------------------------------------------------------------
(* Once per night                                                             *)

\* A loop that waits, waits for the next run after it was armed; the window of a
\* lone instance that could read the marker starts there until the run sets it,
\* and its digest is of the log.
LoopOK(i) ==
  /\ pc[i] = "wait" => wakeAt[i] = NextRun(armed[i])
  /\ pc[i] \in Running /\ ~blind[i] => marker # None /\ since[i] = marker
  /\ pc[i] = "send" => digest[i] \subseteq stored /\ \A e \in digest[i] : at[e] >= since[i]

LoopInv == \A i \in Instances : LoopOK(i)

LEMMA InitLoop == Init => LoopInv
BY DEF Init, LoopInv, LoopOK, Running

\* What one instance does is all that happens to the loops and the marker.
LEMMA StepLoop ==
  ASSUME \A i, j \in Instances : i = j, IInv, LoopInv, [Next]_vars
  PROVE  LoopInv'
<1>0. TypeOK
  BY DEF IInv
<1>1. ASSUME UNCHANGED <<loopVars, marker>>, stored \subseteq stored', \A e \in stored : at'[e] = at[e]
      PROVE  LoopInv'
  BY <1>1 DEF LoopInv, LoopOK, Running, loopVars
<1>2. CASE UNCHANGED vars \/ Tick
  BY <1>1, <1>2 DEF vars, Tick, logVars
<1>3. ASSUME NEW e \in Events, StampEvent(e) PROVE LoopInv'
  <2>1. \A f \in stored : at'[f] = at[f]
    BY <1>0, <1>3 DEF TypeOK, StampEvent
  <2> QED BY <1>1, <1>3, <2>1 DEF StampEvent
<1>4. ASSUME NEW e \in Events, RecordEvent(e) PROVE LoopInv'
  BY <1>1, <1>4 DEF RecordEvent
<1>5. ASSUME NEW i \in Instances, NightlyRun(i) PROVE LoopInv'
  <2> SUFFICES LoopOK(i)'
    BY DEF LoopInv
  <2>0. LoopOK(i)
    BY DEF LoopInv
  <2>1. ASSUME EndRun(i) PROVE LoopOK(i)'
    BY <1>0, <2>1, Ended DEF LoopOK, Running
  <2>2. CASE Arm(i)
    <3>1. pc'[i] = "wait" /\ armed'[i] = now /\ wakeAt'[i] = NextRun(now)
      BY <1>0, <2>2 DEF TypeOK, Arm, Goto
    <3> QED BY <3>1 DEF LoopOK, Running
  <2>3. CASE Wake(i)
    <3>1. pc'[i] = "state"
      BY <1>0, <2>3 DEF TypeOK, Wake, Goto
    <3> QED BY <3>1 DEF LoopOK, Running
  <2>4. CASE SystemState(i)
    <3>1. /\ pc'[i] = "collect" /\ marker' = marker
          /\ blind'[i] \/ (marker # None /\ since'[i] = marker)
      BY <1>0, <2>4 DEF TypeOK, IInv, SystemState, SinceMarker, Goto
    <3> QED BY <3>1 DEF LoopOK, Running
  <2>5. CASE EventsBetween(i)
    <3>1. CASE EndRun(i)
      BY <2>1, <3>1
    <3>2. CASE /\ Goto(i, "send") /\ UNCHANGED <<since, blind>>
               /\ digest' = [digest EXCEPT ![i] = {e \in stored : InWindow(at[e], since[i], until[i])}]
      <4>1. pc[i] = "collect" /\ UNCHANGED <<marker, stored, at>>
        BY <2>5 DEF EventsBetween, logVars
      <4>2. pc'[i] = "send" /\ digest'[i] = {e \in stored : InWindow(at[e], since[i], until[i])}
        BY <1>0, <3>2 DEF TypeOK, Goto
      <4>3. \A e \in stored : at[e] \in Int /\ since[i] \in Int
        BY <1>0 DEF TypeOK
      <4>4. \A e \in digest'[i] : e \in stored /\ at[e] >= since[i]
        BY <4>2, <4>3 DEF InWindow
      <4>5. ~blind'[i] => marker' # None /\ since'[i] = marker'
        BY <2>0, <3>2, <4>1 DEF LoopOK, Running
      <4> QED BY <3>2, <4>1, <4>2, <4>4, <4>5 DEF LoopOK, Running
    <3> QED BY <2>5, <3>1, <3>2 DEF EventsBetween
  <2>6. CASE Send(i)
    <3>1. CASE EndRun(i)
      BY <2>1, <3>1
    <3>2. CASE UNCHANGED <<pc, since, until, digest, blind>>
      BY <2>0, <2>6, <3>2 DEF LoopOK, Running, Send, logVars
    <3> QED BY <2>6, <3>1, <3>2 DEF Send
  <2>7. CASE AllSent(i)
    <3>1. pc[i] = "send" /\ pc'[i] = "mark" /\ UNCHANGED <<marker, since, blind>>
      BY <1>0, <2>7 DEF TypeOK, AllSent, Goto
    <3> QED BY <2>0, <3>1 DEF LoopOK, Running
  <2>8. CASE SetSummarySentAt(i) \/ Crash(i)
    BY <2>1, <2>8 DEF SetSummarySentAt, Crash
  <2> QED BY <1>5, <2>2, <2>3, <2>4, <2>5, <2>6, <2>7, <2>8 DEF NightlyRun
<1> QED BY <1>2, <1>3, <1>4, <1>5 DEF Next

\* A night is reported at its hour and, once the marker is set, not again as long
\* as the marker can be read, for one instance and while the clock is not changed.
THEOREM ReportedOnce ==
  ASSUME \A i, j \in Instances : i = j, Shift = 0
  PROVE  Spec => []OncePerNight
<1>1. IInv /\ LoopInv => OncePerNight
  <2> SUFFICES ASSUME IInv, LoopInv, NEW i \in Instances
               PROVE  /\ pc[i] = "send" /\ ~blind[i] => \A e \in digest[i] : at[e] >= marker
                      /\ pc[i] = "wait" =>
                           /\ wakeAt[i] > armed[i]
                           /\ \A t \in (armed[i] + 1)..wakeAt[i] : Local(t) % Day = Hour <=> t = wakeAt[i]
    BY DEF OncePerNight, NothingBelowTheMarkerAgain, WakesAtTheNextHour
  <2>1. LoopOK(i) /\ armed[i] \in Nat
    BY DEF LoopInv, IInv, TypeOK
  <2>2. pc[i] = "send" /\ ~blind[i] => \A e \in digest[i] : at[e] >= marker
    BY <2>1 DEF LoopOK, Running
  <2>3. ASSUME pc[i] = "wait"
        PROVE  /\ wakeAt[i] > armed[i]
               /\ \A t \in (armed[i] + 1)..wakeAt[i] : Local(t) % Day = Hour <=> t = wakeAt[i]
    <3>1. wakeAt[i] = NextRun(armed[i])
      BY <2>1, <2>3 DEF LoopOK
    <3> QED BY <2>1, <3>1, NextHour
  <2> QED BY <2>2, <2>3
<1>2. Init => LoopInv
  BY InitLoop
<1>3. IInv /\ LoopInv /\ [Next]_vars => LoopInv'
  BY StepLoop
<1> QED BY <1>1, <1>2, <1>3, Inductive, PTL DEF Spec
=============================================================================
