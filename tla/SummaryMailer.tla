--------------------------- MODULE SummaryMailer ---------------------------
(***************************************************************************)
(* The nightly summary (web/app/summary.go): every instance of the server   *)
(* waits for the hour, collects the events of a window, mails the digest to *)
(* one recipient after the other and advances the marker in the database.   *)
(* Events are stamped by whoever records them and inserted a moment later   *)
(* (web/app/events.go).  Time is counted in hours, local time may be        *)
(* shifted once.                                                            *)
(***************************************************************************)
EXTENDS Integers

CONSTANTS
  Instances,
  Events,       \* what happens on the platform, each recorded once
  Recipients,   \* how many; they are mailed in order
  Day, Hour,    \* hours of a day, the hour of the summary
  Shift,        \* what local time is shifted by ...
  ShiftAt,      \* ... from this instant on
  FirstMarkers, \* the marker at the start, None on a fresh install
  MaxTime,      \* bound: the clock stops here
  Faults,       \* which faults the environment may inject
  None

ASSUME SummaryAssumption ==
  /\ Recipients \in Nat /\ Day \in Nat \ {0} /\ Hour \in 0..(Day - 1)
  /\ Shift \in Int /\ ShiftAt \in Nat /\ MaxTime \in Nat
  /\ FirstMarkers \subseteq Int \cup {None} /\ None \notin Int
  /\ Faults \subseteq {"crash", "state", "events", "marker", "smtp"}

VARIABLES
  now,
  stored, at,      \* the events table: which are in it, and their timestamps
  marker,          \* system_state.summary_sent_at
  pc, armed, wakeAt, since, until, digest, next,  \* of each instance
  mailed,          \* mailed[e]: recipients whose mails had e in them
  timely,          \* history: events inserted before a window that has them closed
  blind,           \* history: of each instance, whether its run had no marker to read
  leftOut          \* history: instants the marker was moved past by blind runs

logVars  == <<stored, at, timely>>
loopVars == <<pc, armed, wakeAt, since, until, digest, next, blind>>
vars     == <<now, logVars, marker, loopVars, mailed, leftOut>>

Goto(i, l) == pc' = [pc EXCEPT ![i] = l]

----------------------------------------------------------------------------
(* Local time and the next run *)

Local(t) == t + (IF t >= ShiftAt THEN Shift ELSE 0)
\* time.Date: the instant of a local time that is neither skipped nor repeated.
Date(l) == IF l - Shift >= ShiftAt THEN l - Shift ELSE l

HourToday(t) == Date((Local(t) - (Local(t) % Day)) + Hour)

NextRun(t) == IF HourToday(t) > t THEN HourToday(t) ELSE HourToday(t) + Day

----------------------------------------------------------------------------
(* The events *)

\* The time is taken before the insert, which may take long or never happen.
StampEvent(e) ==
  /\ at[e] = None
  /\ at' = [at EXCEPT ![e] = now]
  /\ UNCHANGED <<now, stored, timely, marker, loopVars, mailed, leftOut>>

\* No window that contains t, or ends after it, has been read so far.
StillOpen(t) ==
  /\ marker = None \/ marker <= t
  /\ \A i \in Instances :
       /\ pc[i] \in {"collect", "send", "mark"} /\ ~blind[i] => since[i] <= t
       /\ pc[i] \in {"send", "mark"} => until[i] <= t

RecordEvent(e) ==
  /\ at[e] # None /\ e \notin stored
  /\ stored' = stored \cup {e}
  /\ timely' = IF StillOpen(at[e]) THEN timely \cup {e} ELSE timely
  /\ UNCHANGED <<now, at, marker, loopVars, mailed, leftOut>>

----------------------------------------------------------------------------
(* The loop of StartSummaryMailer and runNightlySummary *)

\* Back to the loop: nothing of a run is kept.
EndRun(i) ==
  /\ Goto(i, "arm")
  /\ since' = [since EXCEPT ![i] = 0] /\ until' = [until EXCEPT ![i] = 0]
  /\ digest' = [digest EXCEPT ![i] = {}] /\ next' = [next EXCEPT ![i] = 1]
  /\ blind' = [blind EXCEPT ![i] = FALSE]

Arm(i) ==
  /\ pc[i] = "arm"
  /\ Goto(i, "wait")
  /\ armed' = [armed EXCEPT ![i] = now]
  /\ wakeAt' = [wakeAt EXCEPT ![i] = NextRun(now)]
  /\ UNCHANGED <<now, logVars, marker, since, until, digest, next, blind, mailed, leftOut>>

Wake(i) ==
  /\ pc[i] = "wait" /\ now >= wakeAt[i]
  /\ Goto(i, "state")
  /\ until' = [until EXCEPT ![i] = now]
  /\ UNCHANGED <<now, logVars, marker, armed, wakeAt, since, digest, next, blind, mailed, leftOut>>

\* Mutant: a window is always the last day.
LastDay(i) == until[i] - Day
SinceMarker(i) == marker

\* Without a marker, or if it cannot be read, the last day is the window.
SystemState(i) ==
  /\ pc[i] = "state"
  /\ Goto(i, "collect")
  /\ \/ marker # None /\ since' = [since EXCEPT ![i] = SinceMarker(i)] /\ UNCHANGED blind
     \/ /\ marker = None \/ "state" \in Faults
        /\ since' = [since EXCEPT ![i] = until[i] - Day] /\ blind' = [blind EXCEPT ![i] = TRUE]
  /\ UNCHANGED <<now, logVars, marker, armed, wakeAt, until, digest, next, mailed, leftOut>>

\* [since, until), "half open on purpose"
InWindow(t, from, to) == from <= t /\ t < to

EventsBetween(i) ==
  /\ pc[i] = "collect"
  /\ \/ /\ Goto(i, "send")
        /\ digest' = [digest EXCEPT ![i] = {e \in stored : InWindow(at[e], since[i], until[i])}]
        /\ UNCHANGED <<since, until, next, blind>>
     \/ "events" \in Faults /\ EndRun(i)
  /\ UNCHANGED <<now, logVars, marker, armed, wakeAt, mailed, leftOut>>

Deliver(i) == mailed' = [e \in Events |-> IF e \in digest[i] THEN mailed[e] \cup {next[i]} ELSE mailed[e]]

HasNext(i) == next[i] <= Recipients

\* The first error ends the run; the mail may have arrived all the same.
Send(i) ==
  /\ pc[i] = "send" /\ HasNext(i)
  /\ \/ /\ Deliver(i)
        /\ next' = [next EXCEPT ![i] = @ + 1]
        /\ UNCHANGED <<pc, since, until, digest, blind>>
     \/ "smtp" \in Faults /\ Deliver(i) /\ EndRun(i)
     \/ "smtp" \in Faults /\ EndRun(i) /\ UNCHANGED mailed
  /\ UNCHANGED <<now, logVars, marker, armed, wakeAt, leftOut>>

AllSent(i) ==
  /\ pc[i] = "send" /\ ~HasNext(i)
  /\ Goto(i, "mark")
  /\ UNCHANGED <<now, logVars, marker, armed, wakeAt, since, until, digest, next, blind, mailed, leftOut>>

\* Mutant: the marker is the time the last mail went out.
MarkNow(i) == now
SentAt(i) == until[i]

\* What lies between the marker and the window of a blind run.
PassedOver(i) == {t \in 0..(since[i] - 1) : blind[i] /\ (marker = None \/ marker <= t)}

SetSummarySentAt(i) ==
  /\ pc[i] = "mark"
  /\ EndRun(i)
  /\ \/ marker' = SentAt(i) /\ leftOut' = leftOut \cup PassedOver(i)
     \/ "marker" \in Faults /\ UNCHANGED <<marker, leftOut>>
  /\ UNCHANGED <<now, logVars, armed, wakeAt, mailed>>

\* The process ends and is started again at some time.
Crash(i) ==
  /\ "crash" \in Faults /\ pc[i] # "arm"
  /\ EndRun(i)
  /\ UNCHANGED <<now, logVars, marker, armed, wakeAt, mailed, leftOut>>

Tick ==
  /\ now < MaxTime
  /\ now' = now + 1
  /\ UNCHANGED <<logVars, marker, loopVars, mailed, leftOut>>

----------------------------------------------------------------------------

Init ==
  /\ now = 0
  /\ stored = {} /\ at = [e \in Events |-> None] /\ timely = {}
  /\ marker \in FirstMarkers
  /\ pc = [i \in Instances |-> "arm"]
  /\ armed = [i \in Instances |-> 0] /\ wakeAt = [i \in Instances |-> 0]
  /\ since = [i \in Instances |-> 0] /\ until = [i \in Instances |-> 0]
  /\ digest = [i \in Instances |-> {}] /\ next = [i \in Instances |-> 1]
  /\ mailed = [e \in Events |-> {}]
  /\ blind = [i \in Instances |-> FALSE] /\ leftOut = {}

NightlyRun(i) ==
  \/ Arm(i) \/ Wake(i) \/ SystemState(i) \/ EventsBetween(i)
  \/ Send(i) \/ AllSent(i) \/ SetSummarySentAt(i) \/ Crash(i)

Next ==
  \/ Tick
  \/ \E e \in Events : StampEvent(e) \/ RecordEvent(e)
  \/ \E i \in Instances : NightlyRun(i)

Spec == Init /\ [][Next]_vars

----------------------------------------------------------------------------
(* Correctness *)

\* Type invariant: the marker, the event log and the loops' locals.
TypeOK ==
  /\ now \in Nat
  /\ stored \subseteq Events /\ timely \subseteq stored
  /\ at \in [Events -> Nat \cup {None}] /\ \A e \in stored : at[e] \in Nat
  /\ marker \in Int \cup {None}
  /\ pc \in [Instances -> {"arm", "wait", "state", "collect", "send", "mark"}]
  /\ armed \in [Instances -> Nat] /\ wakeAt \in [Instances -> Int]
  /\ since \in [Instances -> Int] /\ until \in [Instances -> Nat]
  /\ digest \in [Instances -> SUBSET Events]
  /\ next \in [Instances -> 1..(Recipients + 1)]
  /\ mailed \in [Events -> SUBSET (1..Recipients)]
  /\ blind \in [Instances -> BOOLEAN] /\ leftOut \subseteq Nat

MailedToAll(e) == mailed[e] = 1..Recipients
IsLeftOut(e) == at[e] \in leftOut

\* summary.go: "a missed night is folded into the next run": every event that is
\* older than the marker has been mailed to every recipient, whatever failed or
\* crashed in between, but for two kinds: an event that came into the log after
\* its window was read, and one that a run without a marker (a fresh install, or
\* a read that failed) left out because it lay between the marker and the last day.
NothingIsSkipped ==
  \A e \in timely : marker # None /\ at[e] < marker => MailedToAll(e) \/ IsLeftOut(e)

\* summary.go: "a restart never double-sends", as far as the run before it got to
\* record that it was sent: one instance that could read the marker mails nothing
\* that is below it.
NothingBelowTheMarkerAgain ==
  \A i \in Instances : pc[i] = "send" /\ ~blind[i] => \A e \in digest[i] : at[e] >= marker

\* summary.go: nextRun "returns the next occurrence of hour:00 local time strictly
\* after now", across midnight and when it is called at the hour itself.
WakesAtTheNextHour ==
  \A i \in Instances : pc[i] = "wait" =>
    /\ wakeAt[i] > armed[i]
    /\ \A t \in (armed[i] + 1)..wakeAt[i] : Local(t) % Day = Hour <=> t = wakeAt[i]

\* So a night is reported at its hour, and once.
OncePerNight == NothingBelowTheMarkerAgain /\ WakesAtTheNextHour

----------------------------------------------------------------------------
(* The strengthening under which NothingIsSkipped is inductive *)

\* What lies before the window of a run has been dealt with, unless the run is
\* blind; what lies in it is in the digest, which the recipients before next have
\* got.
WindowsAreComplete ==
  \A i \in Instances :
    /\ pc[i] \in {"collect", "send", "mark"} /\ ~blind[i] =>
         \A e \in timely : at[e] < since[i] => MailedToAll(e) \/ IsLeftOut(e)
    /\ pc[i] \in {"send", "mark"} =>
         /\ \A e \in timely : since[i] <= at[e] /\ at[e] < until[i] => e \in digest[i]
         /\ \A e \in digest[i] : 1..(next[i] - 1) \subseteq mailed[e]
    /\ pc[i] = "mark" => next[i] = Recipients + 1
    /\ pc[i] \notin {"send", "mark"} => next[i] = 1

IInv == TypeOK /\ NothingIsSkipped /\ WindowsAreComplete
=============================================================================
