------------------------------ MODULE Streams ------------------------------
(***************************************************************************)
(* The subscriptions that stream a report, a course check or the overview   *)
(* of the repositories (web/app/report_stream.go, check.go,                 *)
(* repos_overview.go and their resolvers).  A goroutine produces, for the   *)
(* overview with one more per assignment; a second one forwards from one    *)
(* unbuffered channel to the next, which the websocket reads.  When the     *)
(* client leaves, ctx is cancelled: every send selects on it, the calls of  *)
(* GitLab under way do not.                                                 *)
(***************************************************************************)
EXTENDS Integers, Sequences, FiniteSets

CONSTANTS
  Assignments,
  RepoOverviewConcurrency,
  NoEvent,
  MaxProgress    \* bound: lines of progress of a report or a check

Lines == 1..MaxProgress
Done == [done |-> TRUE, item |-> NoEvent]
Item(i) == [done |-> FALSE, item |-> i]
Event == {Done} \cup {Item(i) : i \in Assignments \cup Lines}

ASSUME StreamsAssumption ==
  /\ RepoOverviewConcurrency \in Nat \ {0} /\ MaxProgress \in Nat
  /\ IsFiniteSet(Assignments)
  /\ NoEvent \notin Assignments /\ NoEvent \notin Lines /\ NoEvent \notin Event

VARIABLES
  kind,       \* "report" (a check is like one), "overview", "refused": no token
  left,       \* the client has left: ctx is cancelled
  main,       \* the goroutine that closes the channel at its end
  produced,   \* progress lines produced
  work,       \* per assignment, its goroutine
  sem,        \* slots taken
  forwarder,  \* the goroutine of the resolver
  inFlight,   \* the event it forwards
  received    \* what the client got

streamsVars == <<kind, left, main, produced, work, sem, forwarder, inFlight, received>>

producer == <<main, produced, work, sem>>

----------------------------------------------------------------------------
(* sendEvent, sendCheckEvent, sendRepoEvent *)

Handover(ev) == forwarder = "recv" /\ inFlight' = ev /\ forwarder' = "send"

\* Mutant: the send does not look at ctx.
BlockingSend(ev) == Handover(ev)

\* Mutant: an event is dropped when nobody waits for it.
OfferEvent(ev) == Handover(ev) \/ (forwarder # "recv" /\ UNCHANGED <<inFlight, forwarder>>)

\* select: one that is ready, the receiver or the end of ctx.
SendEvent(ev) ==
  \/ Handover(ev)
  \/ left /\ UNCHANGED <<inFlight, forwarder>>

----------------------------------------------------------------------------
(* StreamAssignmentReport, StreamCheckCourse *)

Progress ==
  /\ main = "fetch" /\ produced < MaxProgress
  /\ main' = "line"
  /\ UNCHANGED <<kind, left, produced, work, sem, forwarder, inFlight, received>>

SendLine ==
  /\ main = "line" /\ SendEvent(Item(produced + 1))
  /\ main' = "fetch" /\ produced' = produced + 1
  /\ UNCHANGED <<kind, left, work, sem, received>>

Fetched ==
  /\ main = "fetch" /\ main' = "done"
  /\ UNCHANGED <<kind, left, produced, work, sem, forwarder, inFlight, received>>

----------------------------------------------------------------------------
(* StreamCourseRepoOverview *)

Acquire(a) ==
  /\ work[a] = "start" /\ sem < RepoOverviewConcurrency
  /\ work' = [work EXCEPT ![a] = "list"] /\ sem' = sem + 1
  /\ UNCHANGED <<kind, left, main, produced, forwarder, inFlight, received>>

\* assignmentRepos: a failure becomes a note.
Listed(a) ==
  /\ work[a] = "list"
  /\ work' = [work EXCEPT ![a] = "send"]
  /\ UNCHANGED <<kind, left, main, produced, sem, forwarder, inFlight, received>>

SendItem(a) ==
  /\ work[a] = "send" /\ SendEvent(Item(a))
  /\ work' = [work EXCEPT ![a] = "release"]
  /\ UNCHANGED <<kind, left, main, produced, sem, received>>

\* The deferred calls: the slot, then the WaitGroup.
ReleaseSlot(a) ==
  /\ work[a] = "release"
  /\ sem' = sem - 1
  /\ work' = [work EXCEPT ![a] = "end"]
  /\ UNCHANGED <<kind, left, main, produced, forwarder, inFlight, received>>

\* Mutant: done is sent when every listing was started.
AllStarted ==
  /\ main = "wait" /\ \A a \in Assignments : work[a] # "start"
  /\ main' = "done"
  /\ UNCHANGED <<kind, left, produced, work, sem, forwarder, inFlight, received>>

AllListed ==
  /\ main = "wait" /\ \A a \in Assignments : work[a] = "end"
  /\ main' = "done"
  /\ UNCHANGED <<kind, left, produced, work, sem, forwarder, inFlight, received>>

----------------------------------------------------------------------------
(* The end of each stream, and the resolvers *)

\* One event, with the result or the error; the channel is closed after it.
SendDone ==
  /\ main = "done" /\ SendEvent(Done)
  /\ main' = "closed"
  /\ UNCHANGED <<kind, left, produced, work, sem, received>>

\* The websocket reads the next event.
Read ==
  /\ forwarder = "send"
  /\ received' = Append(received, inFlight)
  /\ forwarder' = "recv" /\ inFlight' = NoEvent
  /\ UNCHANGED <<kind, left, producer>>

ForwardLeaves ==
  /\ forwarder = "send" /\ left
  /\ forwarder' = "closed" /\ inFlight' = NoEvent
  /\ UNCHANGED <<kind, left, producer, received>>

ForwardEnds ==
  /\ forwarder = "recv" /\ main = "closed"
  /\ forwarder' = "closed"
  /\ UNCHANGED <<kind, left, producer, inFlight, received>>

Leave ==
  /\ ~left /\ left' = TRUE
  /\ UNCHANGED <<kind, producer, forwarder, inFlight, received>>

Subscribe ==
  /\ kind \in {"report", "overview", "refused"}
  /\ main = (CASE kind = "report" -> "fetch" [] kind = "overview" -> "wait" [] kind = "refused" -> "done")
  /\ work = [a \in Assignments |-> IF kind = "overview" THEN "start" ELSE "end"]
  /\ left = FALSE /\ produced = 0 /\ sem = 0 /\ forwarder = "recv" /\ inFlight = NoEvent /\ received = <<>>

Main == Progress \/ SendLine \/ Fetched \/ AllListed \/ SendDone
Work(a) == Acquire(a) \/ Listed(a) \/ SendItem(a) \/ ReleaseSlot(a)
Forward == ForwardLeaves \/ ForwardEnds

StreamStep == Main \/ (\E a \in Assignments : Work(a)) \/ Forward \/ Read \/ Leave

Streaming == Subscribe /\ [][StreamStep]_streamsVars

\* Goroutines are scheduled and calls of GitLab return.  Nothing is assumed about
\* the client: it may neither read nor leave.
FairStreaming ==
  Streaming /\ WF_streamsVars(Main) /\ WF_streamsVars(Forward) /\ \A a \in Assignments : WF_streamsVars(Work(a))

----------------------------------------------------------------------------
(* Properties *)

\* Type correctness; the semaphore counts those who hold a slot, and it bounds
\* the listings that run at once.
EventsOK ==
  /\ kind \in {"report", "overview", "refused"} /\ left \in BOOLEAN
  /\ main \in {"fetch", "line", "wait", "done", "closed"} /\ produced \in 0..MaxProgress
  /\ work \in [Assignments -> {"start", "list", "send", "release", "end"}]
  /\ sem \in 0..RepoOverviewConcurrency
  /\ sem = Cardinality({a \in Assignments : work[a] \in {"list", "send", "release"}})
  /\ forwarder \in {"recv", "send", "closed"} /\ inFlight \in Event \cup {NoEvent} /\ received \in Seq(Event)
  /\ (inFlight # NoEvent) = (forwarder = "send")

Got == {received[j] : j \in DOMAIN received}

\* "ending with exactly one done event" (report_stream.go): nothing comes after
\* the done event, not a second one either, and it is the last thing on its way.
DoneIsLast ==
  /\ \A j \in DOMAIN received : received[j] = Done => j = Len(received) /\ inFlight = NoEvent
  /\ Done \in Got \cup {inFlight} => main = "closed" /\ \A a \in Assignments : work[a] = "end"

\* A client that stayed has every item when it has the done event: each line in
\* its order, or each assignment once.
DoneMeansAll ==
  Done \in Got /\ ~left =>
    /\ kind = "report" => received = [j \in 1..(produced + 1) |-> IF j <= produced THEN Item(j) ELSE Done]
    /\ kind = "overview" => /\ Got = {Item(a) : a \in Assignments} \cup {Done}
                            /\ Len(received) = Cardinality(Assignments) + 1
    /\ kind = "refused" => received = <<Done>>

\* The done event is the last one, and comes when all is there.
DoneIsHonest == DoneIsLast /\ DoneMeansAll

StreamEnded == main = "closed" /\ forwarder = "closed" /\ \A a \in Assignments : work[a] = "end"

\* "a disconnected client never blocks the fetch" (report_stream.go): once the
\* client has left, every goroutine comes to its end, wherever it was.
NoGoroutineIsLeft == left ~> StreamEnded

\* The inductive strengthening of DoneIsLast: while an assignment is listed, the
\* goroutine that sends the done event waits for it.
StreamsInv ==
  /\ EventsOK /\ DoneIsLast
  /\ main = "line" => produced < MaxProgress
  /\ main # "wait" => \A a \in Assignments : work[a] = "end"
=============================================================================
