----------------------------- MODULE AccessGate -----------------------------
(***************************************************************************)
(* Access requests and the access gate (web/app/access.go,                  *)
(* web/graph/access_gate.go, web/db/users_pg.go): the users table, the      *)
(* process's status cache, the requests that ask the gate or ask for        *)
(* access, and the administrators who decide.  Reading the clock, a lookup  *)
(* in the cache under its mutex and a statement against the database are    *)
(* one step each; every request is a thread of its own.                     *)
(***************************************************************************)
EXTENDS Integers

CONSTANTS
  Users,       \* lower-cased emails
  Admins,      \* those of them on the configured admins list
  Tabs,        \* requests in flight at the same time
  UserOf,      \* UserOf[t]: who sends the requests of t
  Deciders,    \* administrators' requests in flight at the same time
  Outcomes,    \* bound: the decisions made
  TTL,         \* accessCacheTTL
  MaxTime,     \* bound: the clock stops here
  MaxResets,   \* bound: resets by an administrator or by hand
  Faults,      \* which faults the environment may inject
  None

FaultKinds == {"db", "lostReply", "byHand"}

Decided == {"approved", "rejected", "revoked"}
Status  == Decided \cup {"none", "pending"}

ASSUME AccessAssumption ==
  /\ Outcomes \subseteq Decided
  /\ TTL \in Nat /\ MaxTime \in Nat /\ MaxResets \in Nat
  /\ Admins \subseteq Users /\ UserOf \in [Tabs -> Users]
  /\ Faults \subseteq FaultKinds
  /\ None \notin Users

VARIABLES
  now,
  access,                     \* table users: access[u] is the row's status
  cache,                      \* accessCache.entries
  pc, asked, asking, preview, \* of a request: its step, `now`, kind, preview mode
  answer,                     \* the status AccessStatus returns to it
  created,                    \* InsertAccessRequest's first result
  dpc, target, decision, found,  \* of an administrator's request
  \* history: when a row last left a status, how often it was deleted; mails to
  \* the administrators
  leftAt, resets, adminMails

tabVars  == <<pc, asked, asking, preview, answer, created>>
decVars  == <<dpc, target, decision, found>>
histVars == <<leftAt, resets>>
vars     == <<now, access, cache, tabVars, decVars, histVars, adminMails>>

\* AccessStatus answers with a status, or with an error.
Error == "error"

CacheEntry == [status : Status, at : Nat]
Never == -TTL - 1

----------------------------------------------------------------------------
(* Helpers *)

\* Mutant: the entry is as old as the write.
StampAtPut(t) == now
StampOf(t) == asked[t]

Fresh(e, at) == at - e.at <= TTL

\* u's row changes to s; what the users table remembers of the change is kept
\* in leftAt.
SetRow(u, s) ==
  /\ access' = [access EXCEPT ![u] = s]
  /\ leftAt' = [leftAt EXCEPT ![u] = IF s = access[u] THEN @ ELSE [@ EXCEPT ![access[u]] = now]]

\* The status s was u's at some instant no earlier than since.
TrueSince(u, s, since) == access[u] = s \/ leftAt[u][s] >= since

DropEntry(u) == cache' = [cache EXCEPT ![u] = None]

Go(t, from, to) == pc[t] = from /\ pc' = [pc EXCEPT ![t] = to]

\* The request is answered; its locals are gone.
Return(t, from) ==
  /\ Go(t, from, "idle")
  /\ asked'   = [asked EXCEPT ![t] = 0]
  /\ asking'  = [asking EXCEPT ![t] = "field"]
  /\ preview' = [preview EXCEPT ![t] = FALSE]
  /\ answer'  = [answer EXCEPT ![t] = Error]
  /\ created' = [created EXCEPT ![t] = FALSE]

----------------------------------------------------------------------------
(* AccessStatus, called by the gate for a field and by RequestAccess *)

\* An administrator outside preview mode is approved without a look at any row.
ByConfig(u, p) == u \in Admins /\ ~p

Ask(t, k, p) ==
  /\ \/ ~ByConfig(UserOf[t], p) /\ Go(t, "idle", "lookup") /\ UNCHANGED answer
     \/ /\ ByConfig(UserOf[t], p)
        /\ Go(t, "idle", "answered")
        /\ answer' = [answer EXCEPT ![t] = "approved"]
  /\ asked'   = [asked EXCEPT ![t] = now]
  /\ asking'  = [asking EXCEPT ![t] = k]
  /\ preview' = [preview EXCEPT ![t] = p]
  /\ UNCHANGED <<now, access, cache, created, decVars, histVars, adminMails>>

Hit(u, at) == cache[u] # None /\ Fresh(cache[u], at)

LookUp(t) ==
  /\ \/ /\ Hit(UserOf[t], asked[t])
        /\ Go(t, "lookup", "answered")
        /\ answer' = [answer EXCEPT ![t] = cache[UserOf[t]].status]
     \/ /\ ~Hit(UserOf[t], asked[t])
        /\ Go(t, "lookup", "read")
        /\ UNCHANGED answer
  /\ UNCHANGED <<now, access, cache, asked, asking, preview, created, decVars, histVars, adminMails>>

StatusRead(u) == access[u]

GetUserAccess(t) ==
  /\ \/ /\ Go(t, "read", "put")
        /\ answer' = [answer EXCEPT ![t] = StatusRead(UserOf[t])]
     \/ /\ "db" \in Faults
        /\ Go(t, "read", "answered")
        /\ answer' = [answer EXCEPT ![t] = Error]
  /\ UNCHANGED <<now, access, cache, asked, asking, preview, created, decVars, histVars, adminMails>>

Put(t) ==
  /\ Go(t, "put", "answered")
  /\ cache' = [cache EXCEPT ![UserOf[t]] = [status |-> answer[t], at |-> StampOf(t)]]
  /\ UNCHANGED <<now, access, asked, asking, preview, answer, created, decVars, histVars, adminMails>>

----------------------------------------------------------------------------
(* The gate, and RequestAccess after its status check *)

Passes(s) == s = "approved"

Gate(t) ==
  /\ asking[t] = "field"
  /\ \/ Go(t, "answered", "passed") /\ Passes(answer[t])
     \/ Go(t, "answered", "refused") /\ ~Passes(answer[t])
  /\ UNCHANGED <<now, access, cache, asked, asking, preview, answer, created, decVars, histVars, adminMails>>

Respond(t) ==
  /\ \E from \in {"passed", "refused"} : Return(t, from)
  /\ UNCHANGED <<now, access, cache, decVars, histVars, adminMails>>

\* Only someone who never asked goes on; the others get an answer or an error.
RequestAccess(t) ==
  /\ asking[t] = "access"
  /\ \/ /\ answer[t] = "none"
        /\ Go(t, "answered", "insert")
        /\ UNCHANGED <<asked, asking, preview, answer, created>>
     \/ answer[t] # "none" /\ Return(t, "answered")
  /\ UNCHANGED <<now, access, cache, decVars, histVars, adminMails>>

\* Mutant: on conflict do update.
InsertOrOverwrite(u) == SetRow(u, "pending")
\* on conflict (email) do nothing
InsertPending(u) ==
  IF access[u] = "none" THEN SetRow(u, "pending") ELSE UNCHANGED <<access, leftAt>>

\* Mutant: a conflict is reported as a created row.
Creates(u) == TRUE
RowCreated(u) == access[u] = "none"

InsertAccessRequest(t) ==
  /\ Go(t, "insert", "drop")
  /\ \/ /\ InsertPending(UserOf[t])
        /\ created' = [created EXCEPT ![t] = RowCreated(UserOf[t])]
     \/ /\ "db" \in Faults
        /\ created' = [created EXCEPT ![t] = FALSE]
        /\ UNCHANGED <<access, leftAt>>
     \/ /\ "lostReply" \in Faults
        /\ created' = [created EXCEPT ![t] = FALSE]
        /\ InsertPending(UserOf[t])
  /\ UNCHANGED <<now, cache, asked, asking, preview, answer, decVars, resets, adminMails>>

DropRequester(t) ==
  /\ \/ /\ created[t]
        /\ Go(t, "drop", "mail")
        /\ UNCHANGED <<asked, asking, preview, answer, created>>
     \/ ~created[t] /\ Return(t, "drop")
  /\ DropEntry(UserOf[t])
  /\ UNCHANGED <<now, access, decVars, histVars, adminMails>>

\* To every administrator, best effort.
MailAdmins(t) ==
  /\ Return(t, "mail")
  /\ adminMails' = [adminMails EXCEPT ![UserOf[t]] = @ + 1]
  /\ UNCHANGED <<now, access, cache, decVars, histVars>>

----------------------------------------------------------------------------
(* decide and ResetUser *)

DGo(d, from, to) == dpc[d] = from /\ dpc' = [dpc EXCEPT ![d] = to]

DReturn(d, from) ==
  /\ DGo(d, from, "idle")
  /\ target'   = [target EXCEPT ![d] = None]
  /\ decision' = [decision EXCEPT ![d] = "none"]
  /\ found'    = [found EXCEPT ![d] = FALSE]

\* An update that matches no row is answered with none.
SetUserAccessStatus(u, s) ==
  IF access[u] = "none" THEN UNCHANGED <<access, leftAt>> ELSE SetRow(u, s)

\* Mutant: the missing row is not noticed.
MatchesAlways(u) == TRUE
\* `row == nil` is an error for the administrator, and no mail.
Matches(u) == access[u] # "none"

Decide(d, u, s) ==
  /\ DGo(d, "idle", "drop")
  /\ target'   = [target EXCEPT ![d] = u]
  /\ decision' = [decision EXCEPT ![d] = s]
  /\ \/ /\ SetUserAccessStatus(u, s)
        /\ found' = [found EXCEPT ![d] = Matches(u)]
     \/ /\ "db" \in Faults
        /\ found' = [found EXCEPT ![d] = FALSE]
        /\ UNCHANGED <<access, leftAt>>
     \/ /\ "lostReply" \in Faults
        /\ found' = [found EXCEPT ![d] = FALSE]
        /\ SetUserAccessStatus(u, s)
  /\ UNCHANGED <<now, cache, tabVars, resets, adminMails>>

DeleteRow(u) ==
  /\ access[u] # "none" /\ resets[u] < MaxResets
  /\ SetRow(u, "none")
  /\ resets' = [resets EXCEPT ![u] = @ + 1]

ResetUser(d, u) ==
  /\ DGo(d, "idle", "drop")
  /\ target'   = [target EXCEPT ![d] = u]
  /\ decision' = [decision EXCEPT ![d] = "none"]
  /\ found'    = [found EXCEPT ![d] = FALSE]
  /\ \/ DeleteRow(u)
     \/ access[u] = "none" /\ UNCHANGED <<access, leftAt, resets>>
     \/ "db" \in Faults /\ UNCHANGED <<access, leftAt, resets>>
  /\ UNCHANGED <<now, cache, tabVars, adminMails>>

\* The requester is told, best effort; a revocation is not mailed.
ToldByMail(d) == found[d] /\ decision[d] # "revoked"

DropTarget(d) ==
  /\ \/ /\ ToldByMail(d)
        /\ DGo(d, "drop", "mail")
        /\ UNCHANGED <<target, decision, found>>
     \/ ~ToldByMail(d) /\ DReturn(d, "drop")
  /\ DropEntry(target[d])
  /\ UNCHANGED <<now, access, tabVars, histVars, adminMails>>

MailDecision(d) ==
  /\ DReturn(d, "mail")
  /\ UNCHANGED <<now, access, cache, tabVars, histVars, adminMails>>

----------------------------------------------------------------------------
(* The world outside the process *)

\* A decision changed or a row deleted in the database, past this process.
EditByHand(u) ==
  /\ "byHand" \in Faults
  /\ access[u] # "none"
  /\ \/ DeleteRow(u)
     \/ (\E s \in Outcomes : SetRow(u, s)) /\ UNCHANGED resets
  /\ UNCHANGED <<now, cache, tabVars, decVars, adminMails>>

Tick ==
  /\ now < MaxTime
  /\ now' = now + 1
  /\ UNCHANGED <<access, cache, tabVars, decVars, histVars, adminMails>>

----------------------------------------------------------------------------

Init ==
  /\ now = 0
  /\ access = [u \in Users |-> "none"]
  /\ cache = [u \in Users |-> None]
  /\ pc = [t \in Tabs |-> "idle"]
  /\ asked = [t \in Tabs |-> 0]
  /\ asking = [t \in Tabs |-> "field"]
  /\ preview = [t \in Tabs |-> FALSE]
  /\ answer = [t \in Tabs |-> Error]
  /\ created = [t \in Tabs |-> FALSE]
  /\ dpc = [d \in Deciders |-> "idle"]
  /\ target = [d \in Deciders |-> None]
  /\ decision = [d \in Deciders |-> "none"]
  /\ found = [d \in Deciders |-> FALSE]
  /\ leftAt = [u \in Users |-> [s \in Status |-> Never]]
  /\ resets = [u \in Users |-> 0]
  /\ adminMails = [u \in Users |-> 0]

Request(t) ==
  \/ \E k \in {"field", "access"}, p \in BOOLEAN : Ask(t, k, p)
  \/ LookUp(t) \/ GetUserAccess(t) \/ Put(t) \/ Gate(t) \/ Respond(t)
  \/ RequestAccess(t) \/ InsertAccessRequest(t) \/ DropRequester(t) \/ MailAdmins(t)

Decision(d) ==
  \/ \E u \in Users, s \in Outcomes : Decide(d, u, s)
  \/ \E u \in Users : ResetUser(d, u)
  \/ DropTarget(d) \/ MailDecision(d)

Next ==
  \/ \E t \in Tabs : Request(t)
  \/ \E d \in Deciders : Decision(d)
  \/ \E u \in Users : EditByHand(u)
  \/ Tick

Spec == Init /\ [][Next]_vars

----------------------------------------------------------------------------
(* Correctness *)

\* Type invariant: rows, cache entries and the requests' locals.
TypeOK ==
  /\ now \in Nat
  /\ access \in [Users -> Status]
  /\ cache \in [Users -> CacheEntry \cup {None}]
  /\ pc \in [Tabs -> {"idle", "lookup", "read", "put", "answered", "passed", "refused", "insert", "drop", "mail"}]
  /\ asked \in [Tabs -> Nat]
  /\ asking \in [Tabs -> {"field", "access"}]
  /\ preview \in [Tabs -> BOOLEAN]
  /\ answer \in [Tabs -> Status \cup {Error}]
  /\ created \in [Tabs -> BOOLEAN]
  /\ dpc \in [Deciders -> {"idle", "drop", "mail"}]
  /\ target \in [Deciders -> Users \cup {None}]
  /\ decision \in [Deciders -> Decided \cup {"none"}]
  /\ found \in [Deciders -> BOOLEAN]
  /\ leftAt \in [Users -> [Status -> Int]]
  /\ resets \in [Users -> Nat]
  /\ adminMails \in [Users -> Nat]

\* access.go: "the TTL only bounds how stale a status can get".  Whatever races,
\* a request passes the gate only if its user was approved at some instant at
\* most TTL before the request began, or is an administrator by configuration;
\* an error of the database lets nobody in.
LetInOnlyIfRecentlyApproved ==
  \A t \in Tabs : pc[t] = "passed" =>
    \/ ByConfig(UserOf[t], preview[t])
    \/ TrueSince(UserOf[t], "approved", asked[t] - TTL)

\* queries/users.sql: "a double click or a second tab cannot turn one request
\* into two admin mails": one mail for each time a row was created.
OneAdminMailPerRequest == \A u \in Users : adminMails[u] <= 1 + resets[u]

\* Nobody is told of a decision that was not stored.
MailedDecisionWasStored ==
  \A d \in Deciders : dpc[d] = "mail" => TrueSince(target[d], decision[d], 0)

\* The users table behaves as AccessRow says, however stale the statuses are on
\* which requests and decisions act.
Row == INSTANCE AccessRow
ImplementsAccessRow == Row!RowSpec

----------------------------------------------------------------------------
(* The inductive strengthening of the safety invariants *)

\* A cached status was true no earlier than its stamp, and so is one that was
\* read and is about to be cached; an answer may come from an entry TTL older.
CacheIsRecent ==
  \A u \in Users : cache[u] # None =>
    cache[u].at <= now /\ TrueSince(u, cache[u].status, cache[u].at)

AnswersAreRecent ==
  \A t \in Tabs :
    /\ asked[t] <= now
    /\ pc[t] = "put" => answer[t] # Error /\ TrueSince(UserOf[t], answer[t], asked[t])
    /\ pc[t] = "answered" /\ answer[t] # Error =>
         \/ ByConfig(UserOf[t], preview[t]) /\ answer[t] = "approved"
         \/ TrueSince(UserOf[t], answer[t], asked[t] - TTL)

\* The decision an administrator is about to mail was stored.
DecisionsAreStored ==
  \A d \in Deciders : dpc[d] # "idle" =>
    /\ target[d] \in Users
    /\ found[d] => TrueSince(target[d], decision[d], 0)
    /\ found[d] => decision[d] \in Decided
    /\ dpc[d] = "mail" => found[d]

IInv ==
  /\ TypeOK
  /\ LetInOnlyIfRecentlyApproved
  /\ MailedDecisionWasStored
  /\ CacheIsRecent
  /\ AnswersAreRecent
  /\ DecisionsAreStored
=============================================================================
