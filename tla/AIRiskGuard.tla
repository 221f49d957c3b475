----------------------------- MODULE AIRiskGuard -----------------------------
(***************************************************************************)
(* The guard in front of every AI call of one student: access block,       *)
(* content rules, the daily reply quota kept in PostgreSQL and the slots    *)
(* kept in Redis.  The two stores share no transaction: a request first     *)
(* counts the replies of the day and later takes a slot with that count.    *)
(*                                                                         *)
(* Only the ledger of the current Shanghai day is kept; a request is its    *)
(* own lease id and its own ledger row.  A lease outlives every request     *)
(* that holds it (ten minutes against request timeouts of a few), so only   *)
(* leases nobody will release expire.                                       *)
(***************************************************************************)
EXTENDS Naturals, FiniteSets

CONSTANTS
  Chat,        \* metered requests whose ledger row is stored with the reply
  Responses,   \* metered requests that record their reply after delivery
  Unmetered,   \* portrait, exercise and daily-question requests
  Settings     \* values an administrator may store: [limit, max]

Metered == Chat \cup Responses
Requests == Metered \cup Unmetered

ASSUME GuardAssumption ==
  /\ IsFiniteSet(Requests) /\ Metered \cap Unmetered = {} /\ Chat \cap Responses = {}
  /\ Settings # {} /\ Settings \subseteq [limit : Nat \ {0}, max : Nat \ {0}]

VARIABLES
  settings,  \* system_settings
  high,      \* the largest limits that have been in force so far (bookkeeping)
  blocked,   \* student_ai_access_controls.is_blocked
  ledger,    \* student_ai_reply_usage of the current day
  leases,    \* the active set in Redis; the metered set is leases \cap Metered
  at,        \* where each request is
  saw,       \* settings and count a request has read
  missed,    \* requests that overlooked a reply since they counted (bookkeeping)
  past,      \* chats made before midnight: their rows belong to yesterday
  stale      \* a slot was granted on an outdated count (bookkeeping)

vars == <<settings, high, blocked, ledger, leases, at, saw, missed, past, stale>>

Phases == {"idle", "settings", "count", "slot", "review", "run", "deliver", "release", "done"}
Busy == {r \in Requests : at[r] \in {"review", "run", "deliver"}}
\* A metered request that may still add its reply to today's ledger.
Pending == {r \in Metered : at[r] \in {"review", "run"}}
NoView == [limit |-> 1, max |-> 1, used |-> 0]

Init ==
  /\ settings \in Settings /\ high = settings /\ blocked = FALSE
  /\ ledger = {} /\ leases = {} /\ at = [r \in Requests |-> "idle"]
  /\ saw = [r \in Requests |-> NoView] /\ missed = {} /\ past = {} /\ stale = FALSE

Goto(r, p) == at' = [at EXCEPT ![r] = p]
Refuse(r) == Goto(r, "done")

\* GetStudentAccess: a blocked student is turned away; a failing read as well.
CheckAccess(r) ==
  /\ at[r] = "idle"
  /\ \/ ~blocked /\ Goto(r, "settings")
     \/ Refuse(r)
  /\ UNCHANGED <<settings, high, blocked, ledger, leases, saw, missed, past, stale>>

\* GetSettings and the keyword rules; unmetered requests skip the count.
ReadSettings(r) ==
  /\ at[r] = "settings"
  /\ saw' = [saw EXCEPT ![r] = [limit |-> settings.limit, max |-> settings.max, used |-> 0]]
  /\ \/ Goto(r, IF r \in Metered THEN "count" ELSE "slot")
     \/ Refuse(r)
  /\ UNCHANGED <<settings, high, blocked, ledger, leases, missed, past, stale>>

\* CountReplies of the current day against the limit read before.
CountReplies(r) ==
  /\ at[r] = "count"
  /\ saw' = [saw EXCEPT ![r].used = Cardinality(ledger)] /\ missed' = missed \ {r}
  /\ \/ Cardinality(ledger) < saw[r].limit /\ Goto(r, "slot")
     \/ Refuse(r)
  /\ UNCHANGED <<settings, high, blocked, ledger, leases, past, stale>>

\* The Redis script: expired leases are gone, then concurrency, then quota.
\* (Its first branch serves a lease id that is known: ids are fresh.)
\* Mutants: the slots of unmetered requests only are counted; the quota
\* forgets the replies under way.
OwnKindSlot(r) == Cardinality(leases \cap Unmetered) < saw[r].max
CountedQuota(r) == r \in Metered => saw[r].used < saw[r].limit
HasSlot(r) == Cardinality(leases) < saw[r].max
HasQuota(r) == r \in Metered =>
  saw[r].used + Cardinality(leases \cap Metered) < saw[r].limit
Granted(r) == HasSlot(r) /\ HasQuota(r)

\* The answer may be lost: the lease is then held by nobody.
AcquireSlot(r) ==
  /\ at[r] = "slot"
  /\ \/ /\ Granted(r) /\ leases' = leases \cup {r} /\ Goto(r, "review")
        /\ stale' = (stale \/ r \in missed)
     \/ Granted(r) /\ leases' = leases \cup {r} /\ Refuse(r) /\ UNCHANGED stale
     \/ Refuse(r) /\ UNCHANGED <<leases, stale>>
  /\ UNCHANGED <<settings, high, blocked, ledger, saw, missed, past>>

\* enforceModelReview: passed or skipped, or refused and the slot given back.
ReviewContent(r) ==
  /\ at[r] = "review" /\ (Goto(r, "run") \/ Goto(r, "release"))
  /\ UNCHANGED <<settings, high, blocked, ledger, leases, saw, missed, past, stale>>

\* The ledger grows under everyone who has counted and holds no slot yet.
Charge(r) ==
  /\ ledger' = ledger \cup {r}
  /\ missed' = missed \cup {q \in Metered : at[q] = "slot"}
\* A reply is complete: a chat stores and charges it in one transaction, to
\* the day it was asked; a response is delivered and then charged to the day
\* of its delivery.  Or it fails, or (responses) the charge does.
CompleteReply(r) ==
  /\ at[r] = "run"
  /\ \/ r \in Chat \ past /\ Charge(r) /\ Goto(r, "release")
     \/ r \in Responses /\ Charge(r) /\ Goto(r, "deliver")
     \/ Goto(r, "release") /\ UNCHANGED <<ledger, missed>>
  /\ UNCHANGED <<settings, high, blocked, leases, saw, past, stale>>
\* The rest of a delivered response is written.
Deliver(r) ==
  /\ at[r] = "deliver" /\ Goto(r, "release")
  /\ UNCHANGED <<settings, high, blocked, ledger, leases, saw, missed, past, stale>>

\* Release, once; Redis may fail and leave the lease to its TTL.
Release(r) ==
  /\ at[r] = "release" /\ Goto(r, "done")
  /\ leases' \in {leases \ {r}, leases}
  /\ UNCHANGED <<settings, high, blocked, ledger, saw, missed, past, stale>>
\* Mutant: members of the active set are never trimmed.
NeverTrimmed(r) == FALSE /\ UNCHANGED vars
\* Ten minutes later.
LeaseExpires(r) ==
  /\ r \in leases /\ at[r] = "done" /\ leases' = leases \ {r}
  /\ UNCHANGED <<settings, high, blocked, ledger, at, saw, missed, past, stale>>
\* UpdateSettings and UpdateStudentAccess by an administrator; midnight.
Larger(a, b) == IF a > b THEN a ELSE b
\* Mutant: a limit of zero is stored.
UpdateUnchecked ==
  /\ settings' \in Settings \cup {[limit |-> 0, max |-> 1]}
  /\ UNCHANGED <<high, blocked, ledger, leases, at, saw, missed, past, stale>>
UpdateSettings ==
  /\ settings' \in Settings
  /\ high' = [limit |-> Larger(high.limit, settings'.limit), max |-> Larger(high.max, settings'.max)]
  /\ UNCHANGED <<blocked, ledger, leases, at, saw, missed, past, stale>>
UpdateStudentAccess ==
  /\ blocked' = ~blocked
  /\ UNCHANGED <<settings, high, ledger, leases, at, saw, missed, past, stale>>
Midnight ==
  /\ ledger' = {} /\ past' = {r \in Chat : at[r] = "run"} \cup past
  /\ UNCHANGED <<settings, high, blocked, leases, at, saw, missed, stale>>

Step(r) ==
  \/ CheckAccess(r) \/ ReadSettings(r) \/ CountReplies(r) \/ AcquireSlot(r)
  \/ ReviewContent(r) \/ CompleteReply(r) \/ Deliver(r) \/ Release(r)

Next ==
  \/ \E r \in Requests : Step(r) \/ LeaseExpires(r)
  \/ UpdateSettings \/ UpdateStudentAccess \/ Midnight

Spec == Init /\ [][Next]_vars
\* A request runs to its end (every handler has a timeout); TTLs run out.
GuardFairness == \A r \in Requests :
  WF_vars(at[r] # "idle" /\ Step(r)) /\ WF_vars(LeaseExpires(r))
FairSpec == Spec /\ GuardFairness

-----------------------------------------------------------------------------
(* Properties.                                                             *)

\* Settings, sets of requests and snapshots have their types.
TypeOK ==
  /\ settings \in Settings /\ high \in [limit : Nat \ {0}, max : Nat \ {0}]
  /\ blocked \in BOOLEAN /\ stale \in BOOLEAN
  /\ ledger \subseteq Metered /\ leases \subseteq Requests /\ missed \subseteq Metered /\ past \subseteq Chat
  /\ at \in [Requests -> Phases]
  /\ saw \in [Requests -> [limit : Nat \ {0}, max : Nat \ {0}, used : Nat]]

\* No more requests of a student are served at once than the largest
\* configured concurrency allows, whatever releases fail, answers are lost
\* and settings change (guard.go Acquire, the Redis script).
ConcurrencyHeld == Cardinality(Busy) <= high.max

\* Replies delivered today and replies under way stay within the largest
\* configured daily limit, unless some slot was granted on a count that
\* overlooked a reply recorded after it (Acquire reads PostgreSQL, then Redis).
QuotaHeldUnlessStale == ~stale => Cardinality(ledger \cup Pending) <= high.limit

\* No slot is lost: every lease is given back or expires.
SlotsReturn == \A r \in Requests : r \in leases ~> r \notin leases
=============================================================================
