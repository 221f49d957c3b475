---------------------------- MODULE LoginGates ----------------------------
(***************************************************************************)
(* What stands before a password: the slider captcha, whose challenge and  *)
(* proof are each good for once, and the lock of an account that failed    *)
(* too often.  Both live in Redis; unless the environment is strict the    *)
(* process goes on with a store of its own when a call of Redis fails, and *)
(* the login lock always does.                                             *)
(***************************************************************************)
EXTENDS Integers, FiniteSets

CONSTANTS Puzzles,           \* challenges that are issued, by id
          LoginRequests,     \* logins in flight
          MaxLoginFailures,  \* LOGIN_MAX_ATTEMPTS
          IssueLimit,        \* challenges per client and window
          MaxLocalSize,      \* states the process keeps
          MaxGuesses,        \* bound: wrong passwords
          MaxOutages         \* bound: calls of Redis that fail

ASSUME GateAssumption == /\ IsFiniteSet(LoginRequests)
                         /\ MaxLoginFailures \in Nat \ {0} /\ IssueLimit \in Nat \ {0}
                         /\ MaxLocalSize \in Nat \ {0}
                         /\ MaxGuesses \in Nat /\ MaxOutages \in Nat

VARIABLES puzzles,         \* per challenge: issued and answered to the client
          challengeStore,  \* [redis, local]: the challenges stored
          proofStore,      \* [redis, local]: the proofs stored, named by their challenge
          issues,          \* challenges counted in the window, in Redis and locally
          strictGates,
          logins,          \* per request, how far it is
          failures,        \* [redis, local]: failed logins counted
          lock,            \* the lock in Redis
          guesses,         \* wrong passwords compared since the counter or the lock last ran out
          entries,         \* logins let through, by challenge
          doubled,         \* challenges Redis stored without saying so
          outages

gateVars == <<puzzles, challengeStore, proofStore, issues, strictGates, logins, failures, lock,
              guesses, entries, doubled, outages>>
captchaVars == <<puzzles, challengeStore, proofStore, issues, entries, doubled>>
limiterVars == <<logins, failures, lock, guesses>>

GateInit ==
    /\ puzzles = [i \in Puzzles |-> "new"]
    /\ challengeStore = [redis |-> {}, local |-> {}]
    /\ proofStore = [redis |-> {}, local |-> {}]
    /\ issues \in [redis : 0..IssueLimit, local : 0..IssueLimit]  \* puzzles before these
    /\ strictGates \in BOOLEAN
    /\ logins = [q \in LoginRequests |-> "idle"]
    /\ failures = [redis |-> 0, local |-> 0]
    /\ lock = FALSE
    /\ guesses = 0
    /\ entries = [i \in Puzzles |-> 0]
    /\ doubled = {}
    /\ outages = 0

Outage == outages < MaxOutages /\ outages' = outages + 1
Up == UNCHANGED outages

-----------------------------------------------------------------------------
(* The captcha *)

LocalSize == Cardinality(challengeStore.local) + Cardinality(proofStore.local)

(* NewChallenge: the fallback counts and stores on its own *)
NewChallenge(i) ==
    /\ puzzles[i] = "new"
    /\ \/ /\ Up
          /\ issues.redis < IssueLimit
          /\ issues' = [issues EXCEPT !.redis = @ + 1]
          /\ challengeStore' = [challengeStore EXCEPT !.redis = @ \cup {i}]
          /\ puzzles' = [puzzles EXCEPT ![i] = "issued"]
          /\ UNCHANGED doubled
       \/ /\ Outage
          /\ \E unheard \in BOOLEAN :
                LET inRedis == unheard /\ issues.redis < IssueLimit
                    inProcess == ~strictGates /\ issues.local < IssueLimit /\ LocalSize < MaxLocalSize IN
                /\ challengeStore' = [redis |-> challengeStore.redis \cup (IF inRedis THEN {i} ELSE {}),
                                      local |-> challengeStore.local \cup (IF inProcess THEN {i} ELSE {})]
                /\ issues' = [redis |-> issues.redis + (IF inRedis THEN 1 ELSE 0),
                              local |-> issues.local +
                                  (IF ~strictGates /\ issues.local < IssueLimit THEN 1 ELSE 0)]
                /\ doubled' = IF inRedis /\ inProcess THEN doubled \cup {i} ELSE doubled
                /\ puzzles' = [puzzles EXCEPT ![i] = IF inProcess THEN "issued" ELSE "lost"]
    /\ UNCHANGED <<proofStore, strictGates, limiterVars, entries>>

(* verifyLocal: the challenge goes even when the proof finds no room *)
VerifyLocal(i, right, redisChallenges, redisProofs) ==
    LET rest == challengeStore.local \ {i}
        fits == Cardinality(rest) + Cardinality(proofStore.local) < MaxLocalSize
    IN
    /\ challengeStore' = [redis |-> redisChallenges, local |-> rest]
    /\ proofStore' = [redis |-> redisProofs,
                      local |-> proofStore.local \cup
                          (IF i \in challengeStore.local /\ right /\ fits THEN {i} ELSE {})]

(* Verify: one attempt, right or wrong, uses a challenge up *)
Verify(i, right) ==
    LET taken == challengeStore.redis \ {i}
        proofs == IF right /\ i \in challengeStore.redis THEN proofStore.redis \cup {i} ELSE proofStore.redis
    IN
    /\ puzzles[i] = "issued"
    /\ \/ /\ Up
          /\ IF i \in challengeStore.redis \/ strictGates
             THEN /\ challengeStore' = [challengeStore EXCEPT !.redis = taken]
                  /\ proofStore' = [proofStore EXCEPT !.redis = proofs]
             ELSE VerifyLocal(i, right, challengeStore.redis, proofStore.redis)
       \/ /\ Outage  \* a proof Redis stored unheard is never told to anyone
          /\ \E redisChallenges \in {challengeStore.redis, taken} :
                IF strictGates
                THEN /\ challengeStore' = [challengeStore EXCEPT !.redis = redisChallenges]
                     /\ UNCHANGED proofStore
                ELSE VerifyLocal(i, right, redisChallenges, proofStore.redis)
    /\ UNCHANGED <<puzzles, issues, strictGates, limiterVars, entries, doubled>>

(* ConsumeProof at the head of a login *)
ConsumeProof(q, i) ==
    /\ logins[q] = "idle"
    /\ \E inRedis \in BOOLEAN :
          LET local == ~inRedis /\ ~strictGates /\ i \in proofStore.local IN
          /\ \/ /\ Up
                /\ inRedis = (i \in proofStore.redis)
                /\ proofStore' = [redis |-> proofStore.redis \ {i},
                                  local |-> IF inRedis \/ strictGates THEN proofStore.local
                                            ELSE proofStore.local \ {i}]
             \/ /\ Outage
                /\ ~inRedis
                /\ \E left \in {proofStore.redis, proofStore.redis \ {i}} :
                      proofStore' = [redis |-> left,
                                     local |-> IF strictGates THEN proofStore.local
                                               ELSE proofStore.local \ {i}]
          /\ entries' = [entries EXCEPT ![i] = @ + (IF inRedis \/ local THEN 1 ELSE 0)]
          /\ logins' = IF inRedis \/ local THEN [logins EXCEPT ![q] = "proved"] ELSE logins
    /\ UNCHANGED <<puzzles, challengeStore, issues, strictGates, failures, lock, guesses, doubled>>

-----------------------------------------------------------------------------
(* The lock *)

Locked == \/ Up /\ lock
          \/ Outage /\ failures.local >= MaxLoginFailures
NotLocked == \/ Up /\ ~lock
             \/ Outage /\ failures.local < MaxLoginFailures

IsLocked(q) ==
    /\ logins[q] = "proved"
    /\ \/ Locked /\ logins' = [logins EXCEPT ![q] = "idle"]
       \/ NotLocked /\ logins' = [logins EXCEPT ![q] = "compared"]
    /\ UNCHANGED <<captchaVars, strictGates, failures, lock, guesses>>

(* RecordFailure: the count and the lock are two calls *)
RecordFailure(q) ==
    /\ logins[q] = "compared"
    /\ guesses < MaxGuesses
    /\ guesses' = guesses + 1
    /\ logins' = [logins EXCEPT ![q] = "idle"]
    /\ LET count == failures.redis + 1 IN
       \/ /\ Up
          /\ failures' = [failures EXCEPT !.redis = count]
          /\ lock' = (lock \/ count >= MaxLoginFailures)
       \/ /\ Outage
          /\ count >= MaxLoginFailures
          /\ failures' = [failures EXCEPT !.redis = count]
          /\ lock' \in {lock, TRUE}
       \/ /\ Outage
          /\ failures' \in {[failures EXCEPT !.local = @ + 1], [redis |-> count, local |-> failures.local + 1]}
          /\ UNCHANGED lock
    /\ UNCHANGED <<captchaVars, strictGates>>

(* Clear, after the right password *)
ClearFailures(q) ==
    /\ logins[q] = "compared"
    /\ logins' = [logins EXCEPT ![q] = "idle"]
    /\ \/ Up /\ failures' = [redis |-> 0, local |-> 0] /\ lock' = FALSE
       \/ Outage /\ failures' = [failures EXCEPT !.local = 0] /\ UNCHANGED lock
    /\ guesses' = 0
    /\ UNCHANGED <<captchaVars, strictGates>>

(* The counter and the lock of Redis run out by themselves, and so does each
   attempt the process remembers, all of them when it has to make room. *)
WindowEnds ==
    /\ \/ /\ failures.redis > 0 /\ failures' = [failures EXCEPT !.redis = 0]
          /\ guesses' = 0 /\ UNCHANGED lock
       \/ /\ lock /\ lock' = FALSE
          /\ guesses' = 0 /\ UNCHANGED failures
       \/ /\ \E n \in 0..failures.local - 1 : failures' = [failures EXCEPT !.local = n]
          /\ UNCHANGED <<lock, guesses>>
    /\ UNCHANGED <<captchaVars, strictGates, logins, outages>>

GateNext ==
    \/ \E i \in Puzzles : NewChallenge(i)
    \/ \E i \in Puzzles, right \in BOOLEAN : Verify(i, right)
    \/ \E q \in LoginRequests, i \in Puzzles : ConsumeProof(q, i)
    \/ \E q \in LoginRequests : IsLocked(q) \/ RecordFailure(q) \/ ClearFailures(q)
    \/ WindowEnds

GateSpec == GateInit /\ [][GateNext]_gateVars

-----------------------------------------------------------------------------
(* Properties *)

GateTypeOK ==
    /\ \A i \in Puzzles : puzzles[i] \in {"new", "issued", "lost"}
    /\ challengeStore \in [redis : SUBSET Puzzles, local : SUBSET Puzzles]
    /\ proofStore \in [redis : SUBSET Puzzles, local : SUBSET Puzzles]
    /\ LocalSize <= MaxLocalSize
    /\ strictGates => challengeStore.local = {} /\ proofStore.local = {}

(* One solved puzzle lets one login through, with Redis coming and going; the
   exception is a challenge Redis stored unheard beside the process's own. *)
OnePuzzleOneLogin ==
    \A i \in Puzzles : entries[i] <= IF i \in doubled THEN 2 ELSE 1

(* Until the counter or the lock runs out, or the password is given, no more
   wrong passwords are compared than the limit, the logins that had passed the
   check before the lock, and one for every call of Redis that failed. *)
GuessesAreBounded ==
    guesses <= MaxLoginFailures - 1 + Cardinality(LoginRequests) + outages

GatesHold == OnePuzzleOneLogin /\ GuessesAreBounded
=============================================================================
