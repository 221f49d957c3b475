-------------------------- MODULE AccountSessions --------------------------
(***************************************************************************)
(* One account: its password and status, the tokens handed out for it, the *)
(* one-time refresh sessions (in Redis, or in each process when Redis fails*)
(* and the environment is not strict), and the password reset requests an  *)
(* administrator reviews.  Logins, refreshes and password changes read the *)
(* account and act on what they read in separate steps.  A token is a pair *)
(* of an access and a refresh token issued together; expiry is left out: it*)
(* only takes tokens away.                                                 *)
(***************************************************************************)
EXTENDS Integers, Sequences, FiniteSets, FiniteSetsExt

CONSTANTS Processes,       \* backend processes, each with its own fallback store
          AuthRequests,    \* requests in flight
          LocalCapacity,   \* maxLocalSessions
          MaxTokens,       \* bound: tokens issued
          MaxChanges,      \* bound: changes of the account's row
          MaxRedisFaults   \* bound: calls of Redis that fail

ASSUME AccountAssumption == /\ LocalCapacity \in Nat \ {0}
                            /\ MaxTokens \in Nat /\ MaxChanges \in Nat /\ MaxRedisFaults \in Nat

VARIABLES account,       \* the row of users; password numbers the hashes
          tokens,        \* the tokens issued, by jti
          redisSessions, localSessions,
          authRequests,  \* per request, what it read and how far it is
          resets,        \* password_reset_requests
          strict,        \* RequiresSharedRefreshSessionStore
          consumed,      \* successful consumptions, by jti
          revoked,       \* tokens whose logout was answered without an error
          unsure,        \* tokens whose session Redis took without saying so
          redisFaults

accountVars == <<account, tokens, redisSessions, localSessions, authRequests, resets, strict,
                 consumed, revoked, unsure, redisFaults>>
stores == <<redisSessions, localSessions, consumed, revoked, unsure, redisFaults>>

NoAuthRequest == [phase |-> "idle"]

AccountInit ==
    /\ account = [status |-> "active", password |-> 1, version |-> 1, suspensions |-> 0]
    /\ tokens = <<>>
    /\ redisSessions = {}
    /\ localSessions = [p \in Processes |-> {}]
    /\ authRequests = [q \in AuthRequests |-> NoAuthRequest]
    /\ resets = <<>>
    /\ strict \in BOOLEAN
    /\ consumed = [t \in 1..MaxTokens |-> 0]
    /\ revoked = {}
    /\ unsure = {}
    /\ redisFaults = 0

Become(q, r) == authRequests' = [authRequests EXCEPT ![q] = r]
Read(phase, p) == [phase |-> phase, process |-> p, row |-> account]

-----------------------------------------------------------------------------
(* The refresh session store *)

RedisFails == redisFaults < MaxRedisFaults /\ redisFaults' = redisFaults + 1

\* mutant: the process keeps every session
Unbounded(s) == s

Earliest(s) == IF Cardinality(s) < LocalCapacity THEN s ELSE s \ {Min(s)}

(* Remember: a full process drops the session that expires first *)
Remember(t, p) ==
    \/ /\ redisSessions' = redisSessions \cup {t}
       /\ localSessions' = [localSessions EXCEPT ![p] = @ \ {t}]
       /\ UNCHANGED <<unsure, redisFaults>>
    \/ /\ RedisFails
       /\ \E unheard \in BOOLEAN :
             /\ redisSessions' = IF unheard THEN redisSessions \cup {t} ELSE redisSessions
             /\ unsure' = IF unheard THEN unsure \cup {t} ELSE unsure
       /\ localSessions' = IF strict THEN localSessions
                           ELSE [localSessions EXCEPT ![p] = Earliest(@) \cup {t}]

(* what Consume answers: the session was there, in Redis or in the process *)
ConsumeSession(t, p, found) ==
    /\ localSessions' = [localSessions EXCEPT ![p] = @ \ (IF strict THEN {} ELSE {t})]
    /\ consumed' = [consumed EXCEPT ![t] = @ + IF found THEN 1 ELSE 0]
    /\ UNCHANGED <<revoked, unsure>>
    /\ \/ /\ found = (t \in redisSessions \/ (~strict /\ t \in localSessions[p]))
          /\ redisSessions' = redisSessions \ {t}
          /\ UNCHANGED redisFaults
       \/ /\ RedisFails
          /\ found = (~strict /\ t \in localSessions[p])
          /\ redisSessions' \in {redisSessions, redisSessions \ {t}}

-----------------------------------------------------------------------------
(* Login, refresh, logout *)

(* Authenticate: the row is read once; a wrong or old password changes nothing *)
Authenticate(q, p) ==
    /\ authRequests[q].phase = "idle"
    /\ account.status = "active"
    /\ Len(tokens) < MaxTokens
    /\ Become(q, Read("issue", p))
    /\ UNCHANGED <<account, tokens, resets, strict, stores>>

(* tokensForUser: a session that cannot be remembered is not handed out *)
IssueTokens(q) ==
    LET r == authRequests[q]
        t == Len(tokens) + 1
    IN
    /\ r.phase = "issue"
    /\ Len(tokens) < MaxTokens
    /\ tokens' = Append(tokens, [version |-> r.row.version, password |-> r.row.password,
                                 suspensions |-> r.row.suspensions])
    /\ Remember(t, r.process)
    /\ Become(q, NoAuthRequest)
    /\ UNCHANGED <<account, resets, strict, consumed, revoked>>

(* RefreshTokens, first the session, then the account *)
RefreshTokens(q, t, p) ==
    /\ authRequests[q].phase = "idle"
    /\ \E found \in BOOLEAN :
          /\ ConsumeSession(t, p, found)
          /\ Become(q, IF found THEN [phase |-> "reload", process |-> p, token |-> t] ELSE NoAuthRequest)
    /\ UNCHANGED <<account, tokens, resets, strict>>

Accepted(t) == account.status = "active" /\ tokens[t].version = account.version

ReloadAccount(q) ==
    LET r == authRequests[q] IN
    /\ r.phase = "reload"
    /\ Become(q, IF Accepted(r.token) THEN Read("issue", r.process) ELSE NoAuthRequest)
    /\ UNCHANGED <<account, tokens, resets, strict, stores>>

(* RevokeRefreshToken: the cookies are cleared whatever the store says *)
Logout(t, p) ==
    /\ ~(strict /\ t \in revoked)
    /\ localSessions' = [localSessions EXCEPT ![p] = @ \ {t}]
    /\ \/ /\ redisSessions' = redisSessions \ {t}
          /\ revoked' = revoked \cup {t}
          /\ UNCHANGED redisFaults
       \/ /\ RedisFails
          /\ redisSessions' \in {redisSessions, redisSessions \ {t}}
          /\ UNCHANGED revoked
    /\ UNCHANGED <<account, tokens, authRequests, resets, strict, consumed, unsure>>

(* an error between two steps, a client that went away, a crash *)
DropAuthRequest(q) ==
    /\ authRequests[q].phase # "idle"
    /\ Become(q, NoAuthRequest)
    /\ UNCHANGED <<account, tokens, resets, strict, stores>>

-----------------------------------------------------------------------------
(* Changes of the account *)

\* mutant: the version of the tokens is left alone
WithSameVersion(row) == [row EXCEPT !.password = @ + 1]

WithNewPassword(row) == [row EXCEPT !.password = @ + 1, !.version = @ + 1]
Changeable == account.status # "deleted" /\ account.version <= MaxChanges

(* ChangePassword: the old password is checked on a row read before *)
CheckOldPassword(q, p) ==
    /\ authRequests[q].phase = "idle"
    /\ account.status = "active"
    /\ Changeable
    /\ Become(q, Read("store", p))
    /\ UNCHANGED <<account, tokens, resets, strict, stores>>

StorePassword(q) ==
    /\ authRequests[q].phase = "store"
    /\ Changeable
    /\ account' = WithNewPassword(account)
    /\ Become(q, NoAuthRequest)
    /\ UNCHANGED <<tokens, resets, strict, stores>>

(* UpdateUser with a password, by an administrator *)
UpdateUser == /\ Changeable
              /\ account' = WithNewPassword(account)
              /\ UNCHANGED <<tokens, authRequests, resets, strict, stores>>

UpdateUserStatus(status) ==
    /\ Changeable
    /\ account' = [account EXCEPT !.status = status, !.version = @ + 1,
                                  !.suspensions = @ + IF status = "suspended" THEN 1 ELSE 0]
    /\ UNCHANGED <<tokens, authRequests, resets, strict, stores>>

(* the user's requests go with the row *)
DeleteUser == /\ account.status # "deleted"
              /\ account' = [account EXCEPT !.status = "deleted"]
              /\ resets' = <<>>
              /\ UNCHANGED <<tokens, authRequests, strict, stores>>

-----------------------------------------------------------------------------
(* Password resets: counted, checked and inserted in three statements *)

Pending == {i \in DOMAIN resets : resets[i].status = "pending"}

CheckResetRequests(q, p) ==
    /\ authRequests[q].phase = "idle"
    /\ account.status # "deleted"
    /\ Len(resets) < MaxChanges
    /\ Pending = {}
    /\ Become(q, Read("reset", p))
    /\ UNCHANGED <<account, tokens, resets, strict, stores>>

CreatePasswordResetRequest(q) ==
    /\ authRequests[q].phase = "reset"
    /\ account.status # "deleted"
    /\ Len(resets) < MaxChanges
    /\ resets' = Append(resets, [status |-> "pending", decided |-> 0])
    /\ Become(q, NoAuthRequest)
    /\ UNCHANGED <<account, tokens, strict, stores>>

(* ReviewPasswordResetRequest: decided once, under the row's lock *)
ReviewPasswordReset(i, approve) ==
    /\ resets[i].status = "pending"
    /\ approve => Changeable
    /\ resets' = [resets EXCEPT ![i] = [status |-> IF approve THEN "approved" ELSE "rejected",
                                        decided |-> @.decided + 1]]
    /\ account' = IF approve THEN WithNewPassword(account) ELSE account
    /\ UNCHANGED <<tokens, authRequests, strict, stores>>

AccountNext ==
    \/ \E q \in AuthRequests, p \in Processes :
          Authenticate(q, p) \/ CheckOldPassword(q, p) \/ CheckResetRequests(q, p)
    \/ \E q \in AuthRequests :
          \/ IssueTokens(q)
          \/ ReloadAccount(q)
          \/ StorePassword(q)
          \/ CreatePasswordResetRequest(q)
          \/ DropAuthRequest(q)
    \/ \E q \in AuthRequests, p \in Processes, t \in DOMAIN tokens : RefreshTokens(q, t, p)
    \/ \E p \in Processes, t \in DOMAIN tokens : Logout(t, p)
    \/ UpdateUser
    \/ \E status \in {"active", "suspended"} : UpdateUserStatus(status)
    \/ DeleteUser
    \/ \E i \in DOMAIN resets, approve \in BOOLEAN : ReviewPasswordReset(i, approve)

AccountSpec == AccountInit /\ [][AccountNext]_accountVars

-----------------------------------------------------------------------------
(* Properties *)

AccountTypeOK ==
    /\ account.status \in {"active", "suspended", "deleted"}
    /\ Len(tokens) <= MaxTokens
    /\ redisSessions \subseteq DOMAIN tokens
    /\ \A p \in Processes : localSessions[p] \subseteq DOMAIN tokens
    /\ \A p \in Processes : Cardinality(localSessions[p]) <= LocalCapacity
    /\ redisFaults \in 0..MaxRedisFaults

(* Every token the API accepts was issued for the password of now and not
   before a suspension: no login and no refresh that was under way while the
   password was changed, reset or the account suspended brings a session over
   the change, nor does lifting the suspension bring one back. *)
SessionsFollowTheAccount ==
    \A t \in DOMAIN tokens : Accepted(t) => /\ tokens[t].password = account.password
                                            /\ tokens[t].suspensions = account.suspensions

(* A refresh token rotates once, with two tabs, two processes and a Redis that
   comes and goes; the exception is a session Redis took without answering
   while the process kept its own copy. *)
OneTimeRotation == \A t \in 1..MaxTokens : consumed[t] <= IF t \in unsure /\ ~strict THEN 2 ELSE 1

AccountsHold == SessionsFollowTheAccount /\ OneTimeRotation

(* In a strict environment a logout that was answered without an error is
   final: the token is never consumed afterwards, by any process. *)
LogoutIsFinal == [][strict => \A t \in revoked : consumed'[t] = consumed[t]]_accountVars
=============================================================================
