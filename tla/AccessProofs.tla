---------------------------- MODULE AccessProofs ----------------------------
(***************************************************************************)
(* Proofs about what stands between a person and what is theirs: sessions, *)
(* the gates before a password, the binding of a follower, the reminders   *)
(* of a class and the storage of objects, for any number of accounts,      *)
(* puzzles, followers, learners and tasks.                                 *)
(***************************************************************************)
EXTENDS AccountSessions, LoginGates, WechatBinding, StorageSwitch, DailyReminders,
        FiniteSetTheorems, SequenceTheorems, TLAPS

-----------------------------------------------------------------------------
(* Accounts: what a session was issued for, and where it is kept.          *)

AccountRow == [status : {"active", "suspended", "deleted"}, password : Nat, version : Nat, suspensions : Nat]
TokenRow == [version : Nat, password : Nat, suspensions : Nat]
AuthRow == [phase : {"idle"}] \cup [phase : {"reload"}, process : Processes, token : 1..MaxTokens]
           \cup [phase : {"issue", "store", "reset"}, process : Processes, row : AccountRow]
Issued == 1..Len(tokens)

\* A row that was read, or what a token took from it, is one of the account's past: of the
\* version it has now, it has the password and the suspensions of now.
OfThePast(row, now) ==
  /\ row.version <= now.version
  /\ row.version = now.version => row.password = now.password /\ row.suspensions = now.suspensions

AccountSide ==
  /\ account \in AccountRow /\ tokens \in Seq(TokenRow) /\ Len(tokens) <= MaxTokens
  /\ authRequests \in [AuthRequests -> AuthRow]
  /\ \A t \in Issued : OfThePast(tokens[t], account)
  /\ \A q \in AuthRequests :
       /\ authRequests[q].phase = "issue" => OfThePast(authRequests[q].row, account)
       /\ authRequests[q].phase = "reload" => authRequests[q].token \in Issued

\* The copies of a session that are left, and the consumptions they leave to it.
HeldLocally(t) == \E p \in Processes : t \in localSessions[p]
CopiesOf(t) ==
  IF t \in unsure /\ ~strict
  THEN /\ consumed[t] <= 2
       /\ consumed[t] >= 1 => t \notin redisSessions \/ ~HeldLocally(t)
       /\ consumed[t] = 2 => t \notin redisSessions /\ ~HeldLocally(t)
  ELSE /\ consumed[t] <= 1
       /\ t \in redisSessions => ~HeldLocally(t)
       /\ consumed[t] = 1 => t \notin redisSessions /\ ~HeldLocally(t)

StoreRows ==
  /\ redisSessions \subseteq Issued /\ revoked \subseteq Issued /\ unsure \subseteq Issued
  /\ localSessions \in [Processes -> SUBSET Issued] /\ strict \in BOOLEAN
  /\ consumed \in [1..MaxTokens -> Nat] /\ redisFaults \in 0..MaxRedisFaults
StoreSide ==
  /\ StoreRows
  /\ \A p \in Processes : Cardinality(localSessions[p]) <= LocalCapacity
  /\ \A t \in 1..MaxTokens : CopiesOf(t)
  /\ \A t \in (1..MaxTokens) \ Issued : consumed[t] = 0
  /\ \A t \in Issued : \A p \in Processes, r \in Processes :
        t \in localSessions[p] /\ t \in localSessions[r] => p = r
  /\ strict => /\ \A p \in Processes : localSessions[p] = {}
               /\ revoked \cap redisSessions = {}

AccountInv == AccountSide /\ StoreSide

\* The body of LogoutIsFinal.
LogoutStays == strict => \A t \in revoked : consumed'[t] = consumed[t]

\* The session that expires first is one of the process.
LEMMA MinIsIn ==
  ASSUME NEW S, S \subseteq Nat, IsFiniteSet(S), S # {}
  PROVE  Min(S) \in S
<1> DEFINE Below(x) == {y \in S : y < x}
           all == {Below(x) : x \in S}
<1>0. FiniteSubsetsOf(S) = SUBSET S
  BY FS_FiniteSubsetsOfFinite
<1>1. all \subseteq SUBSET S /\ all # {} /\ \A x \in S : Below(x) \in all
  BY Zenon
<1>2. \E T \in all : \A U \in all : ~(<<U, T>> \in StrictSubsetOrdering(S))
  <2> HIDE DEF all
  <2>1. all \subseteq FiniteSubsetsOf(S)
    BY <1>0, <1>1
  <2>2. IsWellFoundedOn(StrictSubsetOrdering(S), FiniteSubsetsOf(S))
    BY FS_StrictSubsetOrderingWellFounded
  <2> QED BY <1>1, <2>1, <2>2, WFMin
<1>3. PICK x \in S : \A U \in all : ~(<<U, Below(x)>> \in StrictSubsetOrdering(S))
  BY <1>2, Zenon
<1>4. \A y \in S : x =< y
  <2> SUFFICES ASSUME NEW y \in S, y < x PROVE FALSE
    OBVIOUS
  <2> HIDE DEF all
  <2>1. /\ y \in Below(x) /\ y \notin Below(y) /\ Below(x) \subseteq S
        /\ Below(y) \subseteq Below(x)
    <3>1. x \in Nat /\ y \in Nat /\ \A z \in S : z \in Nat
      OBVIOUS
    <3>2. ~(y < y) /\ \A z \in S : z < y => z < x
      BY <3>1
    <3> QED BY <3>2, Zenon
  <2>2. Below(y) \in all
    BY <1>1
  <2> HIDE DEF Below
  <2>3. <<Below(y), Below(x)>> \in StrictSubsetOrdering(S)
    BY <2>1 DEF StrictSubsetOrdering
  <2> QED BY <1>3, <2>2, <2>3
<1> QED BY <1>4, Zenon DEF Min

-----------------------------------------------------------------------------
(* The account and the rows that were read of it.                          *)

\* What is of the past stays of it, when the version grows or nothing it stands for changes.
Follows(now, next) ==
  next.version > now.version \/ [next EXCEPT !.status = now.status] = now

\* A row of the past is one of the past of whatever follows.
LEMMA PastStaysPast ==
  ASSUME NEW row, row.version \in Nat, NEW now \in AccountRow, NEW next \in AccountRow,
         OfThePast(row, now), Follows(now, next)
  PROVE  OfThePast(row, next)
<1>1. now.version \in Nat /\ next.version \in Nat
  BY DEF AccountRow
<1>2. CASE next.version > now.version
  BY <1>1, <1>2 DEF OfThePast
<1>3. CASE [next EXCEPT !.status = now.status] = now
  <2>1. next.version = now.version /\ next.password = now.password /\ next.suspensions = now.suspensions
    BY <1>3 DEF AccountRow
  <2> QED BY <2>1 DEF OfThePast
<1> QED BY <1>2, <1>3 DEF Follows

(* A request goes on and the account may change, on the tokens there are.  *)
LEMMA RequestKeeps ==
  ASSUME AccountSide, NEW q \in AuthRequests, NEW r \in AuthRow,
         authRequests' \in {authRequests, [authRequests EXCEPT ![q] = r]},
         tokens' = tokens, account' \in AccountRow, Follows(account, account'),
         r.phase = "issue" => OfThePast(r.row, account),
         r.phase = "reload" => r.token \in Issued
  PROVE  AccountSide'
<1>1. authRequests' \in [AuthRequests -> AuthRow]
  BY DEF AccountSide
<1>2. \A x \in AuthRequests : authRequests'[x] \in {authRequests[x], r}
  BY DEF AccountSide
<1>3. ASSUME NEW x \in AuthRequests
      PROVE  /\ authRequests'[x].phase = "issue" => OfThePast(authRequests'[x].row, account')
             /\ authRequests'[x].phase = "reload" => authRequests'[x].token \in Issued'
  <2>1. /\ authRequests'[x].phase = "issue" => OfThePast(authRequests'[x].row, account)
        /\ authRequests'[x].phase = "reload" => authRequests'[x].token \in Issued
    BY <1>2 DEF AccountSide
  <2>2. authRequests'[x].phase = "issue" => authRequests'[x].row \in AccountRow
    BY <1>1 DEF AuthRow
  <2>3. authRequests'[x].phase = "issue" => authRequests'[x].row.version \in Nat
    BY <2>2 DEF AccountRow
  <2>4. authRequests'[x].phase = "issue" => OfThePast(authRequests'[x].row, account')
    BY <2>1, <2>3, PastStaysPast DEF AccountSide
  <2> QED BY <2>1, <2>4 DEF Issued
<1>4. \A t \in Issued : OfThePast(tokens[t], account')
  <2> TAKE t \in Issued
  <2>1. tokens[t] \in TokenRow /\ OfThePast(tokens[t], account)
    BY ElementOfSeq DEF AccountSide, Issued
  <2>2. tokens[t].version \in Nat
    BY <2>1 DEF TokenRow
  <2>3. account \in AccountRow
    BY DEF AccountSide
  <2> QED BY <2>1, <2>2, <2>3, PastStaysPast
<1> QED BY <1>1, <1>3, <1>4 DEF AccountSide, Issued

\* An account that stays as it is follows itself, and what is read of it is of its past.
LEMMA AccountIsNow ==
  ASSUME AccountSide
  PROVE  account \in AccountRow /\ Follows(account, account) /\ OfThePast(account, account)
<1>1. account.version \in Nat /\ account \in AccountRow
  BY DEF AccountSide, AccountRow
<1>2. [account EXCEPT !.status = account.status] = account
  BY <1>1 DEF AccountRow
<1> QED BY <1>1, <1>2 DEF Follows, OfThePast

\* A request at rest.
LEMMA IdleIsARow == NoAuthRequest \in AuthRow /\ NoAuthRequest.phase = "idle"
BY DEF NoAuthRequest, AuthRow

(* What an administrator or a new password makes of the account.           *)
LEMMA NewPasswordFollows ==
  ASSUME AccountSide
  PROVE  WithNewPassword(account) \in AccountRow /\ Follows(account, WithNewPassword(account))
<1> DEFINE next == WithNewPassword(account)
<1>1. account \in AccountRow /\ account.version \in Nat /\ account.password \in Nat
      /\ account.status \in {"active", "suspended", "deleted"} /\ account.suspensions \in Nat
  BY DEF AccountSide, AccountRow
<1>2. next = [status |-> account.status, password |-> account.password + 1,
              version |-> account.version + 1, suspensions |-> account.suspensions]
  <2>1. next = [account EXCEPT !.password = account.password + 1, !.version = account.version + 1]
    BY DEF WithNewPassword
  <2> HIDE DEF next
  <2> QED BY <1>1, <2>1, Zenon DEF AccountRow
<1> HIDE DEF next
<1>3. next \in AccountRow
  BY <1>1, <1>2 DEF AccountRow
<1>4. next.version > account.version
  BY <1>1, <1>2
<1>5. next \in AccountRow /\ Follows(account, next)
  BY <1>3, <1>4 DEF Follows
<1> QED BY <1>5 DEF next

\* UpdateUserStatus raises the version, and counts a suspension.
LEMMA NewStatusFollows ==
  ASSUME AccountSide, NEW status \in {"active", "suspended"}, UpdateUserStatus(status)
  PROVE  account' \in AccountRow /\ Follows(account, account')
<1> DEFINE more == IF status = "suspended" THEN 1 ELSE 0
<1>1. account \in AccountRow /\ account.version \in Nat /\ account.password \in Nat
      /\ account.suspensions \in Nat /\ more \in Nat
  BY DEF AccountSide, AccountRow
<1>2. account' = [account EXCEPT !.status = status, !.version = @ + 1, !.suspensions = @ + more]
  BY DEF UpdateUserStatus
<1> HIDE DEF more
<1>3. account' = [status |-> status, password |-> account.password,
                  version |-> account.version + 1, suspensions |-> account.suspensions + more]
  BY <1>1, <1>2, Zenon DEF AccountRow
<1>4. account' \in AccountRow
  BY <1>1, <1>3 DEF AccountRow
<1>5. account'.version > account.version
  BY <1>1, <1>3
<1> QED BY <1>4, <1>5 DEF Follows

\* DeleteUser leaves the version as it is.
LEMMA DeletedFollows ==
  ASSUME AccountSide, DeleteUser
  PROVE  account' \in AccountRow /\ Follows(account, account')
<1>1. account \in AccountRow /\ account' = [account EXCEPT !.status = "deleted"]
  BY DEF AccountSide, DeleteUser
<1>2. account' \in AccountRow
  BY <1>1 DEF AccountRow
<1>3. [account' EXCEPT !.status = account.status] = account
  BY <1>1, Zenon DEF AccountRow
<1> QED BY <1>2, <1>3 DEF Follows

-----------------------------------------------------------------------------
(* The sessions.                                                            *)

\* A session is dropped to make room before one more is kept.
LEMMA RoomIsMade ==
  ASSUME NEW s, s \subseteq Nat, IsFiniteSet(s), Cardinality(s) <= LocalCapacity, NEW t
  PROVE  Earliest(s) \subseteq s /\ Cardinality(Earliest(s) \cup {t}) <= LocalCapacity
<1>1. LocalCapacity \in Nat \ {0} /\ Cardinality(s) \in Nat
  BY AccountAssumption, FS_CardinalityType
<1>2. CASE Cardinality(s) < LocalCapacity
  <2>1. Earliest(s) = s
    BY <1>2 DEF Earliest
  <2>2. Cardinality(s \cup {t}) \in {Cardinality(s), Cardinality(s) + 1}
    BY FS_AddElement
  <2> QED BY <1>1, <1>2, <2>1, <2>2
<1>3. CASE ~(Cardinality(s) < LocalCapacity)
  <2>1. s # {}
    BY <1>1, <1>3, FS_EmptySet
  <2>2. Min(s) \in s
    BY <2>1, MinIsIn, Zenon
  <2> DEFINE rest == s \ {Min(s)}
  <2>3. Earliest(s) = rest
    BY <1>3 DEF Earliest
  <2>4. IsFiniteSet(rest) /\ Cardinality(rest) = Cardinality(s) - 1
    BY <2>2, FS_RemoveElement
  <2> HIDE DEF rest
  <2>5. Cardinality(rest \cup {t}) \in {Cardinality(rest), Cardinality(rest) + 1}
    BY <2>4, FS_AddElement
  <2>6. Cardinality(rest \cup {t}) \in Nat
    BY <2>4, FS_AddElement, FS_CardinalityType
  <2>7. rest \subseteq s
    BY DEF rest
  <2> QED BY <1>1, <2>3, <2>4, <2>5, <2>6, <2>7
<1> QED BY <1>2, <1>3

\* The sessions of a process are finitely many.
LEMMA LocalIsFinite ==
  ASSUME StoreSide, tokens \in Seq(TokenRow), NEW p \in Processes
  PROVE  localSessions[p] \subseteq Nat /\ IsFiniteSet(localSessions[p])
<1>1. Len(tokens) \in Nat /\ Issued \subseteq Nat /\ IsFiniteSet(Issued)
  BY LenProperties, FS_Interval DEF Issued
<1>2. localSessions[p] \subseteq Issued
  BY DEF StoreSide, StoreRows
<1> QED BY <1>1, <1>2, FS_Subset, Zenon

\* What is taken out of a store leaves it within its limit.
LEMMA FewerAreFewer ==
  ASSUME NEW s, IsFiniteSet(s), Cardinality(s) <= LocalCapacity, NEW r \in SUBSET s
  PROVE  Cardinality(r) <= LocalCapacity
<1>1. LocalCapacity \in Nat /\ Cardinality(s) \in Nat /\ Cardinality(r) \in Nat /\ Cardinality(r) <= Cardinality(s)
  BY AccountAssumption, FS_Subset, FS_CardinalityType
<1> QED BY <1>1

(* Steps that leave the sessions alone.                                    *)
LEMMA StoresQuiet ==
  ASSUME StoreSide, UNCHANGED <<tokens, strict, stores>>
  PROVE  StoreSide' /\ LogoutStays
<1> USE DEF stores
<1>1. StoreRows' /\ Issued' = Issued
  BY DEF StoreSide, StoreRows, Issued
<1>2. \A t \in 1..MaxTokens : CopiesOf(t)'
  BY DEF StoreSide, CopiesOf, HeldLocally
<1> QED BY <1>1, <1>2 DEF StoreSide, LogoutStays

(* Sessions go: they are consumed, or a logout takes them.                 *)
LEMMA SessionsGo ==
  ASSUME StoreSide, tokens \in Seq(TokenRow), Len(tokens) <= MaxTokens, NEW t \in Issued, NEW p \in Processes, NEW gone \in SUBSET {t},
         NEW n \in {0, 1},
         UNCHANGED <<tokens, strict, unsure>>,
         localSessions' = [localSessions EXCEPT ![p] = @ \ gone],
         redisSessions' \in {redisSessions, redisSessions \ {t}},
         consumed' = [consumed EXCEPT ![t] = @ + n],
         redisFaults' \in 0..MaxRedisFaults,
         revoked' \subseteq Issued,
         revoked' # revoked => revoked' = revoked \cup {t} /\ redisSessions' = redisSessions \ {t},
         n = 1 => /\ strict => t \in redisSessions
                  /\ t \in redisSessions \/ t \in localSessions[p]
                  /\ t \in redisSessions => redisSessions' = redisSessions \ {t} \/ t \in localSessions[p]
                  /\ ~strict => gone = {t}
  PROVE  StoreSide' /\ LogoutStays
<1> USE AccountAssumption
<1>0. t \in 1..MaxTokens
  BY LenProperties DEF Issued
<1>1. /\ localSessions' \in [Processes -> SUBSET Issued]
      /\ \A r \in Processes : localSessions'[r] \subseteq localSessions[r]
      /\ localSessions'[p] = localSessions[p] \ gone
      /\ \A r \in Processes \ {p} : localSessions'[r] = localSessions[r]
  BY DEF StoreSide, StoreRows
<1>2. consumed' \in [1..MaxTokens -> Nat] /\ consumed'[t] = consumed[t] + n
      /\ \A u \in (1..MaxTokens) \ {t} : consumed'[u] = consumed[u]
  BY <1>0 DEF StoreSide, StoreRows
<1>3. StoreRows' /\ Issued' = Issued
  BY <1>1, <1>2, Zenon DEF StoreSide, StoreRows, Issued
<1>4. \A r \in Processes : Cardinality(localSessions'[r]) <= LocalCapacity
  BY <1>1, LocalIsFinite, FewerAreFewer DEF StoreSide
<1>5. \A u \in (1..MaxTokens) \ {t} : CopiesOf(u)'
  <2> TAKE u \in (1..MaxTokens) \ {t}
  <2>1. (HeldLocally(u)' => HeldLocally(u)) /\ (u \in redisSessions' => u \in redisSessions)
    BY <1>1 DEF HeldLocally
  <2>2. consumed'[u] = consumed[u]
    BY <1>2
  <2> QED BY <2>1, <2>2 DEF StoreSide, CopiesOf
<1>6. CopiesOf(t)'
  <2>1. (HeldLocally(t)' => HeldLocally(t)) /\ (t \in redisSessions' => t \in redisSessions)
    BY <1>1 DEF HeldLocally
  <2>2. CopiesOf(t) /\ consumed[t] \in Nat
    BY <1>0 DEF StoreSide, StoreRows
  <2>3. CASE n = 0
    <3>1. consumed'[t] = consumed[t]
      BY <1>2, <2>2, <2>3
    <3> QED BY <2>1, <2>2, <3>1 DEF CopiesOf
  <2>4. CASE n = 1
    <3>1. consumed'[t] = consumed[t] + 1
      BY <1>2, <2>4
    <3>2. t \in localSessions[p] => HeldLocally(t)
      BY DEF HeldLocally
    <3>3. ~strict /\ t \in localSessions[p] => ~HeldLocally(t)'
      <4> SUFFICES ASSUME ~strict, t \in localSessions[p], NEW r \in Processes, t \in localSessions'[r]
                   PROVE  FALSE
        BY DEF HeldLocally
      <4>1. t \in localSessions[r] /\ r = p
        BY <1>1 DEF StoreSide
      <4> QED BY <4>1, <1>1, <2>4
    <3>4. ~HeldLocally(t) => ~HeldLocally(t)'
      BY <2>1
    <3>5. CASE t \in unsure /\ ~strict
      <4>1. consumed[t] <= 1
        <5>1. t \in redisSessions \/ HeldLocally(t)
          BY <2>4, <3>2
        <5> QED BY <3>5, <5>1, <2>2 DEF CopiesOf
      <4>2. t \notin redisSessions' \/ ~HeldLocally(t)'
        BY <2>4, <3>3, <3>5
      <4>3. consumed[t] = 1 => t \notin redisSessions' /\ ~HeldLocally(t)'
        <5> SUFFICES ASSUME consumed[t] = 1 PROVE t \notin redisSessions' /\ ~HeldLocally(t)'
          OBVIOUS
        <5>1. t \notin redisSessions \/ ~HeldLocally(t)
          BY <3>5, <2>2 DEF CopiesOf
        <5>2. CASE t \in redisSessions
          BY <5>1, <5>2, <3>2, <3>4, <2>4
        <5>3. CASE t \notin redisSessions
          BY <5>3, <3>5, <3>3, <2>4, <2>1
        <5> QED BY <5>2, <5>3
      <4>4. consumed'[t] <= 2 /\ (consumed'[t] = 2 => consumed[t] = 1)
        BY <4>1, <3>1, <2>2
      <4> QED BY <3>5, <4>2, <4>3, <4>4 DEF CopiesOf
    <3>6. CASE ~(t \in unsure /\ ~strict)
      <4>1. consumed[t] = 0
        <5>1. t \in redisSessions \/ HeldLocally(t)
          BY <2>4, <3>2
        <5>2. consumed[t] # 1 /\ consumed[t] <= 1
          BY <5>1, <3>6, <2>2 DEF CopiesOf
        <5> QED BY <5>2, <2>2
      <4>2. t \in redisSessions => ~HeldLocally(t)
        BY <3>6, <2>2 DEF CopiesOf
      <4>3. t \notin redisSessions' /\ ~HeldLocally(t)'
        <5>1. CASE t \in redisSessions
          BY <5>1, <4>2, <3>2, <3>4, <2>4
        <5>2. CASE t \notin redisSessions
          BY <5>2, <3>3, <2>4, <2>1
        <5> QED BY <5>1, <5>2
      <4>4. consumed'[t] = 1
        BY <4>1, <3>1
      <4> QED BY <3>6, <4>3, <4>4 DEF CopiesOf
    <3> QED BY <3>5, <3>6
  <2> QED BY <2>3, <2>4
<1>7. \A u \in (1..MaxTokens) \ Issued' : consumed'[u] = 0
  BY <1>2, <1>3 DEF StoreSide
<1>8. \A u \in Issued' : \A x \in Processes, r \in Processes :
        u \in localSessions'[x] /\ u \in localSessions'[r] => x = r
  BY <1>1, <1>3 DEF StoreSide
<1>9. strict' => /\ \A x \in Processes : localSessions'[x] = {}
                 /\ revoked' \cap redisSessions' = {}
  BY <1>1 DEF StoreSide
<1>10. LogoutStays
  <2> SUFFICES ASSUME strict, NEW u \in revoked PROVE consumed'[u] = consumed[u]
    BY DEF LogoutStays
  <2>1. u \notin redisSessions /\ u \in 1..MaxTokens /\ consumed[u] \in Nat
    BY LenProperties DEF StoreSide, StoreRows, Issued
  <2>2. u = t => n = 0
    BY <2>1
  <2> QED BY <2>1, <2>2, <1>2
<1> QED BY <1>3, <1>4, <1>5, <1>6, <1>7, <1>8, <1>9, <1>10, Zenon DEF StoreSide

(* A new session is kept, in Redis, in the process or in both.              *)
LEMMA SessionKept ==
  ASSUME StoreSide, tokens \in Seq(TokenRow), Len(tokens) < MaxTokens, NEW row \in TokenRow,
         tokens' = Append(tokens, row), NEW p \in Processes, Remember(Len(tokens) + 1, p),
         UNCHANGED <<strict, consumed, revoked>>
  PROVE  StoreSide' /\ LogoutStays
<1> USE AccountAssumption
<1>a. PICK t \in Nat : t = Len(tokens) + 1
  BY LenProperties
<1>1. /\ Len(tokens) \in Nat /\ Len(tokens') = t /\ Issued' = Issued \cup {t}
      /\ t \notin Issued /\ t \in 1..MaxTokens /\ Issued \subseteq 1..MaxTokens
  BY <1>a, LenProperties, AppendProperties DEF Issued
<1>2. t \notin redisSessions /\ t \notin unsure /\ t \notin revoked /\ ~HeldLocally(t) /\ consumed[t] = 0
  BY <1>1 DEF StoreSide, StoreRows, HeldLocally
<1>3. /\ redisSessions' \in {redisSessions, redisSessions \cup {t}}
      /\ unsure' \in {unsure, unsure \cup {t}} /\ redisFaults' \in 0..MaxRedisFaults
      /\ \/ localSessions' = localSessions
         \/ /\ ~strict /\ (t \in redisSessions' => t \in unsure')
            /\ localSessions' = [localSessions EXCEPT ![p] = Earliest(@) \cup {t}]
  <2>1. Remember(t, p) /\ redisFaults \in 0..MaxRedisFaults
    BY <1>a DEF StoreSide, StoreRows
  <2>2. [localSessions EXCEPT ![p] = @ \ {t}] = localSessions
    <3>1. localSessions[p] \ {t} = localSessions[p] /\ localSessions \in [Processes -> SUBSET Issued]
      BY <1>2 DEF HeldLocally, StoreSide, StoreRows
    <3> QED BY <3>1
  <2>3. /\ redisSessions' \in {redisSessions, redisSessions \cup {t}}
        /\ unsure' \in {unsure, unsure \cup {t}} /\ redisFaults' \in 0..MaxRedisFaults
    BY <2>1 DEF Remember, RedisFails
  <2> QED BY <2>1, <2>2, <2>3, <1>2, Zenon DEF Remember
<1>4. /\ localSessions' \in [Processes -> SUBSET Issued']
      /\ \A r \in Processes : localSessions'[r] \subseteq localSessions[r] \cup {t}
      /\ \A r \in Processes \ {p} : localSessions'[r] = localSessions[r]
      /\ \A r \in Processes : Cardinality(localSessions'[r]) <= LocalCapacity
  <2>1. CASE localSessions' = localSessions
    BY <2>1, <1>1 DEF StoreSide, StoreRows
  <2>2. CASE localSessions' = [localSessions EXCEPT ![p] = Earliest(@) \cup {t}]
    <3> DEFINE kept == Earliest(localSessions[p]) \cup {t}
    <3>1. Earliest(localSessions[p]) \subseteq localSessions[p] /\ Cardinality(kept) <= LocalCapacity
      BY LocalIsFinite, RoomIsMade, Zenon DEF StoreSide
    <3>2. kept \subseteq localSessions[p] \cup {t} /\ localSessions' = [localSessions EXCEPT ![p] = kept]
      BY <3>1, <2>2
    <3> HIDE DEF kept
    <3>3. localSessions \in [Processes -> SUBSET Issued]
          /\ \A r \in Processes : Cardinality(localSessions[r]) <= LocalCapacity
      BY DEF StoreSide, StoreRows
    <3>4. localSessions'[p] = kept /\ \A r \in Processes \ {p} : localSessions'[r] = localSessions[r]
      BY <3>2, <3>3
    <3>5. localSessions' \in [Processes -> SUBSET Issued']
      <4>1. kept \in SUBSET Issued'
        BY <3>2, <3>3, <1>1
      <4> QED BY <3>2, <3>3, <4>1, <1>1
    <3> QED BY <3>1, <3>2, <3>3, <3>4, <3>5
  <2> QED BY <1>3, <2>1, <2>2
<1>5. StoreRows'
  BY <1>1, <1>3, <1>4, Zenon DEF StoreSide, StoreRows
<1>6. \A u \in (1..MaxTokens) \ {t} : CopiesOf(u)'
  <2> TAKE u \in (1..MaxTokens) \ {t}
  <2>1. (HeldLocally(u)' => HeldLocally(u)) /\ (u \in redisSessions' => u \in redisSessions)
        /\ (u \in unsure' <=> u \in unsure)
    BY <1>3, <1>4 DEF HeldLocally
  <2> QED BY <2>1 DEF StoreSide, CopiesOf
<1>7. CopiesOf(t)'
  <2>1. consumed'[t] = 0
    BY <1>2
  <2>2. t \in redisSessions' => ~HeldLocally(t)' \/ (t \in unsure' /\ ~strict)
    <3>1. CASE localSessions' = localSessions
      BY <3>1, <1>2 DEF HeldLocally
    <3> QED BY <1>3, <3>1, Zenon
  <2>3. strict' = strict
    OBVIOUS
  <2> QED BY <2>1, <2>2, <2>3 DEF CopiesOf
<1>8. \A u \in (1..MaxTokens) \ Issued' : consumed'[u] = 0
  BY <1>1 DEF StoreSide
<1>9. \A u \in Issued' : \A x \in Processes, r \in Processes :
        u \in localSessions'[x] /\ u \in localSessions'[r] => x = r
  <2>1. \A u \in Issued' : \A x \in Processes : u \in localSessions'[x] => u \in localSessions[x] \/ (u = t /\ x = p)
    BY <1>2, <1>4 DEF HeldLocally
  <2>2. \A u \in Issued : \A x \in Processes, r \in Processes :
          u \in localSessions[x] /\ u \in localSessions[r] => x = r
    BY DEF StoreSide
  <2> QED BY <1>1, <1>2, <2>1, <2>2 DEF HeldLocally
<1>10. strict' => /\ \A x \in Processes : localSessions'[x] = {}
                  /\ revoked' \cap redisSessions' = {}
  <2> SUFFICES ASSUME strict PROVE (\A x \in Processes : localSessions'[x] = {}) /\ revoked \cap redisSessions' = {}
    OBVIOUS
  <2>1. (\A x \in Processes : localSessions[x] = {}) /\ revoked \cap redisSessions = {}
    BY DEF StoreSide
  <2>2. \A x \in Processes : localSessions'[x] \subseteq localSessions[x]
    BY <1>3, <1>4 DEF StoreSide, StoreRows
  <2> QED BY <2>1, <2>2, <1>2, <1>3
<1>11. LogoutStays
  BY DEF LogoutStays
<1>12. \A u \in 1..MaxTokens : CopiesOf(u)'
  BY <1>6, <1>7
<1>13. \A r \in Processes : Cardinality(localSessions'[r]) <= LocalCapacity
  BY <1>4
<1> QED BY <1>5, <1>8, <1>9, <1>10, <1>11, <1>12, <1>13 DEF StoreSide

-----------------------------------------------------------------------------
(* Every action keeps both sides.                                           *)

\* A request reads the account.
LEMMA RequestsStep ==
  ASSUME AccountInv, NEW q \in AuthRequests, NEW p \in Processes,
         \/ Authenticate(q, p) \/ CheckOldPassword(q, p) \/ CheckResetRequests(q, p)
  PROVE  AccountInv' /\ LogoutStays
<1>1. account' = account /\ tokens' = tokens /\ UNCHANGED <<strict, stores>>
      /\ \E f \in {"issue", "store", "reset"} :
            authRequests' = [authRequests EXCEPT ![q] = [phase |-> f, process |-> p, row |-> account]]
  BY DEF Authenticate, CheckOldPassword, CheckResetRequests, Become, Read
<1>2. PICK f \in {"issue", "store", "reset"} :
        authRequests' = [authRequests EXCEPT ![q] = [phase |-> f, process |-> p, row |-> account]]
  BY <1>1, Zenon
<1> DEFINE r == [phase |-> f, process |-> p, row |-> account]
<1>3. r \in AuthRow /\ r.row = account /\ r.phase # "reload"
  BY AccountIsNow DEF AccountInv, AuthRow
<1>4. authRequests' = [authRequests EXCEPT ![q] = r]
  BY <1>2
<1> HIDE DEF r
<1>5. AccountSide'
  BY <1>1, <1>3, <1>4, RequestKeeps, AccountIsNow, Zenon DEF AccountInv
<1>6. StoreSide' /\ LogoutStays
  BY <1>1, StoresQuiet DEF AccountInv
<1> QED BY <1>5, <1>6 DEF AccountInv

(* A change of the account, by a request that ends with it or by none.     *)
LEMMA AccountRowChanges ==
  ASSUME AccountInv, account' \in AccountRow, Follows(account, account'),
         UNCHANGED <<tokens, strict, stores>>,
         \/ UNCHANGED authRequests
         \/ \E q \in AuthRequests : Become(q, NoAuthRequest)
  PROVE  AccountInv' /\ LogoutStays
<1>1. StoreSide' /\ LogoutStays
  BY StoresQuiet DEF AccountInv
<1>2. CASE \E q \in AuthRequests : Become(q, NoAuthRequest)
  <2>1. PICK q \in AuthRequests : authRequests' = [authRequests EXCEPT ![q] = NoAuthRequest]
    BY <1>2, Zenon DEF Become
  <2>2. AccountSide'
    BY <2>1, IdleIsARow, RequestKeeps, Zenon DEF AccountInv
  <2> QED BY <1>1, <2>2 DEF AccountInv
<1>3. CASE UNCHANGED authRequests
  <2>1. CASE AuthRequests = {}
    <3>1. \A t \in Issued : OfThePast(tokens[t], account')
      <4> TAKE t \in Issued
      <4>1. tokens[t] \in TokenRow /\ OfThePast(tokens[t], account)
        BY ElementOfSeq DEF AccountInv, AccountSide, Issued
      <4>2. tokens[t].version \in Nat
        BY <4>1 DEF TokenRow
      <4>3. account \in AccountRow
        BY DEF AccountInv, AccountSide
      <4> QED BY <4>1, <4>2, <4>3, PastStaysPast
    <3> QED BY <2>1, <3>1, <1>1, <1>3 DEF AccountInv, AccountSide, Issued
  <2>2. CASE AuthRequests # {}
    <3>1. PICK q \in AuthRequests : TRUE
      BY <2>2
    <3>2. AccountSide'
      BY <1>3, <3>1, IdleIsARow, RequestKeeps DEF AccountInv
    <3> QED BY <1>1, <3>2 DEF AccountInv
  <2> QED BY <2>1, <2>2
<1> QED BY <1>2, <1>3

\* A session is issued from the row that was read.
LEMMA IssueStep ==
  ASSUME AccountInv, NEW q \in AuthRequests, IssueTokens(q)
  PROVE  AccountInv' /\ LogoutStays
<1> DEFINE r == authRequests[q]
           row == [version |-> r.row.version, password |-> r.row.password, suspensions |-> r.row.suspensions]
<1>1. /\ r.phase = "issue" /\ Len(tokens) < MaxTokens /\ tokens' = Append(tokens, row)
      /\ Remember(Len(tokens) + 1, r.process) /\ account' = account
      /\ authRequests' = [authRequests EXCEPT ![q] = NoAuthRequest]
      /\ UNCHANGED <<strict, consumed, revoked>>
  BY DEF IssueTokens, Become
<1>2. r \in AuthRow /\ tokens \in Seq(TokenRow) /\ account \in AccountRow
  BY DEF AccountInv, AccountSide
<1>3. r.row \in AccountRow /\ r.process \in Processes /\ OfThePast(r.row, account)
  <2>1. r.row \in AccountRow /\ r.process \in Processes
    BY <1>1, <1>2 DEF AuthRow
  <2> QED BY <2>1, <1>1 DEF AccountInv, AccountSide
<1>4. row \in TokenRow /\ OfThePast(row, account)
  BY <1>3 DEF TokenRow, AccountRow, OfThePast
<1> HIDE DEF row, r
<1>5. StoreSide' /\ LogoutStays
  <2>1. PICK x \in TokenRow : x = row
    BY <1>4
  <2>2. PICK p \in Processes : p = r.process
    BY <1>3
  <2> QED BY <1>1, <1>2, <2>1, <2>2, SessionKept DEF AccountInv
<1>6. /\ tokens' \in Seq(TokenRow) /\ Len(tokens') = Len(tokens) + 1 /\ Len(tokens) \in Nat
      /\ \A t \in Issued : tokens'[t] = tokens[t]
      /\ tokens'[Len(tokens) + 1] = row
  BY <1>1, <1>2, <1>4, AppendProperties, LenProperties DEF Issued
<1>7. \A t \in Issued' : OfThePast(tokens'[t], account)
  <2>1. \A t \in Issued' : t \in Issued \/ t = Len(tokens) + 1
    BY <1>6 DEF Issued
  <2>2. \A t \in Issued : OfThePast(tokens[t], account)
    BY DEF AccountInv, AccountSide
  <2> QED BY <2>1, <2>2, <1>4, <1>6
<1>8. authRequests' \in [AuthRequests -> AuthRow]
  BY <1>1, IdleIsARow DEF AccountInv, AccountSide
<1>9. \A x \in AuthRequests : authRequests'[x] \in {authRequests[x], NoAuthRequest}
  BY <1>1 DEF AccountInv, AccountSide
<1>10. \A x \in AuthRequests :
         /\ authRequests'[x].phase = "issue" => OfThePast(authRequests'[x].row, account)
         /\ authRequests'[x].phase = "reload" => authRequests'[x].token \in Issued
  BY <1>9, IdleIsARow DEF AccountInv, AccountSide
<1>11. Issued \subseteq Issued' /\ Len(tokens') <= MaxTokens
  BY <1>1, <1>6, AccountAssumption DEF Issued
<1> QED BY <1>1, <1>2, <1>5, <1>6, <1>7, <1>8, <1>10, <1>11, Zenon DEF AccountInv, AccountSide

\* A session is consumed, and the account is to be read again.
LEMMA RefreshStep ==
  ASSUME AccountInv, NEW q \in AuthRequests, NEW t \in DOMAIN tokens, NEW p \in Processes, RefreshTokens(q, t, p)
  PROVE  AccountInv' /\ LogoutStays
<1>1. PICK found \in BOOLEAN :
        /\ ConsumeSession(t, p, found)
        /\ Become(q, IF found THEN [phase |-> "reload", process |-> p, token |-> t] ELSE NoAuthRequest)
  BY DEF RefreshTokens
<1>2. tokens \in Seq(TokenRow) /\ t \in Issued /\ t \in 1..MaxTokens /\ UNCHANGED <<account, tokens, strict>>
  BY LenProperties, AccountAssumption DEF AccountInv, AccountSide, Issued, RefreshTokens
<1> DEFINE r == IF found THEN [phase |-> "reload", process |-> p, token |-> t] ELSE NoAuthRequest
<1>3. /\ r \in AuthRow /\ r.phase # "issue" /\ (r.phase = "reload" => r.token \in Issued)
      /\ authRequests' = [authRequests EXCEPT ![q] = r]
  BY <1>1, <1>2, IdleIsARow DEF AuthRow, Become
<1> HIDE DEF r
<1>4. AccountSide'
  BY <1>2, <1>3, RequestKeeps, AccountIsNow, Zenon DEF AccountInv
<1>5. StoreSide' /\ LogoutStays
  <2> DEFINE gone == IF strict THEN {} ELSE {t}
             n == IF found THEN 1 ELSE 0
  <2>1. /\ localSessions' = [localSessions EXCEPT ![p] = @ \ gone]
        /\ consumed' = [consumed EXCEPT ![t] = @ + n] /\ UNCHANGED <<revoked, unsure>>
        /\ redisSessions' \in {redisSessions, redisSessions \ {t}}
        /\ redisFaults' \in 0..MaxRedisFaults
    <3>1. /\ localSessions' = [localSessions EXCEPT ![p] = @ \ gone]
          /\ consumed' = [consumed EXCEPT ![t] = @ + n] /\ UNCHANGED <<revoked, unsure>>
      BY <1>1 DEF ConsumeSession
    <3> HIDE DEF gone, n
    <3>2. redisSessions' \in {redisSessions, redisSessions \ {t}}
      BY <1>1 DEF ConsumeSession
    <3>3. redisFaults \in 0..MaxRedisFaults
      BY DEF AccountInv, StoreSide, StoreRows
    <3>4. redisFaults' = redisFaults \/ RedisFails
      BY <1>1 DEF ConsumeSession
    <3>5. redisFaults' \in 0..MaxRedisFaults
      BY <3>3, <3>4, AccountAssumption DEF RedisFails
    <3> QED BY <3>1, <3>2, <3>5
  <2>2. n = 1 => /\ strict => t \in redisSessions
                 /\ t \in redisSessions \/ t \in localSessions[p]
                 /\ t \in redisSessions => redisSessions' = redisSessions \ {t} \/ t \in localSessions[p]
                 /\ ~strict => gone = {t}
    <3> SUFFICES ASSUME found
                 PROVE  /\ strict => t \in redisSessions
                        /\ t \in redisSessions \/ t \in localSessions[p]
                        /\ t \in redisSessions => redisSessions' = redisSessions \ {t} \/ t \in localSessions[p]
      OBVIOUS
    <3>1. \/ /\ t \in redisSessions \/ (~strict /\ t \in localSessions[p])
             /\ redisSessions' = redisSessions \ {t}
          \/ ~strict /\ t \in localSessions[p]
      BY <1>1, Zenon DEF ConsumeSession
    <3> QED BY <3>1
  <2>3. gone \in SUBSET {t} /\ n \in {0, 1} /\ revoked' \subseteq Issued /\ revoked' = revoked
    BY <2>1 DEF AccountInv, StoreSide, StoreRows
  <2> HIDE DEF gone, n
  <2>4. PICK g \in SUBSET {t} : g = gone
    BY <2>3
  <2>5. PICK k \in {0, 1} : k = n
    BY <2>3
  <2>6. Len(tokens) <= MaxTokens /\ StoreSide
    BY DEF AccountInv, AccountSide
  <2> QED BY <2>1, <2>2, <2>3, <2>4, <2>5, <2>6, <1>2, SessionsGo, Zenon
<1> QED BY <1>4, <1>5 DEF AccountInv

\* A session is revoked.
LEMMA LogoutStep ==
  ASSUME AccountInv, NEW t \in DOMAIN tokens, NEW p \in Processes, Logout(t, p)
  PROVE  AccountInv' /\ LogoutStays
<1>1. tokens \in Seq(TokenRow) /\ Len(tokens) <= MaxTokens /\ t \in Issued /\ t \in 1..MaxTokens
  BY LenProperties, AccountAssumption DEF AccountInv, AccountSide, Issued
<1>2. AccountSide'
  BY DEF Logout, AccountInv, AccountSide, Issued
<1>3. StoreSide' /\ LogoutStays
  <2>1. /\ localSessions' = [localSessions EXCEPT ![p] = @ \ {t}]
        /\ UNCHANGED <<tokens, strict, unsure, consumed>>
        /\ redisSessions' \in {redisSessions, redisSessions \ {t}}
        /\ redisFaults' \in 0..MaxRedisFaults
        /\ revoked' # revoked => revoked' = revoked \cup {t} /\ redisSessions' = redisSessions \ {t}
        /\ revoked' \subseteq Issued
    <3>1. redisFaults \in 0..MaxRedisFaults /\ revoked \subseteq Issued
      BY DEF AccountInv, StoreSide, StoreRows
    <3>2. redisFaults' = redisFaults \/ RedisFails
      BY DEF Logout
    <3>3. redisFaults' \in 0..MaxRedisFaults
      BY <3>1, <3>2, AccountAssumption DEF RedisFails
    <3>4. revoked' \in {revoked, revoked \cup {t}}
      BY DEF Logout
    <3> QED BY <1>1, <3>1, <3>3, <3>4 DEF Logout
  <2>2. consumed' = [consumed EXCEPT ![t] = @ + 0]
    <3>1. consumed \in [1..MaxTokens -> Nat] /\ consumed[t] + 0 = consumed[t]
      BY <1>1 DEF AccountInv, StoreSide, StoreRows
    <3> QED BY <2>1, <3>1
  <2>3. PICK g \in SUBSET {t} : g = {t}
    BY Zenon
  <2>4. PICK k \in {0, 1} : k = 0
    OBVIOUS
  <2>5. StoreSide /\ tokens \in Seq(TokenRow)
    BY DEF AccountInv, AccountSide
  <2>6. /\ UNCHANGED <<tokens, strict, unsure>> /\ k # 1
        /\ localSessions' = [localSessions EXCEPT ![p] = @ \ g]
        /\ consumed' = [consumed EXCEPT ![t] = @ + k]
    <3>1. UNCHANGED <<tokens, strict, unsure>>
      BY <2>1
    <3>2. k = 0 /\ g = {t}
      BY <2>3, <2>4
    <3>3. localSessions' = [localSessions EXCEPT ![p] = @ \ g]
      BY <2>1, <3>2, Zenon
    <3>4. consumed' = [consumed EXCEPT ![t] = @ + k]
      BY <2>2, <3>2, Zenon
    <3> QED BY <3>1, <3>2, <3>3, <3>4
  <2> QED BY <2>1, <2>3, <2>4, <2>5, <2>6, <1>1, SessionsGo, Zenon
<1> QED BY <1>2, <1>3 DEF AccountInv

\* The account that was read again decides on the next session.
LEMMA ReloadStep ==
  ASSUME AccountInv, NEW q \in AuthRequests, ReloadAccount(q)
  PROVE  AccountInv' /\ LogoutStays
<1> DEFINE r == authRequests[q]
           next == IF Accepted(r.token) THEN Read("issue", r.process) ELSE NoAuthRequest
<1>1. r.phase = "reload" /\ authRequests' = [authRequests EXCEPT ![q] = next]
      /\ UNCHANGED <<account, tokens, strict, stores>>
  BY DEF ReloadAccount, Become
<1>2. r.process \in Processes /\ account \in AccountRow /\ OfThePast(account, account) /\ Follows(account, account)
  <2>1. r \in AuthRow
    BY DEF AccountInv, AccountSide
  <2> QED BY <1>1, <2>1, AccountIsNow DEF AuthRow, AccountInv
<1>3. next \in AuthRow /\ (next.phase = "issue" => OfThePast(next.row, account)) /\ next.phase # "reload"
  BY <1>2, IdleIsARow DEF Read, AuthRow
<1> HIDE DEF next
<1>4. AccountSide'
  <2>1. PICK x \in AuthRow : x = next
    BY <1>3
  <2> QED BY <1>1, <1>2, <1>3, <2>1, RequestKeeps, Zenon DEF AccountInv
<1>5. StoreSide' /\ LogoutStays
  BY <1>1, StoresQuiet DEF AccountInv
<1> QED BY <1>4, <1>5 DEF AccountInv

\* Every step of the accounts.
LEMMA AccountStep ==
  ASSUME AccountInv, [AccountNext]_accountVars
  PROVE  AccountInv' /\ LogoutStays
<1>1. CASE \/ UNCHANGED accountVars
           \/ \E q \in AuthRequests : DropAuthRequest(q) \/ CreatePasswordResetRequest(q)
  <2>1. account' = account /\ UNCHANGED <<tokens, strict, stores>>
    BY <1>1 DEF accountVars, stores, DropAuthRequest, CreatePasswordResetRequest
  <2>2. UNCHANGED authRequests \/ \E q \in AuthRequests : Become(q, NoAuthRequest)
    BY <1>1 DEF accountVars, DropAuthRequest, CreatePasswordResetRequest
  <2> QED BY <2>1, <2>2, AccountIsNow, AccountRowChanges DEF AccountInv
<1>2. CASE \E q \in AuthRequests : StorePassword(q)
  <2>1. account' = WithNewPassword(account) /\ UNCHANGED <<tokens, strict, stores>>
        /\ \E q \in AuthRequests : Become(q, NoAuthRequest)
    BY <1>2 DEF StorePassword
  <2> QED BY <2>1, NewPasswordFollows, AccountRowChanges DEF AccountInv
<1>3. CASE UpdateUser
  <2>1. account' = WithNewPassword(account) /\ UNCHANGED <<tokens, strict, stores, authRequests>>
    BY <1>3 DEF UpdateUser
  <2> QED BY <2>1, NewPasswordFollows, AccountRowChanges DEF AccountInv
<1>4. CASE \E i \in DOMAIN resets, approve \in BOOLEAN : ReviewPasswordReset(i, approve)
  <2>1. account' \in {account, WithNewPassword(account)} /\ UNCHANGED <<tokens, strict, stores, authRequests>>
    BY <1>4 DEF ReviewPasswordReset
  <2>2. CASE account' = account
    BY <2>1, <2>2, AccountIsNow, AccountRowChanges DEF AccountInv
  <2>3. CASE account' = WithNewPassword(account)
    BY <2>1, <2>3, NewPasswordFollows, AccountRowChanges DEF AccountInv
  <2> QED BY <2>1, <2>2, <2>3
<1>5. CASE \E status \in {"active", "suspended"} : UpdateUserStatus(status)
  <2>1. PICK status \in {"active", "suspended"} : UpdateUserStatus(status)
    BY <1>5
  <2>2. UNCHANGED <<tokens, strict, stores, authRequests>>
    BY <2>1 DEF UpdateUserStatus
  <2>3. AccountSide
    BY DEF AccountInv
  <2>4. account' \in AccountRow /\ Follows(account, account')
    BY <2>1, <2>3, NewStatusFollows
  <2> QED BY <2>2, <2>4, AccountRowChanges
<1>6. CASE DeleteUser
  <2>1. UNCHANGED <<tokens, strict, stores, authRequests>>
    BY <1>6 DEF DeleteUser
  <2> QED BY <1>6, <2>1, DeletedFollows, AccountRowChanges DEF AccountInv
<1> QED BY <1>1, <1>2, <1>3, <1>4, <1>5, <1>6, RequestsStep, IssueStep, ReloadStep, RefreshStep, LogoutStep
        DEF AccountNext

\* No session, no request.
LEMMA AccountBegins == AccountInit => AccountInv
<1> SUFFICES ASSUME AccountInit PROVE AccountInv
  OBVIOUS
<1> USE AccountAssumption
<1>1. /\ tokens = <<>> /\ Len(tokens) = 0 /\ tokens \in Seq(TokenRow) /\ Issued = {}
      /\ account = [status |-> "active", password |-> 1, version |-> 1, suspensions |-> 0]
      /\ authRequests = [q \in AuthRequests |-> NoAuthRequest]
      /\ redisSessions = {} /\ localSessions = [p \in Processes |-> {}] /\ strict \in BOOLEAN
      /\ consumed = [t \in 1..MaxTokens |-> 0] /\ revoked = {} /\ unsure = {} /\ redisFaults = 0
  BY EmptySeq DEF AccountInit, Issued
<1>2. AccountSide
  BY <1>1, IdleIsARow DEF AccountSide, AccountRow
<1>3. StoreRows
  BY <1>1 DEF StoreRows
<1>4. \A p \in Processes : Cardinality(localSessions[p]) <= LocalCapacity
  BY <1>1, FS_EmptySet
<1>5. \A t \in 1..MaxTokens : CopiesOf(t)
  BY <1>1 DEF CopiesOf, HeldLocally
<1> QED BY <1>1, <1>2, <1>3, <1>4, <1>5 DEF AccountInv, StoreSide

\* What the invariant says of the sessions.
LEMMA AccountsAgree == AccountInv => AccountTypeOK /\ AccountsHold
<1> SUFFICES ASSUME AccountInv PROVE AccountTypeOK /\ AccountsHold
  OBVIOUS
<1>1. DOMAIN tokens = Issued
  BY LenProperties DEF AccountInv, AccountSide, Issued
<1>2. AccountTypeOK
  BY <1>1 DEF AccountTypeOK, AccountInv, AccountSide, AccountRow, StoreSide, StoreRows
<1>3. SessionsFollowTheAccount
  BY <1>1 DEF SessionsFollowTheAccount, Accepted, AccountInv, AccountSide, OfThePast
<1>4. OneTimeRotation
  <2>1. \A t \in 1..MaxTokens : consumed[t] <= IF t \in unsure /\ ~strict THEN 2 ELSE 1
    BY DEF AccountInv, StoreSide, CopiesOf
  <2> QED BY <2>1 DEF OneTimeRotation
<1> QED BY <1>2, <1>3, <1>4 DEF AccountsHold

\* Sessions follow the account and rotate once; the stores keep what fits, of tokens that
\* were issued (tokensForUser, Consume, Remember).
THEOREM AccountsStay == AccountSpec => [](AccountTypeOK /\ AccountsHold)
<1>1. AccountInv /\ [AccountNext]_accountVars => AccountInv'
  BY AccountStep
<1> QED BY <1>1, AccountBegins, AccountsAgree, PTL DEF AccountSpec

\* After a logout that was answered, no process consumes the session (RevokeRefreshToken).
THEOREM LogoutsAreFinal == AccountSpec => LogoutIsFinal
<1>1. AccountInv /\ [AccountNext]_accountVars => AccountInv' /\ [LogoutStays]_accountVars
  BY AccountStep
<1>2. AccountSpec => [][LogoutStays]_accountVars
  BY <1>1, AccountBegins, PTL DEF AccountSpec
<1> QED BY <1>2 DEF LogoutIsFinal, LogoutStays

-----------------------------------------------------------------------------
(* What stands before a password (LoginGates).                             *)

Stores == [redis : SUBSET Puzzles, local : SUBSET Puzzles]

\* Who holds what is left of a puzzle: its challenge or its proof, in Redis and in the process.
InRedis(i) == i \in challengeStore.redis \cup proofStore.redis
InProcess(i) == i \in challengeStore.local \cup proofStore.local
GateRows ==
  /\ challengeStore \in Stores /\ proofStore \in Stores
  /\ puzzles \in [Puzzles -> {"new", "issued", "lost"}] /\ strictGates \in BOOLEAN
  /\ entries \in [Puzzles -> Nat] /\ doubled \subseteq Puzzles
  /\ IsFiniteSet(challengeStore.local) /\ IsFiniteSet(proofStore.local)
  /\ LocalSize <= MaxLocalSize
  /\ strictGates => challengeStore.local = {} /\ proofStore.local = {}

\* A puzzle that was not issued is nowhere; one that was is good for one login, and what is in
\* a store is a login to come. Nothing but a doubled challenge is in both stores.
PuzzlesFit ==
  /\ challengeStore.redis \cap proofStore.redis = {}
  /\ challengeStore.local \cap proofStore.local = {}
  /\ \A i \in Puzzles :
       /\ puzzles[i] = "new" => ~InRedis(i) /\ ~InProcess(i) /\ entries[i] = 0 /\ i \notin doubled
       /\ i \notin doubled => /\ ~(InRedis(i) /\ InProcess(i))
                              /\ entries[i] <= IF InRedis(i) \/ InProcess(i) THEN 0 ELSE 1
       /\ i \in doubled => entries[i] <= IF InRedis(i) /\ InProcess(i) THEN 0
                                         ELSE IF InRedis(i) \/ InProcess(i) THEN 1 ELSE 2

\* Redis counted every wrong password but those of its outages; the lock is missing at most for
\* an outage; and past the lock only those compare who had passed it.
Compared == {q \in LoginRequests : logins[q] = "compared"}
GuessesFit ==
  /\ logins \in [LoginRequests -> {"idle", "proved", "compared"}]
  /\ failures \in [redis : Nat, local : Nat] /\ lock \in BOOLEAN
  /\ guesses \in Nat /\ outages \in Nat
  /\ guesses <= failures.redis + outages
  /\ ~lock => guesses <= MaxLoginFailures - 1 + outages
  /\ guesses + Cardinality(Compared) <= MaxLoginFailures - 1 + Cardinality(LoginRequests) + outages

GateInv == GateRows /\ PuzzlesFit /\ GuessesFit

-----------------------------------------------------------------------------
(* The lock.                                                                *)

\* A request that stops comparing, or begins to.
LEMMA ComparedCounts ==
  ASSUME logins \in [LoginRequests -> {"idle", "proved", "compared"}], NEW q \in LoginRequests,
         NEW phase \in {"idle", "proved", "compared"}, logins' = [logins EXCEPT ![q] = phase]
  PROVE  /\ logins' \in [LoginRequests -> {"idle", "proved", "compared"}]
         /\ IsFiniteSet(Compared) /\ Cardinality(Compared) \in Nat /\ Cardinality(Compared') \in Nat
         /\ Cardinality(LoginRequests) \in Nat
         /\ Cardinality(Compared') <= Cardinality(LoginRequests)
         /\ Cardinality(Compared) <= Cardinality(LoginRequests)
         /\ logins[q] = "compared" /\ phase # "compared" => Cardinality(Compared) = Cardinality(Compared') + 1
         /\ logins[q] # "compared" /\ phase = "compared" => Cardinality(Compared') = Cardinality(Compared) + 1
         /\ logins[q] # "compared" /\ phase # "compared" => Cardinality(Compared') = Cardinality(Compared)
<1>1. IsFiniteSet(LoginRequests) /\ Compared \subseteq LoginRequests /\ Compared' \subseteq LoginRequests
  BY GateAssumption DEF Compared
<1>2. /\ IsFiniteSet(Compared) /\ IsFiniteSet(Compared')
      /\ Cardinality(Compared) <= Cardinality(LoginRequests)
      /\ Cardinality(Compared') <= Cardinality(LoginRequests)
  BY <1>1, FS_Subset
<1>3. Cardinality(Compared) \in Nat /\ Cardinality(Compared') \in Nat /\ Cardinality(LoginRequests) \in Nat
  BY <1>1, <1>2, FS_CardinalityType
<1>4. logins' \in [LoginRequests -> {"idle", "proved", "compared"}] /\ logins'[q] = phase
      /\ \A r \in LoginRequests \ {q} : logins'[r] = logins[r]
  OBVIOUS
<1>5. ASSUME logins[q] = "compared", phase # "compared"
      PROVE  Cardinality(Compared) = Cardinality(Compared') + 1
  <2>1. Compared = Compared' \cup {q} /\ q \notin Compared'
    BY <1>4, <1>5 DEF Compared
  <2> QED BY <1>2, <2>1, FS_AddElement
<1>6. ASSUME logins[q] # "compared", phase = "compared"
      PROVE  Cardinality(Compared') = Cardinality(Compared) + 1
  <2>1. Compared' = Compared \cup {q} /\ q \notin Compared
    BY <1>4, <1>6 DEF Compared
  <2> QED BY <1>2, <2>1, FS_AddElement
<1>7. ASSUME logins[q] # "compared", phase # "compared"
      PROVE  Cardinality(Compared') = Cardinality(Compared)
  <2>1. Compared' = Compared
    BY <1>4, <1>7 DEF Compared
  <2> QED BY <2>1
<1> QED BY <1>2, <1>3, <1>4, <1>5, <1>6, <1>7

\* A request asks for the lock, counts a wrong password or clears the count.
LEMMA LimiterHolds ==
  ASSUME GateInv, NEW q \in LoginRequests, IsLocked(q) \/ RecordFailure(q) \/ ClearFailures(q)
  PROVE  GuessesFit'
<1>0. GuessesFit /\ MaxLoginFailures \in Nat \ {0} /\ guesses \in Nat /\ outages \in Nat
      /\ failures.redis \in Nat /\ failures.local \in Nat /\ failures \in [redis : Nat, local : Nat]
      /\ logins \in [LoginRequests -> {"idle", "proved", "compared"}]
  BY GateAssumption DEF GateInv, GuessesFit
<1>1. CASE IsLocked(q)
  <2>1. UNCHANGED <<failures, lock, guesses>> /\ logins[q] = "proved"
    BY <1>1 DEF IsLocked
  <2>2. CASE Locked /\ logins' = [logins EXCEPT ![q] = "idle"]
    <3>1. outages' \in {outages, outages + 1}
      BY <2>2 DEF Locked, Up, Outage
    <3>2. /\ logins' \in [LoginRequests -> {"idle", "proved", "compared"}]
          /\ Cardinality(Compared') = Cardinality(Compared)
          /\ Cardinality(Compared) \in Nat /\ Cardinality(LoginRequests) \in Nat
      BY <1>0, <2>1, <2>2, ComparedCounts, Zenon
    <3>3. outages' \in Nat /\ outages' >= outages
      BY <1>0, <3>1
    <3>4. guesses + Cardinality(Compared) <= MaxLoginFailures - 1 + Cardinality(LoginRequests) + outages
      BY <1>0 DEF GuessesFit
    <3>5. /\ guesses' <= failures'.redis + outages'
          /\ guesses' + Cardinality(Compared') <= MaxLoginFailures - 1 + Cardinality(LoginRequests) + outages'
      <4>1. guesses <= failures.redis + outages
        BY <1>0 DEF GuessesFit
      <4> QED BY <1>0, <2>1, <3>2, <3>3, <3>4, <4>1
    <3>6. ASSUME ~lock' PROVE guesses' <= MaxLoginFailures - 1 + outages'
      <4>1. ~lock
        BY <2>1, <3>6
      <4>2. guesses <= MaxLoginFailures - 1 + outages
        BY <1>0, <4>1 DEF GuessesFit
      <4>3. guesses' = guesses /\ MaxLoginFailures \in Nat /\ guesses \in Nat /\ outages \in Nat
        BY <1>0, <2>1
      <4>4. PICK later \in Nat : later = outages'
        BY <3>3
      <4>5. later >= outages
        BY <3>3, <4>4
      <4>6. guesses <= MaxLoginFailures - 1 + later
        BY <4>2, <4>3, <4>5
      <4> QED BY <4>3, <4>4, <4>6, Zenon
    <3>7. failures' \in [redis : Nat, local : Nat] /\ lock' \in BOOLEAN /\ guesses' \in Nat
      BY <1>0, <2>1 DEF GuessesFit
    <3> QED BY <3>2, <3>3, <3>5, <3>6, <3>7 DEF GuessesFit
  <2>3. CASE NotLocked /\ logins' = [logins EXCEPT ![q] = "compared"]
    <3>2. /\ logins' \in [LoginRequests -> {"idle", "proved", "compared"}]
          /\ Cardinality(Compared') = Cardinality(Compared) + 1
          /\ Cardinality(Compared') <= Cardinality(LoginRequests)
          /\ Cardinality(Compared) \in Nat /\ Cardinality(LoginRequests) \in Nat
      BY <1>0, <2>1, <2>3, ComparedCounts, Zenon
    <3>3. guesses' + Cardinality(Compared') <= MaxLoginFailures - 1 + Cardinality(LoginRequests) + outages'
      <4>1. CASE Up /\ ~lock
        BY <1>0, <2>1, <3>2, <4>1 DEF GuessesFit, Up
      <4>2. CASE Outage
        BY <1>0, <2>1, <3>2, <4>2 DEF GuessesFit, Outage
      <4> QED BY <2>3, <4>1, <4>2 DEF NotLocked
    <3>4. outages' \in Nat /\ outages' >= outages
      BY <1>0, <2>3 DEF NotLocked, Up, Outage
    <3>5. guesses' <= failures'.redis + outages'
      <4>1. guesses <= failures.redis + outages
        BY <1>0 DEF GuessesFit
      <4> QED BY <1>0, <2>1, <3>4, <4>1
    <3>6. ASSUME ~lock' PROVE guesses' <= MaxLoginFailures - 1 + outages'
      <4>1. ~lock
        BY <2>1, <3>6
      <4>2. guesses <= MaxLoginFailures - 1 + outages
        BY <1>0, <4>1 DEF GuessesFit
      <4>3. guesses' = guesses /\ MaxLoginFailures \in Nat /\ guesses \in Nat /\ outages \in Nat
        BY <1>0, <2>1
      <4>4. PICK later \in Nat : later = outages'
        BY <3>4
      <4>5. later >= outages
        BY <3>4, <4>4
      <4>6. guesses <= MaxLoginFailures - 1 + later
        BY <4>2, <4>3, <4>5
      <4> QED BY <4>3, <4>4, <4>6, Zenon
    <3>7. failures' \in [redis : Nat, local : Nat] /\ lock' \in BOOLEAN /\ guesses' \in Nat
      BY <1>0, <2>1 DEF GuessesFit
    <3> QED BY <3>2, <3>3, <3>4, <3>5, <3>6, <3>7 DEF GuessesFit
  <2> QED BY <1>1, <2>2, <2>3 DEF IsLocked
<1>2. CASE RecordFailure(q)
  <2>1. logins[q] = "compared" /\ guesses' = guesses + 1 /\ logins' = [logins EXCEPT ![q] = "idle"]
    BY <1>2 DEF RecordFailure
  <2>2. /\ logins' \in [LoginRequests -> {"idle", "proved", "compared"}]
        /\ Cardinality(Compared) = Cardinality(Compared') + 1 /\ Cardinality(Compared') \in Nat
        /\ Cardinality(LoginRequests) \in Nat
    BY <1>0, <2>1, ComparedCounts, Zenon
  <2>3. outages' \in Nat /\ outages' >= outages
    <3>1. Up \/ Outage
      BY <1>2, Zenon DEF RecordFailure
    <3> QED BY <1>0, <3>1 DEF Up, Outage
  <2>4. guesses' + Cardinality(Compared') <= MaxLoginFailures - 1 + Cardinality(LoginRequests) + outages'
    BY <1>0, <2>1, <2>2, <2>3 DEF GuessesFit
  <2>5. /\ failures' \in [redis : Nat, local : Nat] /\ lock' \in BOOLEAN
        /\ guesses' <= failures'.redis + outages'
        /\ ~lock' => guesses' <= MaxLoginFailures - 1 + outages'
    <3> DEFINE count == failures.redis + 1
    <3>0. count \in Nat /\ lock \in BOOLEAN /\ guesses <= failures.redis + outages
          /\ (~lock => guesses <= MaxLoginFailures - 1 + outages)
      BY <1>0 DEF GuessesFit
    <3>1. CASE /\ Up /\ failures' = [failures EXCEPT !.redis = count]
               /\ lock' = (lock \/ count >= MaxLoginFailures)
      <4>0. lock' \in BOOLEAN /\ (~lock' => ~(count >= MaxLoginFailures))
        BY <3>1, Zenon
      <4>1. failures' \in [redis : Nat, local : Nat] /\ failures'.redis = failures.redis + 1 /\ lock' \in BOOLEAN
            /\ outages' = outages
        BY <1>0, <3>0, <3>1 DEF Up
      <4>2. guesses' <= failures'.redis + outages'
        BY <1>0, <2>1, <3>0, <4>1
      <4>3. ASSUME ~lock' PROVE guesses' <= MaxLoginFailures - 1 + outages'
        <5>1. failures.redis + 1 < MaxLoginFailures
          BY <1>0, <4>0, <4>3
        <5> QED BY <1>0, <2>1, <4>1, <4>2, <5>1
      <4> QED BY <4>1, <4>2, <4>3
    <3>2. CASE /\ Outage /\ failures' = [failures EXCEPT !.redis = count] /\ lock' \in {lock, TRUE}
      <4>1. failures' \in [redis : Nat, local : Nat] /\ failures'.redis = failures.redis + 1
            /\ outages' = outages + 1
        BY <1>0, <3>0, <3>2 DEF Outage
      <4>2. guesses' <= failures'.redis + outages'
        BY <1>0, <2>1, <3>0, <4>1
      <4>3. ASSUME ~lock PROVE guesses' <= MaxLoginFailures - 1 + outages'
        BY <1>0, <2>1, <3>0, <4>1, <4>3
      <4>4. lock' \in BOOLEAN /\ (~lock' => ~lock)
        <5>1. CASE lock' = lock
          BY <3>0, <5>1
        <5>2. CASE lock' = TRUE
          BY <5>2
        <5> QED BY <3>2, <5>1, <5>2, Zenon
      <4>5. ~lock' => guesses' <= MaxLoginFailures - 1 + outages'
        BY <4>3, <4>4
      <4> QED BY <4>1, <4>2, <4>4, <4>5
    <3>3. CASE /\ Outage /\ lock' = lock
               /\ failures' \in {[failures EXCEPT !.local = @ + 1], [redis |-> count, local |-> failures.local + 1]}
      <4>1. failures' \in [redis : Nat, local : Nat] /\ outages' = outages + 1
            /\ failures'.redis \in {failures.redis, failures.redis + 1}
        BY <1>0, <3>0, <3>3 DEF Outage
      <4>2. guesses' <= failures'.redis + outages'
        BY <1>0, <2>1, <3>0, <4>1
      <4>3. ASSUME ~lock PROVE guesses' <= MaxLoginFailures - 1 + outages'
        BY <1>0, <2>1, <3>0, <4>1, <4>3
      <4> QED BY <3>0, <3>3, <4>1, <4>2, <4>3
    <3> QED BY <1>2, <3>1, <3>2, <3>3, Zenon DEF RecordFailure
  <2>6. guesses' \in Nat
    BY <1>0, <2>1
  <2> QED BY <2>2, <2>3, <2>4, <2>5, <2>6 DEF GuessesFit
<1>3. CASE ClearFailures(q)
  <2>1. logins[q] = "compared" /\ guesses' = 0 /\ logins' = [logins EXCEPT ![q] = "idle"]
    BY <1>3 DEF ClearFailures
  <2>2. /\ logins' \in [LoginRequests -> {"idle", "proved", "compared"}]
        /\ Cardinality(Compared') <= Cardinality(LoginRequests) /\ Cardinality(Compared') \in Nat
        /\ Cardinality(LoginRequests) \in Nat
    BY <1>0, <2>1, ComparedCounts, Zenon
  <2>3. outages' \in Nat
    <3>1. Up \/ Outage
      BY <1>3 DEF ClearFailures
    <3> QED BY <1>0, <3>1 DEF Up, Outage
  <2>4. failures' \in [redis : Nat, local : Nat] /\ lock' \in BOOLEAN
    <3>1. lock \in BOOLEAN
      BY <1>0 DEF GuessesFit
    <3>2. lock' \in BOOLEAN
      <4>1. lock' = FALSE \/ lock' = lock
        BY <1>3 DEF ClearFailures
      <4> QED BY <3>1, <4>1, Zenon
    <3>3. failures' \in [redis : Nat, local : Nat]
      <4>1. failures' = [redis |-> 0, local |-> 0] \/ failures' = [failures EXCEPT !.local = 0]
        BY <1>3 DEF ClearFailures
      <4> QED BY <1>0, <4>1
    <3> QED BY <3>2, <3>3
  <2>5. failures'.redis \in Nat
    BY <2>4
  <2>6. /\ guesses' \in Nat /\ guesses' <= failures'.redis + outages'
        /\ guesses' <= MaxLoginFailures - 1 + outages'
        /\ guesses' + Cardinality(Compared') <= MaxLoginFailures - 1 + Cardinality(LoginRequests) + outages'
    <3>1. guesses' = 0 /\ MaxLoginFailures \in Nat \ {0}
      BY <1>0, <2>1
    <3>2. PICK later \in Nat, some \in Nat, all \in Nat :
             later = outages' /\ some = Cardinality(Compared') /\ all = Cardinality(LoginRequests)
      BY <2>2, <2>3
    <3>3. 0 <= MaxLoginFailures - 1 + later /\ 0 + some <= MaxLoginFailures - 1 + all + later
      <4>1. some <= all
        BY <2>2, <3>2
      <4>2. MaxLoginFailures \in Nat /\ MaxLoginFailures >= 1
        BY <3>1
      <4> QED BY <4>1, <4>2
    <3>4. guesses' \in Nat /\ guesses' <= failures'.redis + outages'
      BY <2>5, <3>1, <3>2
    <3> QED BY <3>1, <3>2, <3>3, <3>4, Zenon
  <2>7. ~lock' => guesses' <= MaxLoginFailures - 1 + outages'
    BY <2>6
  <2> QED BY <2>2, <2>3, <2>4, <2>6, <2>7 DEF GuessesFit
<1> QED BY <1>1, <1>2, <1>3

\* The counter or the lock that runs out forgets the wrong passwords; an attempt the process
\* forgets changes nothing that Redis counted.
LEMMA WindowHolds == ASSUME GateInv, WindowEnds PROVE GateInv'
<1>1. UNCHANGED <<captchaVars, strictGates>> /\ UNCHANGED <<logins, outages>>
  BY DEF WindowEnds
<1>2. GateRows' /\ PuzzlesFit'
  BY <1>1 DEF GateInv, GateRows, PuzzlesFit, captchaVars, LocalSize, InRedis, InProcess
<1>3. logins' = logins /\ outages' = outages /\ Compared' = Compared
  BY <1>1 DEF Compared
<1>4. MaxLoginFailures \in Nat \ {0} /\ IsFiniteSet(LoginRequests) /\ Compared \subseteq LoginRequests
  BY GateAssumption DEF Compared
<1>5. Cardinality(LoginRequests) \in Nat /\ Cardinality(Compared) \in Nat
      /\ Cardinality(Compared) <= Cardinality(LoginRequests)
  BY <1>4, FS_Subset, FS_CardinalityType
<1>6. outages \in Nat /\ logins \in [LoginRequests -> {"idle", "proved", "compared"}]
  BY DEF GateInv, GuessesFit
<1>7. GuessesFit'
  <2>1. outages' \in Nat /\ logins' \in [LoginRequests -> {"idle", "proved", "compared"}]
    BY <1>3, <1>6
  <2>2. failures \in [redis : Nat, local : Nat] /\ lock \in BOOLEAN
    BY DEF GateInv, GuessesFit
  <2>3. CASE guesses' = 0
    <3>1. failures' \in [redis : Nat, local : Nat]
      BY <2>2, SMTT(30) DEF WindowEnds
    <3>2. lock' \in BOOLEAN
      <4>1. lock' = FALSE \/ lock' = lock
        BY DEF WindowEnds
      <4> QED BY <2>2, <4>1, Zenon
    <3>3. failures'.redis \in Nat
      BY <3>1
    <3>4. /\ guesses' \in Nat /\ guesses' <= failures'.redis + outages'
          /\ guesses' <= MaxLoginFailures - 1 + outages'
          /\ guesses' + Cardinality(Compared') <= MaxLoginFailures - 1 + Cardinality(LoginRequests) + outages'
      BY <1>3, <1>4, <1>5, <1>6, <2>3, <3>3
    <3> QED BY <2>1, <3>1, <3>2, <3>4, Zenon DEF GuessesFit
  <2>4. CASE UNCHANGED <<lock, guesses>> /\ \E n \in 0..failures.local - 1 : failures' = [failures EXCEPT !.local = n]
    <3>1. failures' \in [redis : Nat, local : Nat] /\ failures'.redis = failures.redis
      BY <2>2, <2>4
    <3>2. lock' = lock /\ guesses' = guesses
      BY <2>4
    <3>3. /\ guesses \in Nat /\ guesses <= failures.redis + outages
          /\ (~lock => guesses <= MaxLoginFailures - 1 + outages)
          /\ guesses + Cardinality(Compared) <= MaxLoginFailures - 1 + Cardinality(LoginRequests) + outages
      BY DEF GateInv, GuessesFit
    <3>4. /\ guesses' \in Nat /\ guesses' <= failures'.redis + outages'
          /\ guesses' + Cardinality(Compared') <= MaxLoginFailures - 1 + Cardinality(LoginRequests) + outages'
      BY <1>3, <3>1, <3>2, <3>3
    <3>5. ~lock' => guesses' <= MaxLoginFailures - 1 + outages'
      BY <1>3, <3>2, <3>3, Zenon
    <3>6. lock' \in BOOLEAN
      BY <2>2, <3>2, Zenon
    <3> QED BY <2>1, <3>1, <3>4, <3>5, <3>6, Zenon DEF GuessesFit
  <2> QED BY <2>3, <2>4 DEF WindowEnds
<1> QED BY <1>2, <1>7 DEF GateInv

-----------------------------------------------------------------------------
(* The captcha.                                                             *)

\* A request of the captcha leaves the lock alone but for the outages.
LEMMA LimiterStays ==
  ASSUME GateInv, UNCHANGED <<failures, lock, guesses>>, Up \/ Outage,
         logins' \in [LoginRequests -> {"idle", "proved", "compared"}], Compared' = Compared
  PROVE  GuessesFit'
<1>1. failures' = failures /\ lock' = lock /\ guesses' = guesses
  OBVIOUS
<1>2. IsFiniteSet(LoginRequests) /\ Compared \subseteq LoginRequests /\ MaxLoginFailures \in Nat
  BY GateAssumption DEF Compared
<1>3. Cardinality(LoginRequests) \in Nat /\ Cardinality(Compared) \in Nat
  BY <1>2, FS_Subset, FS_CardinalityType
<1>4. outages \in Nat /\ guesses \in Nat /\ failures \in [redis : Nat, local : Nat]
  BY DEF GateInv, GuessesFit
<1>5. PICK later \in Nat : later = outages' /\ (later = outages \/ later = outages + 1)
  BY <1>4 DEF Up, Outage
<1>6. later >= outages
  BY <1>4, <1>5
<1>7. guesses <= failures.redis + later
  <2>1. guesses <= failures.redis + outages /\ failures.redis \in Nat
    BY <1>4 DEF GateInv, GuessesFit
  <2> QED BY <1>4, <1>6, <2>1
<1>8. ASSUME ~lock PROVE guesses <= MaxLoginFailures - 1 + later
  <2>1. guesses <= MaxLoginFailures - 1 + outages
    BY <1>8 DEF GateInv, GuessesFit
  <2> QED BY <1>2, <1>4, <1>6, <2>1
<1>9. guesses + Cardinality(Compared) <= MaxLoginFailures - 1 + Cardinality(LoginRequests) + later
  <2>1. guesses + Cardinality(Compared) <= MaxLoginFailures - 1 + Cardinality(LoginRequests) + outages
    BY DEF GateInv, GuessesFit
  <2> QED BY <1>2, <1>3, <1>4, <1>6, <2>1
<1>10. lock \in BOOLEAN
  BY DEF GateInv, GuessesFit
<1>11. ~lock' => guesses' <= MaxLoginFailures - 1 + outages'
  BY <1>1, <1>5, <1>8
<1> QED BY <1>1, <1>4, <1>5, <1>7, <1>9, <1>10, <1>11 DEF GuessesFit

\* A step of a puzzle, at most with an outage.
LEMMA LimiterRests ==
  ASSUME GateInv, UNCHANGED limiterVars, Up \/ Outage
  PROVE  GuessesFit'
<1>1. UNCHANGED <<failures, lock, guesses>> /\ logins' = logins /\ Compared' = Compared
  BY DEF limiterVars, Compared
<1> QED BY <1>1, LimiterStays DEF GateInv, GuessesFit

\* A set of the process that gains or loses one puzzle.
LEMMA LocalCounts ==
  ASSUME NEW S, NEW i, IsFiniteSet(S)
  PROVE  /\ IsFiniteSet(S \cup {i}) /\ IsFiniteSet(S \ {i})
         /\ Cardinality(S) \in Nat /\ Cardinality(S \cup {i}) \in Nat /\ Cardinality(S \ {i}) \in Nat
         /\ Cardinality(S \cup {i}) <= Cardinality(S) + 1 /\ Cardinality(S \ {i}) <= Cardinality(S)
<1>1. IsFiniteSet(S \cup {i}) /\ IsFiniteSet(S \ {i})
  BY FS_AddElement, FS_RemoveElement
<1>2. Cardinality(S) \in Nat /\ Cardinality(S \cup {i}) \in Nat /\ Cardinality(S \ {i}) \in Nat
  BY <1>1, FS_CardinalityType
<1>3. Cardinality(S \cup {i}) \in {Cardinality(S), Cardinality(S) + 1}
  BY FS_AddElement
<1>4. Cardinality(S \ {i}) <= Cardinality(S)
  BY FS_Subset
<1> QED BY <1>1, <1>2, <1>3, <1>4

\* A puzzle is issued.
LEMMA ChallengeHolds ==
  ASSUME GateInv, NEW i \in Puzzles, NewChallenge(i)
  PROVE  GateInv'
<1> USE DEF Stores
<1>0. GateRows /\ PuzzlesFit /\ puzzles[i] = "new" /\ MaxLocalSize \in Nat
  BY GateAssumption DEF GateInv, NewChallenge
<1>1. /\ UNCHANGED <<proofStore, strictGates, limiterVars, entries>> /\ UNCHANGED limiterVars
      /\ Up \/ Outage
  BY DEF NewChallenge
<1>2. GuessesFit'
  BY <1>1, LimiterRests
<1>3. ~InRedis(i) /\ ~InProcess(i) /\ entries[i] = 0 /\ i \notin doubled
  BY <1>0 DEF PuzzlesFit
<1>4. PICK inRedis \in BOOLEAN, inProcess \in BOOLEAN :
        /\ challengeStore'.redis = challengeStore.redis \cup (IF inRedis THEN {i} ELSE {})
        /\ challengeStore'.local = challengeStore.local \cup (IF inProcess THEN {i} ELSE {})
        /\ challengeStore' \in Stores
        /\ doubled' = IF inRedis /\ inProcess THEN doubled \cup {i} ELSE doubled
        /\ puzzles' \in {[puzzles EXCEPT ![i] = "issued"], [puzzles EXCEPT ![i] = "lost"]}
        /\ inProcess => ~strictGates /\ LocalSize < MaxLocalSize
  <2>1. CASE /\ challengeStore' = [challengeStore EXCEPT !.redis = @ \cup {i}]
             /\ puzzles' = [puzzles EXCEPT ![i] = "issued"] /\ UNCHANGED doubled
    <3>1. /\ challengeStore'.redis = challengeStore.redis \cup {i} /\ challengeStore'.local = challengeStore.local
          /\ challengeStore' \in Stores
      BY <1>0, <2>1 DEF GateRows
    <3> QED BY <2>1, <3>1, Zenon
  <2>2. ASSUME NEW unheard \in BOOLEAN,
               LET inRedis == unheard /\ issues.redis < IssueLimit
                   inProcess == ~strictGates /\ issues.local < IssueLimit /\ LocalSize < MaxLocalSize IN
               /\ challengeStore' = [redis |-> challengeStore.redis \cup (IF inRedis THEN {i} ELSE {}),
                                     local |-> challengeStore.local \cup (IF inProcess THEN {i} ELSE {})]
               /\ doubled' = IF inRedis /\ inProcess THEN doubled \cup {i} ELSE doubled
               /\ puzzles' = [puzzles EXCEPT ![i] = IF inProcess THEN "issued" ELSE "lost"]
        PROVE  \E inRedis \in BOOLEAN, inProcess \in BOOLEAN :
                  /\ challengeStore'.redis = challengeStore.redis \cup (IF inRedis THEN {i} ELSE {})
                  /\ challengeStore'.local = challengeStore.local \cup (IF inProcess THEN {i} ELSE {})
                  /\ challengeStore' \in Stores
                  /\ doubled' = IF inRedis /\ inProcess THEN doubled \cup {i} ELSE doubled
                  /\ puzzles' \in {[puzzles EXCEPT ![i] = "issued"], [puzzles EXCEPT ![i] = "lost"]}
                  /\ inProcess => ~strictGates /\ LocalSize < MaxLocalSize
    <3> DEFINE inRedis == unheard /\ issues.redis < IssueLimit
               inProcess == ~strictGates /\ issues.local < IssueLimit /\ LocalSize < MaxLocalSize
    <3>1. inRedis \in BOOLEAN /\ inProcess \in BOOLEAN
      OBVIOUS
    <3>2. /\ challengeStore' = [redis |-> challengeStore.redis \cup (IF inRedis THEN {i} ELSE {}),
                                local |-> challengeStore.local \cup (IF inProcess THEN {i} ELSE {})]
          /\ doubled' = IF inRedis /\ inProcess THEN doubled \cup {i} ELSE doubled
          /\ puzzles' = [puzzles EXCEPT ![i] = IF inProcess THEN "issued" ELSE "lost"]
          /\ inProcess => ~strictGates /\ LocalSize < MaxLocalSize
      BY <2>2
    <3> HIDE DEF inRedis, inProcess
    <3>3. challengeStore' \in Stores
      BY <1>0, <3>2 DEF GateRows
    <3>4. /\ challengeStore'.redis = challengeStore.redis \cup (IF inRedis THEN {i} ELSE {})
          /\ challengeStore'.local = challengeStore.local \cup (IF inProcess THEN {i} ELSE {})
      BY <3>2
    <3>5. puzzles' \in {[puzzles EXCEPT ![i] = "issued"], [puzzles EXCEPT ![i] = "lost"]}
      BY <3>2, Zenon
    <3> QED BY <3>1, <3>2, <3>3, <3>4, <3>5
  <2> QED BY <2>1, <2>2 DEF NewChallenge
<1>5. proofStore' = proofStore /\ strictGates' = strictGates /\ entries' = entries
  BY <1>1
<1>6. /\ puzzles' \in [Puzzles -> {"new", "issued", "lost"}] /\ puzzles'[i] # "new"
      /\ \A j \in Puzzles \ {i} : puzzles'[j] = puzzles[j]
  BY <1>0, <1>4 DEF GateRows
<1>7. GateRows'
  <2>1. /\ IsFiniteSet(challengeStore'.local) /\ IsFiniteSet(proofStore'.local) /\ LocalSize' <= MaxLocalSize
    <3>0. /\ IsFiniteSet(challengeStore.local) /\ IsFiniteSet(proofStore.local) /\ LocalSize <= MaxLocalSize
          /\ Cardinality(proofStore.local) \in Nat
      BY <1>0, FS_CardinalityType DEF GateRows
    <3>1. CASE inProcess
      <4>1. challengeStore'.local = challengeStore.local \cup {i}
        BY <1>4, <3>1
      <4>2. PICK old \in Nat, new \in Nat, proofs \in Nat :
              /\ old = Cardinality(challengeStore.local) /\ new = Cardinality(challengeStore'.local)
              /\ proofs = Cardinality(proofStore.local)
        BY <3>0, <4>1, LocalCounts, Zenon
      <4>3. new <= old + 1
        BY <3>0, <4>1, <4>2, LocalCounts, Zenon
      <4>4. old + proofs < MaxLocalSize
        BY <1>4, <3>1, <4>2 DEF LocalSize
      <4>5. new + proofs <= MaxLocalSize
        BY <1>0, <4>3, <4>4
      <4>6. LocalSize' <= MaxLocalSize
        BY <1>5, <4>2, <4>5 DEF LocalSize
      <4> QED BY <1>5, <3>0, <4>1, <4>6, LocalCounts, Zenon
    <3>2. CASE ~inProcess
      <4>1. challengeStore'.local = challengeStore.local
        BY <1>4, <3>2
      <4> QED BY <1>5, <3>0, <4>1 DEF LocalSize
    <3> QED BY <3>1, <3>2
  <2>2. strictGates' => challengeStore'.local = {} /\ proofStore'.local = {}
    BY <1>0, <1>4, <1>5 DEF GateRows
  <2>3. doubled' \subseteq Puzzles
    BY <1>0, <1>4 DEF GateRows
  <2> QED BY <1>0, <1>4, <1>5, <1>6, <2>1, <2>2, <2>3 DEF GateRows
<1>8. PuzzlesFit'
  <2>1. /\ challengeStore'.redis \cap proofStore'.redis = {}
        /\ challengeStore'.local \cap proofStore'.local = {}
    BY <1>0, <1>3, <1>4, <1>5 DEF PuzzlesFit, InRedis, InProcess
  <2>2. /\ InRedis(i)' <=> inRedis
        /\ InProcess(i)' <=> inProcess
        /\ i \in doubled' <=> inRedis /\ inProcess
    BY <1>3, <1>4, <1>5 DEF InRedis, InProcess
  <2>3. \A j \in Puzzles \ {i} :
           /\ InRedis(j)' <=> InRedis(j)
           /\ InProcess(j)' <=> InProcess(j)
           /\ j \in doubled' <=> j \in doubled
    BY <1>4, <1>5 DEF InRedis, InProcess
  <2>4. entries'[i] = 0
    BY <1>3, <1>5
  <2>5. ASSUME NEW j \in Puzzles
        PROVE  /\ puzzles'[j] = "new" => ~InRedis(j)' /\ ~InProcess(j)' /\ entries'[j] = 0 /\ j \notin doubled'
               /\ j \notin doubled' => /\ ~(InRedis(j)' /\ InProcess(j)')
                                       /\ entries'[j] <= IF InRedis(j)' \/ InProcess(j)' THEN 0 ELSE 1
               /\ j \in doubled' => entries'[j] <= IF InRedis(j)' /\ InProcess(j)' THEN 0
                                                   ELSE IF InRedis(j)' \/ InProcess(j)' THEN 1 ELSE 2
    <3>1. CASE j = i
      BY <1>6, <2>2, <2>4, <3>1
    <3>2. CASE j # i
      BY <1>0, <1>5, <1>6, <2>3, <3>2 DEF PuzzlesFit
    <3> QED BY <3>1, <3>2
  <2> QED BY <2>1, <2>5 DEF PuzzlesFit, InRedis, InProcess
<1> QED BY <1>2, <1>7, <1>8 DEF GateInv

\* What a step of one puzzle's holder leaves of the stores: nothing new in either but a proof for
\* its challenge.
Goes(i, challenges, proofs, challengesAfter, proofsAfter) ==
  \/ challengesAfter = challenges /\ proofsAfter \in {proofs, proofs \ {i}}
  \/ challengesAfter = challenges \ {i} /\ proofsAfter = proofs
  \/ i \in challenges /\ challengesAfter = challenges \ {i} /\ proofsAfter = proofs \cup {i}

\* One puzzle leaves a store; the others stay in it.
LEMMA StoresShrink ==
  ASSUME NEW i, NEW challenges, NEW proofs, NEW challengesAfter, NEW proofsAfter,
         challenges \cap proofs = {}, Goes(i, challenges, proofs, challengesAfter, proofsAfter)
  PROVE  /\ challengesAfter \cap proofsAfter = {}
         /\ challengesAfter \cup proofsAfter \subseteq challenges \cup proofs
         /\ \A j : j # i => (j \in challengesAfter \cup proofsAfter <=> j \in challenges \cup proofs)
BY DEF Goes

\* A login lets a puzzle go from one of its stores, or nothing is let through.
LEMMA PuzzlesGo ==
  ASSUME GateInv, NEW i \in Puzzles,
         Goes(i, challengeStore.redis, proofStore.redis, challengeStore'.redis, proofStore'.redis),
         Goes(i, challengeStore.local, proofStore.local, challengeStore'.local, proofStore'.local),
         entries' \in [Puzzles -> Nat], \A j \in Puzzles \ {i} : entries'[j] = entries[j],
         \/ entries'[i] = entries[i]
         \/ entries'[i] = entries[i] + 1 /\ InRedis(i) /\ ~InRedis(i)'
         \/ entries'[i] = entries[i] + 1 /\ InProcess(i) /\ ~InProcess(i)',
         UNCHANGED <<puzzles, doubled>>
  PROVE  PuzzlesFit'
<1>0. PuzzlesFit /\ \A j \in Puzzles : entries[j] \in Nat
  BY DEF GateInv, GateRows
<1>1. /\ challengeStore'.redis \cap proofStore'.redis = {} /\ challengeStore'.local \cap proofStore'.local = {}
      /\ \A j \in Puzzles : (InRedis(j)' => InRedis(j)) /\ (InProcess(j)' => InProcess(j))
      /\ \A j \in Puzzles \ {i} : (InRedis(j)' <=> InRedis(j)) /\ (InProcess(j)' <=> InProcess(j))
  BY <1>0, StoresShrink DEF PuzzlesFit, InRedis, InProcess
<1>2. ASSUME NEW j \in Puzzles
      PROVE  /\ puzzles'[j] = "new" => ~InRedis(j)' /\ ~InProcess(j)' /\ entries'[j] = 0 /\ j \notin doubled'
             /\ j \notin doubled' => /\ ~(InRedis(j)' /\ InProcess(j)')
                                     /\ entries'[j] <= IF InRedis(j)' \/ InProcess(j)' THEN 0 ELSE 1
             /\ j \in doubled' => entries'[j] <= IF InRedis(j)' /\ InProcess(j)' THEN 0
                                                 ELSE IF InRedis(j)' \/ InProcess(j)' THEN 1 ELSE 2
  <2>0. /\ puzzles[j] = "new" => ~InRedis(j) /\ ~InProcess(j) /\ entries[j] = 0 /\ j \notin doubled
        /\ j \notin doubled => /\ ~(InRedis(j) /\ InProcess(j))
                               /\ entries[j] <= IF InRedis(j) \/ InProcess(j) THEN 0 ELSE 1
        /\ j \in doubled => entries[j] <= IF InRedis(j) /\ InProcess(j) THEN 0
                                          ELSE IF InRedis(j) \/ InProcess(j) THEN 1 ELSE 2
        /\ entries[j] \in Nat
    BY <1>0 DEF PuzzlesFit
  <2>1. CASE j # i
    BY <1>1, <2>0, <2>1
  <2>2. CASE j = i /\ entries'[i] = entries[i]
    BY <1>1, <2>0, <2>2
  <2>3. CASE j = i /\ entries'[i] = entries[i] + 1 /\ InRedis(i) /\ ~InRedis(i)'
    <3>1. (InProcess(i)' => InProcess(i)) /\ puzzles[i] # "new"
      BY <1>1, <2>0, <2>3
    <3>2. CASE i \in doubled
      <4>1. entries[i] <= IF InProcess(i) THEN 0 ELSE 1
        BY <2>0, <2>3, <3>2
      <4>2. entries[i] + 1 <= IF InProcess(i)' THEN 1 ELSE 2
        BY <2>0, <2>3, <3>1, <4>1
      <4> QED BY <2>3, <3>1, <3>2, <4>2
    <3>3. CASE i \notin doubled
      <4>1. ~InProcess(i) /\ entries[i] <= 0
        BY <2>0, <2>3, <3>3
      <4>2. entries[i] + 1 <= 1
        BY <2>0, <2>3, <4>1
      <4> QED BY <2>3, <3>1, <3>3, <4>1, <4>2
    <3> QED BY <3>2, <3>3
  <2>4. CASE j = i /\ entries'[i] = entries[i] + 1 /\ InProcess(i) /\ ~InProcess(i)'
    <3>1. (InRedis(i)' => InRedis(i)) /\ puzzles[i] # "new"
      BY <1>1, <2>0, <2>4
    <3>2. CASE i \in doubled
      <4>1. entries[i] <= IF InRedis(i) THEN 0 ELSE 1
        BY <2>0, <2>4, <3>2
      <4>2. entries[i] + 1 <= IF InRedis(i)' THEN 1 ELSE 2
        BY <2>0, <2>4, <3>1, <4>1
      <4> QED BY <2>4, <3>1, <3>2, <4>2
    <3>3. CASE i \notin doubled
      <4>1. ~InRedis(i) /\ entries[i] <= 0
        BY <2>0, <2>4, <3>3
      <4>2. entries[i] + 1 <= 1
        BY <2>0, <2>4, <4>1
      <4> QED BY <2>4, <3>1, <3>3, <4>1, <4>2
    <3> QED BY <3>2, <3>3
  <2> QED BY <2>1, <2>2, <2>3, <2>4
<1> QED BY <1>1, <1>2 DEF PuzzlesFit, InRedis, InProcess

\* A challenge becomes a proof, or is given back.
LEMMA VerifyHolds ==
  ASSUME GateInv, NEW i \in Puzzles, NEW right \in BOOLEAN, Verify(i, right)
  PROVE  GateInv'
<1> USE DEF Stores
<1>0. GateRows /\ PuzzlesFit /\ MaxLocalSize \in Nat
  BY GateAssumption DEF GateInv
<1>1. /\ UNCHANGED <<puzzles, issues, strictGates, limiterVars, entries, doubled>> /\ UNCHANGED limiterVars
      /\ Up \/ Outage
  BY DEF Verify
<1>2. GuessesFit'
  BY <1>1, LimiterRests
<1> DEFINE taken == challengeStore.redis \ {i}
           rest == challengeStore.local \ {i}
           solved == i \in challengeStore.local /\ right
                     /\ Cardinality(rest) + Cardinality(proofStore.local) < MaxLocalSize
           Local(challenges, proofs) ==
             /\ challengeStore' = [redis |-> challenges, local |-> rest]
             /\ proofStore' = [redis |-> proofs,
                               local |-> proofStore.local \cup (IF solved THEN {i} ELSE {})]
<1>3. \/ /\ challengeStore' = [challengeStore EXCEPT !.redis = taken]
         /\ proofStore' = [proofStore EXCEPT !.redis =
                             IF right /\ i \in challengeStore.redis THEN proofStore.redis \cup {i}
                             ELSE proofStore.redis]
      \/ challengeStore' = [challengeStore EXCEPT !.redis = taken] /\ proofStore' = proofStore
      \/ challengeStore' = [challengeStore EXCEPT !.redis = challengeStore.redis] /\ proofStore' = proofStore
      \/ Local(challengeStore.redis, proofStore.redis) /\ ~strictGates
      \/ Local(taken, proofStore.redis) /\ ~strictGates
  BY Zenon DEF Verify, VerifyLocal
<1> HIDE DEF solved
<1>4. /\ challengeStore' \in Stores /\ proofStore' \in Stores
      /\ Goes(i, challengeStore.redis, proofStore.redis, challengeStore'.redis, proofStore'.redis)
      /\ \/ challengeStore'.local = challengeStore.local /\ proofStore'.local = proofStore.local
         \/ /\ challengeStore'.local = rest /\ ~strictGates
            /\ proofStore'.local = proofStore.local \cup (IF solved THEN {i} ELSE {})
  <2>0. challengeStore \in Stores /\ proofStore \in Stores
    BY <1>0 DEF GateRows
  <2>1. CASE \/ Local(challengeStore.redis, proofStore.redis) /\ ~strictGates
             \/ Local(taken, proofStore.redis) /\ ~strictGates
    BY <2>0, <2>1 DEF Goes
  <2>2. CASE \/ challengeStore' = [challengeStore EXCEPT !.redis = taken] /\ proofStore' = proofStore
             \/ challengeStore' = [challengeStore EXCEPT !.redis = challengeStore.redis] /\ proofStore' = proofStore
    BY <2>0, <2>2 DEF Goes
  <2>3. CASE /\ challengeStore' = [challengeStore EXCEPT !.redis = taken]
             /\ proofStore' = [proofStore EXCEPT !.redis =
                                 IF right /\ i \in challengeStore.redis THEN proofStore.redis \cup {i}
                                 ELSE proofStore.redis]
    BY <2>0, <2>3 DEF Goes
  <2> QED BY <1>3, <2>1, <2>2, <2>3
<1>5. Goes(i, challengeStore.local, proofStore.local, challengeStore'.local, proofStore'.local)
  BY <1>4, Zenon DEF Goes, solved
<1>6. PuzzlesFit'
  <2>1. entries' = entries /\ entries' \in [Puzzles -> Nat] /\ UNCHANGED <<puzzles, doubled>>
    BY <1>0, <1>1 DEF GateRows
  <2> QED BY <1>4, <1>5, <2>1, PuzzlesGo
<1>7. GateRows'
  <2>0. /\ IsFiniteSet(challengeStore.local) /\ IsFiniteSet(proofStore.local) /\ LocalSize <= MaxLocalSize
        /\ Cardinality(proofStore.local) \in Nat /\ Cardinality(challengeStore.local) \in Nat
        /\ IsFiniteSet(rest) /\ Cardinality(rest) \in Nat /\ Cardinality(rest) <= Cardinality(challengeStore.local)
    BY <1>0, LocalCounts, FS_CardinalityType, Zenon DEF GateRows
  <2>1. IsFiniteSet(challengeStore'.local) /\ IsFiniteSet(proofStore'.local) /\ LocalSize' <= MaxLocalSize
    <3>1. CASE challengeStore'.local = challengeStore.local /\ proofStore'.local = proofStore.local
      BY <2>0, <3>1 DEF LocalSize
    <3>2. CASE challengeStore'.local = rest /\ proofStore'.local = proofStore.local
      <4>1. Cardinality(rest) + Cardinality(proofStore.local) <= MaxLocalSize
        BY <1>0, <2>0 DEF LocalSize
      <4> QED BY <2>0, <3>2, <4>1 DEF LocalSize
    <3>3. CASE challengeStore'.local = rest /\ proofStore'.local = proofStore.local \cup {i} /\ solved
      <4>1. Cardinality(rest) + Cardinality(proofStore.local) < MaxLocalSize
        BY <3>3 DEF solved
      <4>2. /\ Cardinality(proofStore.local \cup {i}) \in Nat /\ IsFiniteSet(proofStore.local \cup {i})
            /\ Cardinality(proofStore.local \cup {i}) <= Cardinality(proofStore.local) + 1
        BY <2>0, LocalCounts, Zenon
      <4>3. Cardinality(rest) + Cardinality(proofStore.local \cup {i}) <= MaxLocalSize
        BY <1>0, <2>0, <4>1, <4>2
      <4> QED BY <2>0, <3>3, <4>2, <4>3 DEF LocalSize
    <3> QED BY <1>4, <3>1, <3>2, <3>3, Zenon
  <2>2. strictGates' => challengeStore'.local = {} /\ proofStore'.local = {}
    BY <1>0, <1>1, <1>4 DEF GateRows
  <2>3. /\ puzzles' \in [Puzzles -> {"new", "issued", "lost"}] /\ strictGates' \in BOOLEAN
        /\ entries' \in [Puzzles -> Nat] /\ doubled' \subseteq Puzzles
    BY <1>0, <1>1 DEF GateRows
  <2> QED BY <1>4, <2>1, <2>2, <2>3 DEF GateRows
<1> QED BY <1>2, <1>6, <1>7 DEF GateInv

\* A proof lets a login through.
LEMMA ConsumeHolds ==
  ASSUME GateInv, NEW q \in LoginRequests, NEW i \in Puzzles, ConsumeProof(q, i)
  PROVE  GateInv'
<1> USE DEF Stores
<1>0. GateRows /\ PuzzlesFit /\ MaxLocalSize \in Nat /\ GuessesFit
  BY GateAssumption DEF GateInv
<1>1. /\ UNCHANGED <<puzzles, challengeStore, issues, strictGates, failures, lock, guesses, doubled>>
      /\ Up \/ Outage
      /\ logins[q] = "idle"
  BY DEF ConsumeProof
<1>2. PICK inRedis \in BOOLEAN :
        LET here == ~inRedis /\ ~strictGates /\ i \in proofStore.local IN
        /\ \/ /\ Up
              /\ inRedis = (i \in proofStore.redis)
              /\ proofStore' = [redis |-> proofStore.redis \ {i},
                                local |-> IF inRedis \/ strictGates THEN proofStore.local
                                          ELSE proofStore.local \ {i}]
           \/ /\ Outage
              /\ ~inRedis
              /\ \E left \in {proofStore.redis, proofStore.redis \ {i}} :
                    proofStore' = [redis |-> left,
                                   local |-> IF strictGates THEN proofStore.local
                                             ELSE proofStore.local \ {i}]
        /\ entries' = [entries EXCEPT ![i] = @ + (IF inRedis \/ here THEN 1 ELSE 0)]
        /\ logins' = IF inRedis \/ here THEN [logins EXCEPT ![q] = "proved"] ELSE logins
  BY Zenon DEF ConsumeProof
<1>3. /\ proofStore' \in Stores
      /\ proofStore'.redis \in {proofStore.redis, proofStore.redis \ {i}}
      /\ proofStore'.local \in {proofStore.local, proofStore.local \ {i}}
      /\ inRedis => i \in proofStore.redis /\ proofStore'.redis = proofStore.redis \ {i}
      /\ ~inRedis /\ ~strictGates => proofStore'.local = proofStore.local \ {i}
  <2>0. proofStore \in Stores
    BY <1>0 DEF GateRows
  <2>1. CASE /\ inRedis = (i \in proofStore.redis)
             /\ proofStore' = [redis |-> proofStore.redis \ {i},
                               local |-> IF inRedis \/ strictGates THEN proofStore.local
                                         ELSE proofStore.local \ {i}]
    BY <2>0, <2>1, Zenon
  <2>2. CASE /\ ~inRedis
             /\ \E left \in {proofStore.redis, proofStore.redis \ {i}} :
                   proofStore' = [redis |-> left,
                                  local |-> IF strictGates THEN proofStore.local
                                            ELSE proofStore.local \ {i}]
    BY <2>0, <2>2
  <2> QED BY <1>2, <2>1, <2>2
<1> DEFINE here == ~inRedis /\ ~strictGates /\ i \in proofStore.local
<1>4. /\ entries' = [entries EXCEPT ![i] = @ + (IF inRedis \/ here THEN 1 ELSE 0)]
      /\ logins' = IF inRedis \/ here THEN [logins EXCEPT ![q] = "proved"] ELSE logins
  BY <1>2
<1>5. challengeStore' = challengeStore /\ UNCHANGED <<puzzles, doubled>>
  BY <1>1
<1>6. /\ Goes(i, challengeStore.redis, proofStore.redis, challengeStore'.redis, proofStore'.redis)
      /\ Goes(i, challengeStore.local, proofStore.local, challengeStore'.local, proofStore'.local)
  BY <1>3, <1>5 DEF Goes
<1>7. /\ entries' \in [Puzzles -> Nat] /\ \A j \in Puzzles \ {i} : entries'[j] = entries[j]
      /\ inRedis \/ here => entries'[i] = entries[i] + 1
      /\ ~(inRedis \/ here) => entries'[i] = entries[i]
  <2>1. entries \in [Puzzles -> Nat] /\ entries[i] \in Nat
    BY <1>0 DEF GateRows
  <2> HIDE DEF here
  <2>2. (IF inRedis \/ here THEN 1 ELSE 0) \in Nat
    OBVIOUS
  <2>3. entries[i] + (IF inRedis \/ here THEN 1 ELSE 0) \in Nat
    BY <2>1, <2>2
  <2>4. CASE inRedis \/ here
    BY <1>4, <2>1, <2>3, <2>4
  <2>5. CASE ~(inRedis \/ here)
    BY <1>4, <2>1, <2>3, <2>5
  <2> QED BY <2>4, <2>5
<1>8. /\ inRedis => InRedis(i) /\ ~InRedis(i)'
      /\ here => InProcess(i) /\ ~InProcess(i)'
  BY <1>0, <1>3, <1>5 DEF InRedis, InProcess, PuzzlesFit
<1>9. PuzzlesFit'
  <2>1. \/ entries'[i] = entries[i]
        \/ entries'[i] = entries[i] + 1 /\ InRedis(i) /\ ~InRedis(i)'
        \/ entries'[i] = entries[i] + 1 /\ InProcess(i) /\ ~InProcess(i)'
    BY <1>7, <1>8
  <2> QED BY <1>5, <1>6, <1>7, <2>1, PuzzlesGo
<1>10. GateRows'
  <2>0. /\ IsFiniteSet(challengeStore.local) /\ IsFiniteSet(proofStore.local) /\ LocalSize <= MaxLocalSize
        /\ Cardinality(challengeStore.local) \in Nat
    BY <1>0, FS_CardinalityType DEF GateRows
  <2>1. PICK old \in Nat, new \in Nat : old = Cardinality(proofStore.local) /\ new = Cardinality(proofStore'.local)
    BY <1>3, <2>0, LocalCounts, Zenon
  <2>2. new <= old /\ IsFiniteSet(proofStore'.local)
    <3>1. CASE proofStore'.local = proofStore.local
      BY <2>0, <2>1, <3>1
    <3>2. CASE proofStore'.local = proofStore.local \ {i}
      BY <2>0, <2>1, <3>2, LocalCounts, ZenonT(30)
    <3> QED BY <1>3, <3>1, <3>2
  <2>3. Cardinality(challengeStore.local) + new <= MaxLocalSize
    BY <1>0, <2>0, <2>1, <2>2 DEF LocalSize
  <2>4. LocalSize' <= MaxLocalSize
    BY <1>5, <2>1, <2>3 DEF LocalSize
  <2>5. strictGates' => challengeStore'.local = {} /\ proofStore'.local = {}
    BY <1>0, <1>1, <1>3 DEF GateRows
  <2>6. /\ puzzles' \in [Puzzles -> {"new", "issued", "lost"}] /\ strictGates' \in BOOLEAN
        /\ challengeStore' \in Stores /\ doubled' \subseteq Puzzles
    BY <1>0, <1>1 DEF GateRows
  <2> QED BY <1>3, <1>5, <1>7, <2>0, <2>2, <2>4, <2>5, <2>6 DEF GateRows
<1>11. GuessesFit'
  <2>1. logins' \in {logins, [logins EXCEPT ![q] = "proved"]}
    BY <1>4
  <2>2. logins \in [LoginRequests -> {"idle", "proved", "compared"}]
    BY <1>0 DEF GuessesFit
  <2>3. logins' \in [LoginRequests -> {"idle", "proved", "compared"}]
    BY <2>1, <2>2
  <2>4. Compared' = Compared
    BY <1>1, <2>1, <2>2 DEF Compared
  <2> QED BY <1>1, <2>3, <2>4, LimiterStays
<1> QED BY <1>9, <1>10, <1>11 DEF GateInv

-----------------------------------------------------------------------------
(* The whole.                                                               *)

\* The lock leaves the captcha alone.
LEMMA CaptchaStays ==
  ASSUME GateInv, UNCHANGED <<captchaVars, strictGates>>
  PROVE  GateRows' /\ PuzzlesFit'
BY DEF GateInv, GateRows, PuzzlesFit, captchaVars, LocalSize, InRedis, InProcess

\* A step of another module.
LEMMA GateQuiet == ASSUME GateInv, UNCHANGED gateVars PROVE GateInv'
BY DEF GateInv, GateRows, PuzzlesFit, GuessesFit, gateVars, LocalSize, InRedis, InProcess, Compared

\* No puzzle, no login.
LEMMA GateBegins == GateInit => GateInv
<1> SUFFICES ASSUME GateInit PROVE GateInv
  OBVIOUS
<1>1. IsFiniteSet({}) /\ Cardinality({}) = 0 /\ Cardinality(LoginRequests) \in Nat
      /\ MaxLoginFailures \in Nat \ {0} /\ MaxLocalSize \in Nat
  BY GateAssumption, FS_EmptySet, FS_CardinalityType
<1>2. /\ challengeStore = [redis |-> {}, local |-> {}] /\ proofStore = [redis |-> {}, local |-> {}]
      /\ puzzles = [i \in Puzzles |-> "new"] /\ strictGates \in BOOLEAN
      /\ entries = [i \in Puzzles |-> 0] /\ doubled = {}
  BY DEF GateInit
<1>3. challengeStore.local = {} /\ proofStore.local = {}
  BY <1>2
<1>4. LocalSize <= MaxLocalSize
  BY <1>1, <1>3 DEF LocalSize
<1>5. GateRows
  BY <1>1, <1>2, <1>3, <1>4 DEF GateRows, Stores
<1>6. \A i \in Puzzles : ~InRedis(i) /\ ~InProcess(i) /\ entries[i] = 0
  BY <1>2 DEF InRedis, InProcess
<1>7. PuzzlesFit
  BY <1>2, <1>6 DEF PuzzlesFit
<1>8. /\ logins = [q \in LoginRequests |-> "idle"] /\ failures = [redis |-> 0, local |-> 0] /\ lock = FALSE
      /\ guesses = 0 /\ outages = 0
  BY DEF GateInit
<1>9. Cardinality(Compared) = 0
  <2>1. Compared = {}
    BY <1>8 DEF Compared
  <2> QED BY <1>1, <2>1
<1>10. /\ guesses \in Nat /\ outages \in Nat /\ failures \in [redis : Nat, local : Nat]
       /\ lock \in BOOLEAN /\ logins \in [LoginRequests -> {"idle", "proved", "compared"}]
  BY <1>8, Zenon
<1>11. /\ guesses <= failures.redis + outages /\ guesses <= MaxLoginFailures - 1 + outages
       /\ guesses + Cardinality(Compared) <= MaxLoginFailures - 1 + Cardinality(LoginRequests) + outages
  BY <1>1, <1>8, <1>9
<1>12. GuessesFit
  BY <1>10, <1>11 DEF GuessesFit
<1> QED BY <1>5, <1>7, <1>12 DEF GateInv

\* Every step of the gates.
LEMMA GateStep ==
  ASSUME GateInv, [GateNext]_gateVars
  PROVE  GateInv'
<1>1. CASE UNCHANGED gateVars
  BY <1>1, GateQuiet
<1>2. CASE WindowEnds
  BY <1>2, WindowHolds
<1>3. ASSUME NEW i \in Puzzles, NewChallenge(i) PROVE GateInv'
  BY <1>3, ChallengeHolds
<1>4. ASSUME NEW i \in Puzzles, NEW right \in BOOLEAN, Verify(i, right) PROVE GateInv'
  BY <1>4, VerifyHolds
<1>5. ASSUME NEW q \in LoginRequests, NEW i \in Puzzles, ConsumeProof(q, i) PROVE GateInv'
  BY <1>5, ConsumeHolds
<1>6. ASSUME NEW q \in LoginRequests, IsLocked(q) \/ RecordFailure(q) \/ ClearFailures(q) PROVE GateInv'
  <2>1. UNCHANGED <<captchaVars, strictGates>>
    BY <1>6, Zenon DEF IsLocked, RecordFailure, ClearFailures
  <2> QED BY <1>6, <2>1, LimiterHolds, CaptchaStays DEF GateInv
<1> QED BY <1>1, <1>2, <1>3, <1>4, <1>5, <1>6 DEF GateNext

\* What the invariant says of one puzzle and of the wrong passwords of a window.
LEMMA GatesAgree == GateInv => GateTypeOK /\ GatesHold
<1> SUFFICES ASSUME GateInv PROVE GateTypeOK /\ GatesHold
  OBVIOUS
<1>1. GateTypeOK
  BY DEF GateInv, GateRows, Stores, GateTypeOK
<1>2. OnePuzzleOneLogin
  <2>1. ASSUME NEW i \in Puzzles PROVE entries[i] <= IF i \in doubled THEN 2 ELSE 1
    <3>1. entries[i] \in Nat
      BY DEF GateInv, GateRows
    <3>2. CASE i \in doubled
      <4>1. entries[i] <= 0 \/ entries[i] <= 1 \/ entries[i] <= 2
        BY <3>2 DEF GateInv, PuzzlesFit
      <4> QED BY <3>1, <3>2, <4>1
    <3>3. CASE i \notin doubled
      <4>1. entries[i] <= 0 \/ entries[i] <= 1
        BY <3>3 DEF GateInv, PuzzlesFit
      <4> QED BY <3>1, <3>3, <4>1
    <3> QED BY <3>2, <3>3
  <2> QED BY <2>1 DEF OnePuzzleOneLogin
<1>3. GuessesAreBounded
  <2>1. /\ guesses \in Nat /\ outages \in Nat
        /\ guesses + Cardinality(Compared) <= MaxLoginFailures - 1 + Cardinality(LoginRequests) + outages
    BY DEF GateInv, GuessesFit
  <2>2. IsFiniteSet(LoginRequests) /\ Compared \subseteq LoginRequests /\ MaxLoginFailures \in Nat
    BY GateAssumption DEF Compared
  <2>3. Cardinality(Compared) \in Nat /\ Cardinality(LoginRequests) \in Nat
    BY <2>2, FS_Subset, FS_CardinalityType
  <2>4. guesses <= MaxLoginFailures - 1 + Cardinality(LoginRequests) + outages
    BY <2>1, <2>2, <2>3
  <2> QED BY <2>4 DEF GuessesAreBounded
<1> QED BY <1>1, <1>2, <1>3 DEF GatesHold

\* One solved puzzle lets one login through, and wrong passwords are compared no more often than
\* the limit, the overlap and the outages allow: for any number of puzzles, logins and failing
\* calls of Redis (auth/captcha.go, auth/limiter.go).
THEOREM GatesStay == GateSpec => [](GateTypeOK /\ GatesHold)
<1>1. GateInit => GateInv
  BY GateBegins
<1>2. GateInv /\ [GateNext]_gateVars => GateInv'
  BY GateStep
<1> QED BY <1>1, <1>2, GatesAgree, PTL DEF GateSpec

-----------------------------------------------------------------------------
(* The Official Account (WechatBinding).                                   *)

FollowerRow == [known : BOOLEAN, user : Users \cup {NoUser}, subscribed : BOOLEAN,
                subscribedAt : Nat, unsubscribedAt : Nat]
TicketRow == [status : {"none", "available", "reserved", "expired"}, reservedBy : SUBSET Callback]
HandlerRow == {NoHandler} \cup [phase : {"ticket", "apply", "complete"}, message : Callback]

BindingRows ==
  /\ binding \in [OpenIds -> FollowerRow] /\ ticket \in [Users -> TicketRow]
  /\ callbacks \subseteq Callback /\ applied \subseteq Callback
  /\ DOMAIN claims = callbacks /\ handlers \in [Handlers -> HandlerRow]
  /\ bound \in [Users -> SUBSET OpenIds] /\ callbackFailures \in 0..MaxFailures
  /\ \A h \in Handlers : handlers[h] # NoHandler => handlers[h].message \in callbacks

\* A follower's row says what the latest of the callbacks that reached it said.
RowTells(row, heard) ==
  /\ heard = {} => ~row.known /\ ~row.subscribed /\ row.subscribedAt = 0 /\ row.unsubscribedAt = 0
  /\ heard # {} => row.known /\ \E m \in heard : m.at = Latest(row)
  /\ \A m \in heard : m.at <= Latest(row)
  /\ row.subscribed => \A m \in heard : m.at = Latest(row) => m.kind # "unsubscribe"
  /\ heard # {} /\ ~row.subscribed => \E m \in heard : m.at = Latest(row) /\ m.kind = "unsubscribe"
FollowersFit == \A o \in OpenIds : RowTells(binding[o], OfFollower(o))

\* Whoever is about to be bound by a user's ticket is the one for whom it was reserved.
Applying(h, u) == /\ handlers[h].phase = "apply" /\ handlers[h].message.kind = "text"
                  /\ handlers[h].message.user = u
Owns(u, o) == /\ bound[u] \subseteq {o}
              /\ \A h \in Handlers : Applying(h, u) => handlers[h].message.from = o
              /\ \A m \in ticket[u].reservedBy : m.from = o
TicketsFit ==
  \A u \in Users :
     /\ ticket[u].status \in {"none", "available"} =>
          bound[u] = {} /\ ticket[u].reservedBy = {} /\ \A h \in Handlers : ~Applying(h, u)
     /\ \E o \in OpenIds \cup {NoUser} : Owns(u, o)

\* An answer is prepared after its effect.
AnswersFit ==
  /\ \A h \in Handlers : handlers[h].phase = "ticket" => handlers[h].message.kind = "text"
  /\ \A h \in Handlers :
        handlers[h].phase = "complete" /\ handlers[h].message.kind # "text" => handlers[h].message \in applied
  /\ DoneIsApplied

BindingInv == BindingRows /\ FollowersFit /\ TicketsFit /\ AnswersFit

-----------------------------------------------------------------------------
(* A follower's row.                                                        *)

\* The later of the two times of a row.
LEMMA LatestIsMax ==
  ASSUME NEW row \in FollowerRow
  PROVE  /\ Latest(row) \in Nat /\ Latest(row) >= row.subscribedAt /\ Latest(row) >= row.unsubscribedAt
         /\ Latest(row) \in {row.subscribedAt, row.unsubscribedAt}
<1> DEFINE S == {row.subscribedAt, row.unsubscribedAt}
<1>1. row.subscribedAt \in Nat /\ row.unsubscribedAt \in Nat
  BY DEF FollowerRow
<1>2. \E x \in S : \A y \in S : x >= y
  <2>1. CASE row.subscribedAt >= row.unsubscribedAt
    BY <1>1, <2>1
  <2>2. CASE row.unsubscribedAt >= row.subscribedAt
    BY <1>1, <2>2
  <2> QED BY <1>1, <2>1, <2>2
<1>3. Latest(row) \in S /\ \A y \in S : Latest(row) >= y
  BY <1>2 DEF Latest, Max
<1> QED BY <1>1, <1>3

\* The row after a callback, by its four fields that count.
LEMMA LatestOfBoth ==
  ASSUME NEW row \in FollowerRow, NEW t \in Nat, row.subscribedAt = t \/ row.unsubscribedAt = t,
         row.subscribedAt <= t, row.unsubscribedAt <= t
  PROVE  Latest(row) = t
<1>1. row.subscribedAt \in Nat /\ row.unsubscribedAt \in Nat
  BY DEF FollowerRow
<1> QED BY <1>1, LatestIsMax

\* What a callback is made of.
LEMMA CallbackParts ==
  ASSUME NEW m \in Callback
  PROVE  /\ m.from \in OpenIds /\ m.kind \in {"subscribe", "unsubscribe", "text"} /\ m.at \in Nat \ {0}
         /\ m.kind = "text" => m.user \in Users
BY BindingAssumption, Zenon DEF Callback

\* A subscription or its end, applied to what the earlier ones left.
LEMMA SubscriptionTells ==
  ASSUME NEW row \in FollowerRow, NEW heard \in SUBSET Callback, RowTells(row, heard),
         NEW m \in Callback, m.kind # "text"
  PROVE  SubscriptionAfter(row, m) \in FollowerRow /\ RowTells(SubscriptionAfter(row, m), heard \cup {m})
<1> DEFINE on == m.kind = "subscribe"
           wins == m.at > Latest(row) \/ (m.at = Latest(row) /\ (~on \/ row.subscribed))
           since == IF on THEN m.at ELSE row.subscribedAt
           until == IF on THEN 0 ELSE m.at
           new == [row EXCEPT !.known = TRUE, !.subscribed = on, !.subscribedAt = since, !.unsubscribedAt = until]
<1>0. /\ m.at \in Nat /\ Latest(row) \in Nat /\ row.subscribedAt \in Nat /\ row.unsubscribedAt \in Nat
      /\ row.subscribedAt <= Latest(row) /\ on \in BOOLEAN
      /\ \A n \in heard : n.at \in Nat
  BY LatestIsMax, CallbackParts DEF FollowerRow
<1>1. CASE wins
  <2>1. SubscriptionAfter(row, m) = new
    BY <1>1 DEF SubscriptionAfter
  <2>2. m.at >= Latest(row)
    BY <1>0, <1>1
  <2>3. since \in Nat /\ until \in Nat /\ since <= m.at /\ until <= m.at /\ (since = m.at \/ until = m.at)
    BY <1>0, <2>2
  <2> HIDE DEF since, until
  <2>4. /\ new \in FollowerRow /\ new.known = TRUE /\ new.subscribed = on
        /\ new.subscribedAt = since /\ new.unsubscribedAt = until
    BY <1>0, <2>3, Zenon DEF FollowerRow
  <2> HIDE DEF new
  <2>5. Latest(new) = m.at
    BY <1>0, <2>3, <2>4, LatestOfBoth
  <2>6. \A n \in heard : n.at <= Latest(row) /\ n.at <= m.at
    BY <1>0, <2>2 DEF RowTells
  <2>7. ASSUME on, NEW n \in heard, n.at = m.at PROVE n.kind # "unsubscribe"
    <3>1. n.at = Latest(row) /\ Latest(row) = m.at
      BY <1>0, <2>2, <2>6, <2>7
    <3>2. row.subscribed
      BY <1>0, <1>1, <2>7, <3>1
    <3> QED BY <3>1, <3>2 DEF RowTells
  <2>8. RowTells(new, heard \cup {m})
    <3>1. m.kind \in {"subscribe", "unsubscribe", "text"}
      BY CallbackParts
    <3>2. \A n \in heard \cup {m} : n.at <= Latest(new)
      BY <1>0, <2>5, <2>6
    <3>3. new.subscribed => \A n \in heard \cup {m} : n.at = Latest(new) => n.kind # "unsubscribe"
      BY <2>4, <2>5, <2>7, Zenon
    <3>4. ~new.subscribed => m.kind = "unsubscribe"
      BY <2>4, <3>1, Zenon
    <3> QED BY <2>4, <2>5, <3>2, <3>3, <3>4 DEF RowTells
  <2> QED BY <2>1, <2>4, <2>8
<1>2. CASE ~wins
  <2>1. SubscriptionAfter(row, m) = row
    BY <1>2 DEF SubscriptionAfter
  <2>2. m.at <= Latest(row) /\ (m.at = Latest(row) => on /\ ~row.subscribed)
    BY <1>0, <1>2
  <2>3. heard # {}
    <3> SUFFICES ASSUME heard = {} PROVE FALSE
      OBVIOUS
    <3>1. row.subscribedAt = 0 /\ row.unsubscribedAt = 0
      BY DEF RowTells
    <3>2. Latest(row) = 0
      BY <3>1, LatestIsMax
    <3> QED BY <2>2, <3>2, CallbackParts
  <2>4. RowTells(row, heard \cup {m})
    <3>1. /\ \A n \in heard \cup {m} : n.at <= Latest(row)
          /\ row.known /\ \E n \in heard \cup {m} : n.at = Latest(row)
      BY <2>2, <2>3 DEF RowTells
    <3>2. row.subscribed => \A n \in heard \cup {m} : n.at = Latest(row) => n.kind # "unsubscribe"
      BY <2>2 DEF RowTells
    <3>3. ~row.subscribed => \E n \in heard \cup {m} : n.at = Latest(row) /\ n.kind = "unsubscribe"
      BY <2>3 DEF RowTells
    <3> QED BY <3>1, <3>2, <3>3 DEF RowTells
  <2> QED BY <2>1, <2>4
<1> QED BY <1>1, <1>2

\* A message that binds, applied to what the earlier callbacks left.
LEMMA BoundTells ==
  ASSUME NEW row \in FollowerRow, NEW heard \in SUBSET Callback, RowTells(row, heard),
         NEW m \in Callback, m.kind = "text"
  PROVE  BoundAfter(row, m) \in FollowerRow /\ RowTells(BoundAfter(row, m), heard \cup {m})
<1> DEFINE fresh == ~row.known \/ m.at > Latest(row) \/ (m.at = Latest(row) /\ row.subscribed)
           on == row.subscribed \/ fresh
           since == IF fresh THEN m.at ELSE row.subscribedAt
           until == IF fresh THEN 0 ELSE row.unsubscribedAt
           new == [row EXCEPT !.known = TRUE, !.user = m.user, !.subscribed = on,
                              !.subscribedAt = since, !.unsubscribedAt = until]
<1>0. /\ m.at \in Nat \ {0} /\ Latest(row) \in Nat /\ row.subscribedAt \in Nat /\ row.unsubscribedAt \in Nat
      /\ row.subscribedAt <= Latest(row) /\ on \in BOOLEAN /\ m.user \in Users
      /\ \A n \in heard : n.at \in Nat
  BY LatestIsMax, CallbackParts DEF FollowerRow
<1>1. BoundAfter(row, m) = new
  BY DEF BoundAfter
<1>2. since \in Nat /\ until \in Nat
  BY <1>0
<1>3. heard = {} => ~row.known /\ Latest(row) = 0
  BY LatestIsMax DEF RowTells
<1>4. fresh => m.at >= Latest(row)
  <2>1. ~row.known => heard = {}
    BY DEF RowTells
  <2> QED BY <1>0, <1>3, <2>1
<1>5. ~fresh => heard # {} /\ m.at <= Latest(row) /\ (m.at = Latest(row) => ~row.subscribed)
  BY <1>0, <1>3
<1>6. \A n \in heard : n.at <= Latest(row)
  BY DEF RowTells
<1>7. fresh => since = m.at /\ until = 0 /\ on
  OBVIOUS
<1>8. ~fresh => since = row.subscribedAt /\ until = row.unsubscribedAt /\ (on <=> row.subscribed)
  OBVIOUS
<1>9. fresh /\ m.at = Latest(row) /\ heard # {} => row.subscribed
  BY <1>0 DEF RowTells
<1> HIDE DEF since, until, on
<1>10. /\ new \in FollowerRow /\ new.known = TRUE /\ new.subscribed = on
       /\ new.subscribedAt = since /\ new.unsubscribedAt = until
  BY <1>0, <1>2, Zenon DEF FollowerRow
<1> HIDE DEF new
<1>11. CASE fresh
  <2>1. Latest(new) = m.at
    BY <1>0, <1>7, <1>10, <1>11, LatestOfBoth
  <2>2. \A n \in heard \cup {m} : n.at <= Latest(new)
    BY <1>0, <1>4, <1>6, <1>11, <2>1
  <2>3. ASSUME NEW n \in heard, n.at = m.at PROVE n.kind # "unsubscribe"
    <3>1. n.at = Latest(row) /\ m.at = Latest(row)
      BY <1>0, <1>4, <1>6, <1>11, <2>3
    <3> QED BY <1>9, <1>11, <3>1 DEF RowTells
  <2>4. new.subscribed
    BY <1>7, <1>10, <1>11
  <2> QED BY <1>1, <1>10, <2>1, <2>2, <2>3, <2>4 DEF RowTells
<1>12. CASE ~fresh
  <2>1. Latest(new) = Latest(row)
    BY <1>8, <1>10, <1>12 DEF Latest
  <2>2. new.subscribed <=> row.subscribed
    BY <1>8, <1>10, <1>12
  <2>3. \A n \in heard \cup {m} : n.at <= Latest(new)
    BY <1>5, <1>6, <1>12, <2>1
  <2>4. new.subscribed => \A n \in heard \cup {m} : n.at = Latest(new) => n.kind # "unsubscribe"
    BY <2>1, <2>2 DEF RowTells
  <2>5. \E n \in heard \cup {m} : n.at = Latest(new)
    BY <1>5, <1>12, <2>1 DEF RowTells
  <2>6. ~new.subscribed => \E n \in heard \cup {m} : n.at = Latest(new) /\ n.kind = "unsubscribe"
    BY <1>5, <1>12, <2>1, <2>2 DEF RowTells
  <2> QED BY <1>1, <1>10, <2>3, <2>4, <2>5, <2>6 DEF RowTells
<1> QED BY <1>11, <1>12

-----------------------------------------------------------------------------
(* The tickets and the requests.                                            *)

\* What a handler at work is made of.
LEMMA HandlerParts ==
  ASSUME BindingInv, NEW h \in Handlers
  PROVE  /\ handlers[h] \in HandlerRow
         /\ handlers[h].phase \in {"ticket", "apply", "complete"} =>
              /\ handlers[h] # NoHandler /\ handlers[h].message \in Callback
              /\ handlers[h].message \in callbacks
              /\ handlers[h] \in [phase : {"ticket", "apply", "complete"}, message : Callback]
<1>1. handlers[h] \in HandlerRow /\ (handlers[h] # NoHandler => handlers[h].message \in callbacks)
      /\ callbacks \subseteq Callback
  BY DEF BindingInv, BindingRows
<1>2. NoHandler.phase = "idle"
  BY DEF NoHandler
<1> QED BY <1>1, <1>2 DEF HandlerRow

\* A request in its next phase.
LEMMA AdvanceParts ==
  ASSUME BindingInv, NEW h \in Handlers, handlers[h].phase \in {"ticket", "apply", "complete"},
         NEW phase \in {"ticket", "apply", "complete"}, Advance(h, phase)
  PROVE  /\ handlers' \in [Handlers -> HandlerRow]
         /\ handlers'[h] # NoHandler /\ handlers'[h].phase = phase /\ handlers'[h].message = handlers[h].message
         /\ \A x \in Handlers \ {h} : handlers'[x] = handlers[x]
<1> DEFINE new == [handlers[h] EXCEPT !.phase = phase]
<1>1. handlers \in [Handlers -> HandlerRow]
      /\ handlers[h] \in [phase : {"ticket", "apply", "complete"}, message : Callback]
  BY HandlerParts DEF BindingInv, BindingRows
<1>2. handlers' = [handlers EXCEPT ![h] = new]
  BY DEF Advance
<1>3. new \in [phase : {"ticket", "apply", "complete"}, message : Callback] /\ new.phase = phase
      /\ new.message = handlers[h].message
  BY <1>1
<1> HIDE DEF new
<1>4. new \in HandlerRow /\ NoHandler.phase = "idle" /\ new # NoHandler
  BY <1>3 DEF HandlerRow, NoHandler
<1> QED BY <1>1, <1>2, <1>3, <1>4

\* What the invariant says of the rest when only the requests and the claims move.
LEMMA FollowersStay ==
  ASSUME BindingInv, UNCHANGED <<binding, applied>>
  PROVE  FollowersFit'
BY Zenon DEF BindingInv, FollowersFit, OfFollower

\* The tickets do not notice a request that is not about to bind.
LEMMA TicketsStay ==
  ASSUME BindingInv, UNCHANGED <<ticket, bound>>,
         \A h \in Handlers : handlers'[h] = handlers[h] \/ handlers'[h].phase # "apply"
                             \/ handlers'[h].message.kind # "text"
  PROVE  TicketsFit'
<1>1. \A h \in Handlers, u \in Users : Applying(h, u)' => Applying(h, u) /\ handlers'[h] = handlers[h]
  BY DEF Applying
<1>2. ASSUME NEW u \in Users
      PROVE  /\ ticket'[u].status \in {"none", "available"} =>
                  bound'[u] = {} /\ ticket'[u].reservedBy = {} /\ \A h \in Handlers : ~Applying(h, u)'
             /\ \E o \in OpenIds \cup {NoUser} : Owns(u, o)'
  <2>1. /\ ticket[u].status \in {"none", "available"} =>
                  bound[u] = {} /\ ticket[u].reservedBy = {} /\ \A h \in Handlers : ~Applying(h, u)
    BY DEF BindingInv, TicketsFit
  <2>2. PICK o \in OpenIds \cup {NoUser} : Owns(u, o)
    BY DEF BindingInv, TicketsFit
  <2>3. Owns(u, o)'
    BY <1>1, <2>2 DEF Owns
  <2> QED BY <1>1, <2>1, <2>3
<1> QED BY <1>2 DEF TicketsFit, Applying

\* A ticket is created or expires.
LEMMA TicketHolds ==
  ASSUME BindingInv, NEW u \in Users, CreateBindingTicket(u) \/ TicketExpires(u)
  PROVE  BindingInv'
<1>0. BindingRows /\ TicketsFit /\ ticket[u] \in TicketRow
  BY DEF BindingInv, BindingRows
<1>1. UNCHANGED <<binding, callbacks, claims, handlers, applied, bound, callbackFailures>>
  BY DEF CreateBindingTicket, TicketExpires
<1>2. PICK status \in {"available", "expired"} :
        /\ ticket' = [ticket EXCEPT ![u] = Ticket(status)]
        /\ status = "available" => ticket[u].status = "none"
  BY DEF CreateBindingTicket, TicketExpires
<1>3. Ticket(status) \in TicketRow /\ Ticket(status).status = status /\ Ticket(status).reservedBy = {}
  BY DEF Ticket, TicketRow
<1>4. /\ ticket' \in [Users -> TicketRow] /\ ticket'[u] = Ticket(status)
      /\ \A v \in Users \ {u} : ticket'[v] = ticket[v]
  BY <1>0, <1>2, <1>3 DEF BindingRows
<1>5. BindingRows'
  BY <1>0, <1>1, <1>4 DEF BindingRows
<1>6. FollowersFit' /\ AnswersFit'
  BY <1>1, FollowersStay DEF BindingInv, AnswersFit, DoneIsApplied
<1>7. ASSUME NEW v \in Users
      PROVE  /\ ticket'[v].status \in {"none", "available"} =>
                  bound'[v] = {} /\ ticket'[v].reservedBy = {} /\ \A h \in Handlers : ~Applying(h, v)'
             /\ \E o \in OpenIds \cup {NoUser} : Owns(v, o)'
  <2>0. PICK o \in OpenIds \cup {NoUser} : Owns(v, o)
    BY <1>0 DEF TicketsFit
  <2>1. \A h \in Handlers : Applying(h, v)' <=> Applying(h, v)
    BY <1>1 DEF Applying
  <2>2. Owns(v, o)'
    BY <1>1, <1>3, <1>4, <2>0, <2>1 DEF Owns
  <2>3. CASE v = u
    BY <1>0, <1>1, <1>2, <1>3, <1>4, <2>1, <2>2, <2>3 DEF TicketsFit
  <2>4. CASE v # u
    BY <1>0, <1>1, <1>4, <2>1, <2>2, <2>4 DEF TicketsFit
  <2> QED BY <2>3, <2>4
<1>8. TicketsFit'
  BY <1>7 DEF TicketsFit, Applying
<1> QED BY <1>5, <1>6, <1>8 DEF BindingInv

\* A user unbinds; what the followers said stays.
LEMMA UnbindHolds ==
  ASSUME BindingInv, NEW u \in Users, Unbind(u)
  PROVE  BindingInv'
<1>0. BindingRows /\ FollowersFit
  BY DEF BindingInv
<1>1. UNCHANGED <<ticket, callbacks, claims, handlers, applied, bound, callbackFailures>>
      /\ binding' = [o \in OpenIds |-> IF binding[o].user = u THEN [binding[o] EXCEPT !.user = NoUser]
                                       ELSE binding[o]]
  BY DEF Unbind
<1>2. ASSUME NEW o \in OpenIds
      PROVE  /\ binding'[o] \in FollowerRow /\ binding'[o].known = binding[o].known
             /\ binding'[o].subscribed = binding[o].subscribed
             /\ binding'[o].subscribedAt = binding[o].subscribedAt
             /\ binding'[o].unsubscribedAt = binding[o].unsubscribedAt
  <2>1. binding[o] \in FollowerRow
    BY <1>0 DEF BindingRows
  <2> DEFINE new == [binding[o] EXCEPT !.user = NoUser]
  <2>2. /\ new \in FollowerRow /\ new.known = binding[o].known /\ new.subscribed = binding[o].subscribed
        /\ new.subscribedAt = binding[o].subscribedAt /\ new.unsubscribedAt = binding[o].unsubscribedAt
    BY <2>1 DEF FollowerRow
  <2>3. binding'[o] \in {new, binding[o]}
    BY <1>1
  <2> QED BY <2>1, <2>2, <2>3, Zenon
<1>3. binding' \in [OpenIds -> FollowerRow]
  BY <1>1, <1>2
<1>4. BindingRows'
  BY <1>0, <1>1, <1>3 DEF BindingRows
<1>5. ASSUME NEW o \in OpenIds PROVE RowTells(binding'[o], OfFollower(o))
  <2>1. Latest(binding'[o]) = Latest(binding[o])
    BY <1>2 DEF Latest
  <2>2. RowTells(binding[o], OfFollower(o))
    BY <1>0 DEF FollowersFit
  <2> QED BY <1>2, <2>1, <2>2 DEF RowTells
<1>6. FollowersFit'
  BY <1>1, <1>5, Zenon DEF FollowersFit, OfFollower
<1>7. TicketsFit' /\ AnswersFit'
  BY <1>1, TicketsStay DEF BindingInv, AnswersFit, DoneIsApplied
<1> QED BY <1>4, <1>6, <1>7 DEF BindingInv

\* A callback is delivered, or delivered again.
LEMMA SendHolds ==
  ASSUME BindingInv, NEW m \in Callback, SendCallback(m)
  PROVE  BindingInv'
<1>0. BindingRows /\ AnswersFit
  BY DEF BindingInv
<1>1. /\ UNCHANGED <<binding, ticket, handlers, applied, bound, callbackFailures>>
      /\ callbacks' = callbacks \cup {m}
      /\ claims' = [k \in callbacks' |-> IF k = m THEN "none" ELSE claims[k]]
  BY DEF SendCallback
<1>2. BindingRows'
  BY <1>0, <1>1 DEF BindingRows
<1>3. FollowersFit' /\ TicketsFit'
  BY <1>1, FollowersStay, TicketsStay
<1>4. AnswersFit'
  BY <1>0, <1>1 DEF AnswersFit, DoneIsApplied
<1> QED BY <1>2, <1>3, <1>4 DEF BindingInv

\* A handler claims a callback.
LEMMA ProcessHolds ==
  ASSUME BindingInv, NEW h \in Handlers, NEW m \in callbacks, ProcessIncoming(h, m)
  PROVE  BindingInv'
<1>0. BindingRows /\ AnswersFit /\ m \in Callback /\ h \notin {"none", "done"}
  BY BindingAssumption DEF BindingInv, BindingRows
<1> DEFINE phase == IF m.kind = "text" THEN "ticket" ELSE "apply"
           new == [phase |-> phase, message |-> m]
<1>1. /\ UNCHANGED <<binding, ticket, callbacks, applied, bound, callbackFailures>>
      /\ claims' = [claims EXCEPT ![m] = h] /\ handlers' = [handlers EXCEPT ![h] = new]
  BY DEF ProcessIncoming
<1>2. new \in HandlerRow /\ new.phase = phase /\ new.message = m
  BY <1>0 DEF HandlerRow
<1>3. phase \in {"ticket", "apply"} /\ (phase = "apply" => m.kind # "text")
      /\ (phase = "ticket" => m.kind = "text")
  OBVIOUS
<1> HIDE DEF new, phase
<1>4. /\ handlers' \in [Handlers -> HandlerRow] /\ handlers'[h] = new
      /\ \A x \in Handlers \ {h} : handlers'[x] = handlers[x]
  BY <1>0, <1>1, <1>2 DEF BindingRows
<1>5. DOMAIN claims' = callbacks' /\ \A k \in callbacks' : claims'[k] = "done" => claims[k] = "done"
  BY <1>0, <1>1 DEF BindingRows
<1>6. BindingRows'
  BY <1>0, <1>1, <1>2, <1>4, <1>5 DEF BindingRows
<1>7. FollowersFit' /\ TicketsFit'
  <2>1. \A x \in Handlers : handlers'[x] = handlers[x] \/ handlers'[x].phase # "apply"
                             \/ handlers'[x].message.kind # "text"
    BY <1>2, <1>3, <1>4
  <2> QED BY <1>1, <2>1, FollowersStay, TicketsStay
<1>8. AnswersFit'
  BY <1>0, <1>1, <1>2, <1>3, <1>4, <1>5 DEF AnswersFit, DoneIsApplied
<1> QED BY <1>6, <1>7, <1>8 DEF BindingInv

\* The ticket is reserved for a follower, or refused.
LEMMA ConsumeTicketHolds ==
  ASSUME BindingInv, NEW h \in Handlers, ConsumeBindingTicket(h)
  PROVE  BindingInv'
<1>0. BindingRows /\ AnswersFit /\ TicketsFit /\ handlers[h].phase = "ticket"
  BY DEF BindingInv, ConsumeBindingTicket
<1>1. UNCHANGED <<binding, callbacks, claims, applied, bound, callbackFailures>>
  BY DEF ConsumeBindingTicket
<1>2. PICK m \in Callback : m = handlers[h].message
  BY <1>0, HandlerParts
<1>3. FollowersFit'
  BY <1>1, FollowersStay
<1>4. m.kind = "text" /\ m.user \in Users
  BY <1>0, <1>2, CallbackParts DEF AnswersFit
<1>5. CASE ticket' = ticket /\ Advance(h, "complete")
  <2>1. /\ handlers' \in [Handlers -> HandlerRow]
        /\ handlers'[h] # NoHandler /\ handlers'[h].phase = "complete" /\ handlers'[h].message = m
        /\ \A x \in Handlers \ {h} : handlers'[x] = handlers[x]
    BY <1>0, <1>2, <1>5, AdvanceParts
  <2>2. BindingRows'
    BY <1>0, <1>1, <1>2, <1>5, <2>1, HandlerParts DEF BindingRows
  <2>3. TicketsFit'
    <3>1. \A x \in Handlers : handlers'[x] = handlers[x] \/ handlers'[x].phase # "apply"
      BY <2>1
    <3> QED BY <1>1, <1>5, <3>1, TicketsStay
  <2>4. AnswersFit'
    BY <1>0, <1>1, <1>4, <2>1 DEF AnswersFit, DoneIsApplied
  <2> QED BY <1>3, <2>2, <2>3, <2>4 DEF BindingInv
<1>6. CASE /\ ticket[m.user].status = "available" \/ m \in ticket[m.user].reservedBy
           /\ ticket' = [ticket EXCEPT ![m.user] = [status |-> "reserved", reservedBy |-> {m}]]
           /\ Advance(h, "apply")
  <2> DEFINE mine == [status |-> "reserved", reservedBy |-> {m}]
             u == m.user
  <2>0. mine \in TicketRow /\ mine.status = "reserved" /\ mine.reservedBy = {m}
    BY DEF TicketRow
  <2> HIDE DEF mine
  <2>1. /\ handlers' \in [Handlers -> HandlerRow]
        /\ handlers'[h] # NoHandler /\ handlers'[h].phase = "apply" /\ handlers'[h].message = m
        /\ \A x \in Handlers \ {h} : handlers'[x] = handlers[x]
    BY <1>0, <1>2, <1>6, AdvanceParts
  <2>2. /\ ticket' \in [Users -> TicketRow] /\ ticket'[u] = mine
        /\ \A v \in Users \ {u} : ticket'[v] = ticket[v]
    BY <1>0, <1>4, <1>6, <2>0 DEF BindingRows, mine
  <2>3. BindingRows'
    BY <1>0, <1>1, <1>2, <2>1, <2>2, HandlerParts DEF BindingRows
  <2>4. AnswersFit'
    BY <1>0, <1>1, <2>1 DEF AnswersFit, DoneIsApplied
  <2>5. \A x \in Handlers \ {h}, v \in Users : Applying(x, v)' <=> Applying(x, v)
    BY <2>1 DEF Applying
  <2>6. \A v \in Users : Applying(h, v)' => v = u
    BY <2>1 DEF Applying
  <2>7. ASSUME NEW v \in Users
        PROVE  /\ ticket'[v].status \in {"none", "available"} =>
                    bound'[v] = {} /\ ticket'[v].reservedBy = {} /\ \A x \in Handlers : ~Applying(x, v)'
               /\ \E o \in OpenIds \cup {NoUser} : Owns(v, o)'
    <3>1. CASE v # u
      <4>1. PICK o \in OpenIds \cup {NoUser} : Owns(v, o)
        BY <1>0 DEF TicketsFit
      <4>2. \A x \in Handlers : Applying(x, v)' => Applying(x, v) /\ handlers'[x] = handlers[x]
        BY <2>1, <2>5, <2>6, <3>1
      <4>3. ticket'[v] = ticket[v] /\ bound' = bound
        BY <1>1, <2>2, <3>1
      <4>4. Owns(v, o)'
        BY <4>1, <4>2, <4>3 DEF Owns
      <4> QED BY <1>0, <4>2, <4>3, <4>4 DEF TicketsFit
    <3>2. CASE v = u /\ ticket[u].status = "available"
      <4>1. bound[u] = {} /\ \A x \in Handlers : ~Applying(x, u)
        BY <1>0, <1>4, <3>2 DEF TicketsFit
      <4>2. \A x \in Handlers : Applying(x, u)' => handlers'[x].message = m
        BY <1>4, <2>1, <2>5, <4>1
      <4>3. Owns(u, m.from)'
        BY <1>1, <2>0, <2>2, <4>1, <4>2 DEF Owns
      <4> QED BY <2>0, <2>2, <3>2, <4>3, CallbackParts
    <3>3. CASE v = u /\ m \in ticket[u].reservedBy
      <4>1. PICK o \in OpenIds \cup {NoUser} : Owns(u, o)
        BY <1>0, <1>4 DEF TicketsFit
      <4>2. m.from = o
        BY <3>3, <4>1 DEF Owns
      <4>3. \A x \in Handlers : Applying(x, u)' => handlers'[x].message.from = o
        BY <1>4, <2>1, <2>5, <4>1, <4>2 DEF Owns
      <4>4. Owns(u, o)'
        BY <1>1, <2>0, <2>2, <4>1, <4>2, <4>3 DEF Owns
      <4> QED BY <2>0, <2>2, <3>3, <4>4
    <3> QED BY <1>6, <3>1, <3>2, <3>3
  <2>8. TicketsFit'
    BY <2>7 DEF TicketsFit, Applying
  <2> QED BY <1>3, <2>3, <2>4, <2>8 DEF BindingInv
<1> QED BY <1>2, <1>5, <1>6 DEF ConsumeBindingTicket

\* A subscription, or its end, is applied.
LEMMA SetSubscriptionHolds ==
  ASSUME BindingInv, NEW h \in Handlers, SetSubscription(h)
  PROVE  BindingInv'
<1>0. BindingRows /\ AnswersFit /\ FollowersFit /\ handlers[h].phase = "apply"
  BY DEF BindingInv, SetSubscription
<1>1. UNCHANGED <<ticket, callbacks, claims, bound, callbackFailures>>
  BY DEF SetSubscription
<1>2. PICK m \in Callback : m = handlers[h].message /\ m \in callbacks
  BY <1>0, HandlerParts
<1>3. /\ m.kind # "text" /\ Advance(h, "complete") /\ applied' = applied \cup {m}
      /\ binding' = [binding EXCEPT ![m.from] = SubscriptionAfter(@, m)]
  BY <1>2 DEF SetSubscription
<1>4. /\ handlers' \in [Handlers -> HandlerRow]
      /\ handlers'[h] # NoHandler /\ handlers'[h].phase = "complete" /\ handlers'[h].message = m
      /\ \A x \in Handlers \ {h} : handlers'[x] = handlers[x]
  BY <1>0, <1>2, <1>3, AdvanceParts
<1>5. PICK o \in OpenIds : o = m.from
  BY CallbackParts
<1>6. /\ OfFollower(o) \in SUBSET Callback /\ binding[o] \in FollowerRow /\ RowTells(binding[o], OfFollower(o))
  BY <1>0 DEF BindingRows, FollowersFit, OfFollower
<1>7. /\ SubscriptionAfter(binding[o], m) \in FollowerRow
      /\ RowTells(SubscriptionAfter(binding[o], m), OfFollower(o) \cup {m})
  BY <1>3, <1>6, SubscriptionTells
<1>8. /\ binding' \in [OpenIds -> FollowerRow] /\ binding'[o] = SubscriptionAfter(binding[o], m)
      /\ \A x \in OpenIds \ {o} : binding'[x] = binding[x]
  BY <1>0, <1>3, <1>5, <1>7 DEF BindingRows
<1>9. /\ OfFollower(o)' = OfFollower(o) \cup {m}
      /\ \A x \in OpenIds \ {o} : OfFollower(x)' = OfFollower(x)
  BY <1>3, <1>5 DEF OfFollower
<1>10. FollowersFit'
  <2> SUFFICES ASSUME NEW x \in OpenIds PROVE RowTells(binding'[x], OfFollower(x)')
    BY DEF FollowersFit, OfFollower
  <2>1. CASE x = o
    BY <1>7, <1>8, <1>9, <2>1
  <2>2. CASE x # o
    BY <1>0, <1>8, <1>9, <2>2 DEF FollowersFit
  <2> QED BY <2>1, <2>2
<1>11. BindingRows'
  <2>1. applied' \subseteq Callback /\ \A x \in Handlers : handlers'[x] # NoHandler => handlers'[x].message \in callbacks'
    BY <1>0, <1>1, <1>2, <1>3, <1>4 DEF BindingRows
  <2> QED BY <1>0, <1>1, <1>4, <1>8, <2>1 DEF BindingRows
<1>12. TicketsFit'
  <2>1. \A x \in Handlers : handlers'[x] = handlers[x] \/ handlers'[x].phase # "apply"
    BY <1>4
  <2> QED BY <1>1, <2>1, TicketsStay
<1>13. AnswersFit'
  BY <1>0, <1>1, <1>3, <1>4 DEF AnswersFit, DoneIsApplied
<1> QED BY <1>10, <1>11, <1>12, <1>13 DEF BindingInv

\* The follower is bound, and the user's other followers are released.
LEMMA BindHolds ==
  ASSUME BindingInv, NEW h \in Handlers, Bind(h)
  PROVE  BindingInv'
<1>0. BindingRows /\ AnswersFit /\ FollowersFit /\ TicketsFit /\ handlers[h].phase = "apply"
  BY DEF BindingInv, Bind
<1>1. UNCHANGED <<ticket, callbacks, claims, callbackFailures>>
  BY DEF Bind
<1>2. PICK m \in Callback : m = handlers[h].message /\ m \in callbacks
  BY <1>0, HandlerParts
<1>3. m.kind = "text" /\ Advance(h, "complete") /\ m.user \in Users /\ m.from \in OpenIds
  BY <1>2, CallbackParts DEF Bind
<1>4. /\ handlers' \in [Handlers -> HandlerRow]
      /\ handlers'[h] # NoHandler /\ handlers'[h].phase = "complete" /\ handlers'[h].message = m
      /\ \A x \in Handlers \ {h} : handlers'[x] = handlers[x]
  BY <1>0, <1>2, <1>3, AdvanceParts
<1>5. PICK o \in OpenIds : o = m.from
  BY <1>3
<1>6. \A x \in Handlers, u \in Users : Applying(x, u)' => Applying(x, u) /\ handlers'[x] = handlers[x]
  BY <1>4 DEF Applying
<1>7. CASE UNCHANGED <<binding, applied, bound>>
  <2>1. BindingRows'
    BY <1>0, <1>1, <1>2, <1>4, <1>7 DEF BindingRows
  <2>2. FollowersFit'
    BY <1>7, FollowersStay
  <2>3. TicketsFit'
    <3>1. \A x \in Handlers : handlers'[x] = handlers[x] \/ handlers'[x].phase # "apply"
      BY <1>4
    <3> QED BY <1>1, <1>7, <3>1, TicketsStay
  <2>4. AnswersFit'
    BY <1>0, <1>1, <1>3, <1>4, <1>7 DEF AnswersFit, DoneIsApplied
  <2> QED BY <2>1, <2>2, <2>3, <2>4 DEF BindingInv
<1>8. CASE /\ binding' = [binding EXCEPT ![m.from] = BoundAfter(@, m)]
           /\ applied' = applied \cup {m}
           /\ bound' = [bound EXCEPT ![m.user] = @ \cup {m.from}]
  <2>1. /\ OfFollower(o) \in SUBSET Callback /\ binding[o] \in FollowerRow /\ RowTells(binding[o], OfFollower(o))
    BY <1>0 DEF BindingRows, FollowersFit, OfFollower
  <2>2. BoundAfter(binding[o], m) \in FollowerRow /\ RowTells(BoundAfter(binding[o], m), OfFollower(o) \cup {m})
    BY <1>3, <2>1, BoundTells
  <2>3. /\ binding' \in [OpenIds -> FollowerRow] /\ binding'[o] = BoundAfter(binding[o], m)
        /\ \A x \in OpenIds \ {o} : binding'[x] = binding[x]
    BY <1>0, <1>5, <1>8, <2>2 DEF BindingRows
  <2>4. /\ OfFollower(o)' = OfFollower(o) \cup {m}
        /\ \A x \in OpenIds \ {o} : OfFollower(x)' = OfFollower(x)
    BY <1>5, <1>8 DEF OfFollower
  <2>5. FollowersFit'
    <3> SUFFICES ASSUME NEW x \in OpenIds PROVE RowTells(binding'[x], OfFollower(x)')
      BY DEF FollowersFit, OfFollower
    <3>1. CASE x = o
      BY <2>2, <2>3, <2>4, <3>1
    <3>2. CASE x # o
      BY <1>0, <2>3, <2>4, <3>2 DEF FollowersFit
    <3> QED BY <3>1, <3>2
  <2>6. PICK u \in Users : u = m.user
    BY <1>3
  <2>7. /\ bound' \in [Users -> SUBSET OpenIds] /\ bound'[u] = bound[u] \cup {o}
        /\ \A v \in Users \ {u} : bound'[v] = bound[v]
    BY <1>0, <1>5, <1>8, <2>6 DEF BindingRows
  <2>8. BindingRows'
    <3>1. applied' \subseteq Callback
          /\ \A x \in Handlers : handlers'[x] # NoHandler => handlers'[x].message \in callbacks'
      BY <1>0, <1>1, <1>2, <1>4, <1>8 DEF BindingRows
    <3> QED BY <1>0, <1>1, <1>4, <2>3, <2>7, <3>1 DEF BindingRows
  <2>9. AnswersFit'
    BY <1>0, <1>1, <1>3, <1>4, <1>8 DEF AnswersFit, DoneIsApplied
  <2>10. Applying(h, u)
    BY <1>0, <1>2, <1>3, <2>6 DEF Applying
  <2>11. ASSUME NEW v \in Users
         PROVE  /\ ticket'[v].status \in {"none", "available"} =>
                     bound'[v] = {} /\ ticket'[v].reservedBy = {} /\ \A x \in Handlers : ~Applying(x, v)'
                /\ \E p \in OpenIds \cup {NoUser} : Owns(v, p)'
    <3>1. PICK p \in OpenIds \cup {NoUser} : Owns(v, p)
      BY <1>0 DEF TicketsFit
    <3>2. CASE v = u
      <4>1. p = o /\ ticket[v].status \notin {"none", "available"}
        BY <1>0, <1>2, <1>5, <2>10, <3>1, <3>2 DEF Owns, TicketsFit
      <4>2. Owns(v, p)'
        BY <1>1, <1>6, <2>7, <3>1, <3>2, <4>1 DEF Owns
      <4> QED BY <1>1, <4>1, <4>2
    <3>3. CASE v # u
      <4>1. bound'[v] = bound[v] /\ ticket' = ticket
        BY <1>1, <2>7, <3>3
      <4>2. Owns(v, p)'
        BY <1>6, <3>1, <4>1 DEF Owns
      <4> QED BY <1>0, <1>6, <4>1, <4>2 DEF TicketsFit
    <3> QED BY <3>2, <3>3
  <2>12. TicketsFit'
    BY <2>11 DEF TicketsFit, Applying
  <2> QED BY <2>5, <2>8, <2>9, <2>12 DEF BindingInv
<1> QED BY <1>2, <1>7, <1>8 DEF Bind

\* A request that is over leaves its claim behind, free, done or until its lease ends.
LEMMA ClaimHolds ==
  ASSUME BindingInv, UNCHANGED <<binding, ticket, callbacks, applied, bound>>,
         callbackFailures' \in 0..MaxFailures, DOMAIN claims' = DOMAIN claims,
         \A h \in Handlers : handlers'[h] \in {handlers[h], NoHandler}, handlers' \in [Handlers -> HandlerRow],
         \A k \in callbacks : claims'[k] = "done" /\ k.kind # "text" => k \in applied
  PROVE  BindingInv'
<1>0. BindingRows /\ AnswersFit /\ NoHandler.phase = "idle"
  BY DEF BindingInv, NoHandler
<1>1. BindingRows'
  BY <1>0 DEF BindingRows
<1>2. AnswersFit'
  BY <1>0 DEF AnswersFit, DoneIsApplied
<1>3. FollowersFit' /\ TicketsFit'
  BY <1>0, FollowersStay, TicketsStay
<1> QED BY <1>1, <1>2, <1>3 DEF BindingInv

\* A callback is marked as done.
LEMMA CompleteHolds ==
  ASSUME BindingInv, NEW h \in Handlers, CompleteEvent(h)
  PROVE  BindingInv'
<1>0. BindingRows /\ AnswersFit /\ handlers[h].phase = "complete" /\ NoHandler \in HandlerRow
  BY DEF BindingInv, CompleteEvent, HandlerRow
<1>1. PICK m \in callbacks : m = handlers[h].message
  BY <1>0, HandlerParts
<1>2. /\ claims' \in {claims, [claims EXCEPT ![m] = "done"]} /\ handlers' = [handlers EXCEPT ![h] = NoHandler]
      /\ UNCHANGED <<binding, ticket, callbacks, applied, bound>> /\ callbackFailures' \in 0..MaxFailures
  BY <1>0, <1>1 DEF CompleteEvent, BindingRows
<1>3. /\ handlers' \in [Handlers -> HandlerRow] /\ \A x \in Handlers : handlers'[x] \in {handlers[x], NoHandler}
  BY <1>0, <1>2 DEF BindingRows
<1>4. m.kind # "text" => m \in applied
  BY <1>0, <1>1 DEF AnswersFit
<1>5. DOMAIN claims' = DOMAIN claims /\ \A k \in callbacks : claims'[k] = "done" /\ k.kind # "text" => k \in applied
  BY <1>0, <1>2, <1>4 DEF AnswersFit, DoneIsApplied, BindingRows
<1> QED BY <1>2, <1>3, <1>5, ClaimHolds

\* A handler gives up, with its claim or without.
LEMMA ReleaseHolds ==
  ASSUME BindingInv, NEW h \in Handlers, NEW crashed \in BOOLEAN, ReleaseEvent(h, crashed)
  PROVE  BindingInv'
<1>0. BindingRows /\ AnswersFit /\ NoHandler \in HandlerRow /\ MaxFailures \in Nat
      /\ callbackFailures \in 0..MaxFailures
  BY BindingAssumption DEF BindingInv, BindingRows, HandlerRow
<1>1. /\ claims' \in {claims, [claims EXCEPT ![handlers[h].message] = "none"]}
      /\ handlers' = [handlers EXCEPT ![h] = NoHandler]
      /\ UNCHANGED <<binding, ticket, callbacks, applied, bound>>
      /\ callbackFailures' = callbackFailures + 1 /\ callbackFailures < MaxFailures
  BY DEF ReleaseEvent
<1>2. /\ handlers' \in [Handlers -> HandlerRow] /\ \A x \in Handlers : handlers'[x] \in {handlers[x], NoHandler}
  BY <1>0, <1>1 DEF BindingRows
<1>3. callbackFailures' \in 0..MaxFailures
  BY <1>0, <1>1
<1>4. DOMAIN claims' = DOMAIN claims /\ \A k \in callbacks : claims'[k] = "done" /\ k.kind # "text" => k \in applied
  BY <1>0, <1>1 DEF AnswersFit, DoneIsApplied, BindingRows
<1> QED BY <1>1, <1>2, <1>3, <1>4, ClaimHolds

\* A claim runs out.
LEMMA RunsOutHolds ==
  ASSUME BindingInv, NEW m \in callbacks, ClaimRunsOut(m)
  PROVE  BindingInv'
<1>0. BindingRows /\ AnswersFit /\ MaxFailures \in Nat /\ callbackFailures \in 0..MaxFailures
  BY BindingAssumption DEF BindingInv, BindingRows
<1>1. /\ claims' = [claims EXCEPT ![m] = "none"] /\ handlers' = handlers
      /\ UNCHANGED <<binding, ticket, callbacks, applied, bound>>
      /\ callbackFailures' = callbackFailures + 1 /\ callbackFailures < MaxFailures
  BY DEF ClaimRunsOut
<1>2. handlers' \in [Handlers -> HandlerRow]
  BY <1>0, <1>1 DEF BindingRows
<1>3. callbackFailures' \in 0..MaxFailures
  BY <1>0, <1>1
<1>4. DOMAIN claims' = DOMAIN claims /\ \A k \in callbacks : claims'[k] = "done" /\ k.kind # "text" => k \in applied
  BY <1>0, <1>1 DEF AnswersFit, DoneIsApplied, BindingRows
<1> QED BY <1>1, <1>2, <1>3, <1>4, ClaimHolds

-----------------------------------------------------------------------------
(* The whole.                                                               *)

\* No follower, no callback.
LEMMA BindingBegins == BindingInit => BindingInv
<1> SUFFICES ASSUME BindingInit PROVE BindingInv
  OBVIOUS
<1>0. /\ Follower \in FollowerRow /\ ~Follower.known /\ ~Follower.subscribed /\ Follower.subscribedAt = 0
      /\ Follower.unsubscribedAt = 0 /\ Ticket("none") \in TicketRow /\ Ticket("none").status = "none"
      /\ Ticket("none").reservedBy = {} /\ NoHandler \in HandlerRow /\ NoHandler.phase = "idle"
      /\ MaxFailures \in Nat
  BY BindingAssumption DEF Follower, FollowerRow, Ticket, TicketRow, NoHandler, HandlerRow
<1>1. /\ \A o \in OpenIds : binding[o] = Follower
      /\ \A u \in Users : ticket[u] = Ticket("none") /\ bound[u] = {}
      /\ \A h \in Handlers : handlers[h] = NoHandler
      /\ callbacks = {} /\ applied = {} /\ claims = <<>> /\ callbackFailures = 0
  BY DEF BindingInit
<1>2. BindingRows
  <2>1. /\ binding \in [OpenIds -> FollowerRow] /\ ticket \in [Users -> TicketRow]
        /\ handlers \in [Handlers -> HandlerRow] /\ bound \in [Users -> SUBSET OpenIds]
    BY <1>0 DEF BindingInit
  <2>2. DOMAIN claims = callbacks
    BY <1>1
  <2>3. callbackFailures \in 0..MaxFailures
    BY <1>0, <1>1
  <2> QED BY <1>1, <2>1, <2>2, <2>3 DEF BindingRows
<1>3. FollowersFit
  BY <1>0, <1>1 DEF FollowersFit, RowTells, OfFollower
<1>4. TicketsFit
  BY <1>0, <1>1, Zenon DEF TicketsFit, Applying, Owns
<1>5. AnswersFit
  BY <1>0, <1>1 DEF AnswersFit, DoneIsApplied
<1> QED BY <1>2, <1>3, <1>4, <1>5 DEF BindingInv

\* Every step of the account.
LEMMA BindingStep ==
  ASSUME BindingInv, [BindingNext]_bindingVars
  PROVE  BindingInv'
<1>1. CASE UNCHANGED bindingVars
  <2>1. /\ UNCHANGED <<binding, ticket, callbacks, applied, bound>> /\ UNCHANGED <<claims, handlers, callbackFailures>>
    BY <1>1 DEF bindingVars
  <2>2. BindingRows /\ AnswersFit
    BY DEF BindingInv
  <2>3. /\ callbackFailures' \in 0..MaxFailures /\ handlers' \in [Handlers -> HandlerRow]
        /\ \A k \in callbacks : claims'[k] = "done" /\ k.kind # "text" => k \in applied
    BY <2>1, <2>2 DEF BindingRows, AnswersFit, DoneIsApplied
  <2> QED BY <2>1, <2>3, ClaimHolds
<1>2. ASSUME NEW u \in Users, CreateBindingTicket(u) \/ TicketExpires(u) \/ Unbind(u) PROVE BindingInv'
  BY <1>2, TicketHolds, UnbindHolds
<1>3. ASSUME NEW m \in Callback, SendCallback(m) PROVE BindingInv'
  BY <1>3, SendHolds
<1>4. ASSUME NEW h \in Handlers, NEW m \in callbacks, ProcessIncoming(h, m) PROVE BindingInv'
  BY <1>4, ProcessHolds
<1>5. ASSUME NEW h \in Handlers,
             ConsumeBindingTicket(h) \/ SetSubscription(h) \/ Bind(h) \/ CompleteEvent(h)
      PROVE  BindingInv'
  BY <1>5, ConsumeTicketHolds, SetSubscriptionHolds, BindHolds, CompleteHolds
<1>6. ASSUME NEW h \in Handlers, NEW crashed \in BOOLEAN, ReleaseEvent(h, crashed) PROVE BindingInv'
  BY <1>6, ReleaseHolds
<1>7. ASSUME NEW m \in callbacks, ClaimRunsOut(m) PROVE BindingInv'
  BY <1>7, RunsOutHolds
<1> QED BY <1>1, <1>2, <1>3, <1>4, <1>5, <1>6, <1>7 DEF BindingNext

\* What the invariant says to the reader of a follower's row and to the owner of a ticket.
LEMMA BindingsAgree == BindingInv => BindingTypeOK /\ BindingsHold
<1> SUFFICES ASSUME BindingInv PROVE BindingTypeOK /\ BindingsHold
  OBVIOUS
<1>1. BindingTypeOK
  BY DEF BindingInv, BindingRows, FollowerRow, TicketRow, BindingTypeOK
<1>2. SubscriptionFollowsLatest
  <2> SUFFICES ASSUME NEW o \in OpenIds, OfFollower(o) # {}
               PROVE  binding[o].subscribed <=> \A m \in LatestOf(o) : m.kind # "unsubscribe"
    BY DEF SubscriptionFollowsLatest
  <2>1. /\ RowTells(binding[o], OfFollower(o)) /\ binding[o] \in FollowerRow
        /\ \A m \in OfFollower(o) : m.at \in Nat
    BY CallbackParts DEF BindingInv, BindingRows, FollowersFit, OfFollower
  <2>2. PICK t \in Nat : t = Latest(binding[o])
    BY <2>1, LatestIsMax
  <2>3. \A m \in OfFollower(o) : m \in LatestOf(o) <=> m.at = t
    <3>1. PICK last \in OfFollower(o) : last.at = t
      BY <2>1, <2>2 DEF RowTells
    <3>2. \A m \in OfFollower(o) : m.at <= t
      BY <2>1, <2>2 DEF RowTells
    <3>3. \A m \in OfFollower(o) : m \in LatestOf(o) => m.at = t
      BY <2>1, <2>2, <3>1, <3>2 DEF LatestOf
    <3>4. \A m \in OfFollower(o) : m.at = t => m \in LatestOf(o)
      BY <3>2 DEF LatestOf
    <3> QED BY <3>3, <3>4
  <2>4. LatestOf(o) \subseteq OfFollower(o)
    BY DEF LatestOf
  <2>5. binding[o].subscribed => \A m \in LatestOf(o) : m.kind # "unsubscribe"
    BY <2>1, <2>2, <2>3, <2>4 DEF RowTells
  <2>6. ~binding[o].subscribed => \E m \in LatestOf(o) : m.kind = "unsubscribe"
    BY <2>1, <2>2, <2>3 DEF RowTells
  <2>7. binding[o].subscribed \in BOOLEAN
    BY <2>1 DEF FollowerRow
  <2> QED BY <2>5, <2>6, <2>7
<1>3. TicketBindsOne
  <2>1. ASSUME NEW u \in Users PROVE Cardinality(bound[u]) <= 1
    <3>1. PICK o \in OpenIds \cup {NoUser} : bound[u] \subseteq {o}
      BY DEF BindingInv, TicketsFit, Owns
    <3>2. bound[u] = {} \/ bound[u] = {o}
      BY <3>1
    <3>3. Cardinality({}) = 0 /\ Cardinality({o}) = 1
      BY FS_EmptySet, FS_Singleton, Zenon
    <3> QED BY <3>2, <3>3
  <2> QED BY <2>1 DEF TicketBindsOne
<1>4. DoneIsApplied
  BY DEF BindingInv, AnswersFit
<1> QED BY <1>1, <1>2, <1>3, <1>4 DEF BindingsHold

\* A follower's row follows the latest callback, a ticket binds one follower, and an answer on
\* record had its effect: for any number of followers, users, callbacks and requests, in any
\* order, with lost requests and claims that run out (wechat/service.go, wechat_state_store.go).
THEOREM BindingsStay == BindingSpec => [](BindingTypeOK /\ BindingsHold)
<1>1. BindingInit => BindingInv
  BY BindingBegins
<1>2. BindingInv /\ [BindingNext]_bindingVars => BindingInv'
  BY BindingStep
<1> QED BY <1>1, <1>2, BindingsAgree, PTL DEF BindingSpec

-----------------------------------------------------------------------------
(* The reminders of a class (DailyReminders).                              *)

EventKinds == {"manual", "automatic", "low", "deleted"}
EventRow == [kind : EventKinds, day : Nat, content : Scheduled \cup {0}, count : Nat]
DutyRow == [status : {"none", "ready", "unavailable", "completed"},
            first : {"none", "correct", "incorrect"}, corrected : BOOLEAN]
Audience == Learners \cup {Teacher}
ClassRows ==
  /\ day \in Days /\ plan \in [Days -> Scheduled \cup {0}]
  /\ duty \in [Learners -> DutyRow] /\ members \subseteq Learners /\ roster \subseteq Learners
  /\ todo \in [Busy -> Seq({"manual", "automatic", "low"})]

\* The queue: a job is of an event, and an event is past or of today.
QueueRows ==
  /\ events \in Seq(EventRow) /\ \A e \in DOMAIN events : events[e].day <= day
  /\ IsFiniteSet(DOMAIN jobs) /\ DOMAIN jobs \subseteq (DOMAIN events) \X Audience
  /\ jobs = [k \in DOMAIN jobs |-> jobs[k]]

\* One alert at most; and who got the automatic reminder of the day has its job, which was sent.
SingleAlert == \A e, f \in Of("low") : e = f
SentBefore(s) == \E e \in OfToday("automatic") : <<e, s>> \in DOMAIN jobs /\ jobs[<<e, s>>] = "sent"
ReceivedOnce ==
  /\ received \in [Learners -> {0, 1}]
  /\ \A s \in Learners : received[s] = 1 => SentBefore(s)

\* Whoever has completed the day has a first result, and only a wrong one is corrected.
DutiesFit ==
  \A s \in Learners : /\ duty[s].status = "completed" <=> duty[s].first # "none"
                      /\ duty[s].corrected = TRUE => duty[s].first = "incorrect"

QueueInv == QueueRows /\ AutomaticYields /\ CountsHold /\ SingleAlert /\ ReceivedOnce
ReminderInv == ClassRows /\ DutiesFit /\ QueueInv

-----------------------------------------------------------------------------
\* Who is reminded is enrolled.
LEMMA RecipientsAreLearners ==
  ASSUME ClassRows PROVE Recipients \subseteq Learners /\ IsFiniteSet(Recipients)
<1>1. Recipients \subseteq Learners
  BY DEF Recipients, ClassRows
<1> QED BY <1>1, RemindersAssumption, FS_Subset

\* There are as many jobs of an event as recipients.
LEMMA PairsOf ==
  ASSUME NEW e, NEW S, IsFiniteSet(S)
  PROVE  LET P == {<<e, s>> : s \in S} IN IsFiniteSet(P) /\ Cardinality(P) = Cardinality(S)
<1> DEFINE P == {<<e, s>> : s \in S}
           f == [s \in S |-> <<e, s>>]
<1>1. f \in [S -> P] /\ \A s \in S : f[s] = <<e, s>>
  OBVIOUS
<1>2. \A a, b \in S : f[a] = f[b] => a = b
  BY <1>1
<1>3. \A p \in P : \E s \in S : f[s] = p
  BY <1>1
<1> HIDE DEF f
<1>4. f \in Bijection(S, P)
  BY <1>1, <1>2, <1>3 DEF Bijection, Injection, Surjection, IsInjective
<1>5. ExistsBijection(S, P)
  BY <1>4 DEF ExistsBijection
<1> QED BY <1>5, FS_Bijection

\* What a queue holds when jobs are asked for.
LEMMA QueuedHolds ==
  ASSUME QueueRows, NEW keys
  PROVE  /\ DOMAIN Queued(keys) = DOMAIN jobs \cup keys
         /\ \A k \in keys : Queued(keys)[k] = "pending"
         /\ \A k \in DOMAIN jobs : k \notin keys => Queued(keys)[k] = jobs[k]
         /\ Queued(keys) = [k \in DOMAIN Queued(keys) |-> Queued(keys)[k]]
BY DEF Queued

\* A deleted event keeps its place, its day and its count.
LEMMA DeletedRows ==
  ASSUME QueueRows, NEW ids
  PROVE  /\ Deleted(ids) \in Seq(EventRow) /\ DOMAIN Deleted(ids) = DOMAIN events
         /\ \A e \in DOMAIN events :
              /\ Deleted(ids)[e].day = events[e].day /\ Deleted(ids)[e].count = events[e].count
              /\ Deleted(ids)[e].kind = IF e \in ids THEN "deleted" ELSE events[e].kind
<1>1. events \in Seq(EventRow) /\ DOMAIN events = 1..Len(events) /\ Len(events) \in Nat
  BY DEF QueueRows
<1>2. \A e \in DOMAIN events : events[e] \in EventRow
  BY <1>1
<1>3. DOMAIN Deleted(ids) = DOMAIN events
  BY DEF Deleted
<1>4. ASSUME NEW e \in DOMAIN events
      PROVE  /\ Deleted(ids)[e] \in EventRow
             /\ Deleted(ids)[e].day = events[e].day /\ Deleted(ids)[e].count = events[e].count
             /\ Deleted(ids)[e].kind = IF e \in ids THEN "deleted" ELSE events[e].kind
  <2>1. Deleted(ids)[e] = IF e \in ids THEN [events[e] EXCEPT !.kind = "deleted"] ELSE events[e]
    BY DEF Deleted
  <2> QED BY <1>2, <2>1 DEF EventRow, EventKinds
<1>5. Deleted(ids) = [e \in 1..Len(events) |-> Deleted(ids)[e]]
  BY <1>1, Zenon DEF Deleted
<1>6. Deleted(ids) \in [1..Len(events) -> EventRow]
  BY <1>1, <1>3, <1>4, <1>5
<1>7. Deleted(ids) \in Seq(EventRow)
  BY <1>1, <1>6, SeqDef
<1> QED BY <1>3, <1>4, <1>7

\* A new event has a new place.
LEMMA AppendedRows ==
  ASSUME NEW s \in Seq(EventRow), NEW row \in EventRow
  PROVE  LET longer == Append(s, row) IN
         /\ longer \in Seq(EventRow) /\ DOMAIN longer = DOMAIN s \cup {Len(s) + 1}
         /\ longer[Len(s) + 1] = row /\ \A e \in DOMAIN s : longer[e] = s[e]
         /\ Len(s) + 1 \notin DOMAIN s /\ \A e \in DOMAIN s : e < Len(s) + 1
OBVIOUS

\* More recipients are counted.
LEMMA CountedRows ==
  ASSUME NEW s \in Seq(EventRow), NEW n \in DOMAIN s, NEW c \in Nat, NEW more,
         more = [s EXCEPT ![n].count = @ + c]
  PROVE  /\ more \in Seq(EventRow) /\ DOMAIN more = DOMAIN s
         /\ more[n].count = s[n].count + c
         /\ \A e \in DOMAIN s : /\ more[e].kind = s[e].kind /\ more[e].day = s[e].day
                                /\ e # n => more[e].count = s[e].count
<1>0. s[n] \in EventRow
  OBVIOUS
<1>1. s[n].count \in Nat /\ s[n].count + c \in Nat
  BY <1>0 DEF EventRow
<1>2. [s[n] EXCEPT !.count = @ + c] \in EventRow
  BY <1>0, <1>1, Zenon DEF EventRow
<1>3. more \in Seq(EventRow) /\ DOMAIN more = DOMAIN s
  BY <1>2
<1>4. more[n] = [s[n] EXCEPT !.count = @ + c] /\ \A e \in DOMAIN s : e # n => more[e] = s[e]
  OBVIOUS
<1>5. more[n].count = s[n].count + c /\ more[n].kind = s[n].kind /\ more[n].day = s[n].day
  BY <1>0, <1>1, <1>4, Zenon DEF EventRow
<1> QED BY <1>3, <1>4, <1>5

-----------------------------------------------------------------------------
(* The queue changes.                                                      *)

\* A queue whose alerts are perhaps deleted.
SameEvents(base) ==
  /\ base \in Seq(EventRow) /\ DOMAIN base = DOMAIN events
  /\ \A e \in DOMAIN events :
       /\ base[e].day = events[e].day /\ base[e].count = events[e].count
       /\ \/ base[e].kind = events[e].kind
          \/ events[e].kind = "low" /\ base[e].kind = "deleted"

\* An event is created with its jobs.
LEMMA EventAdded ==
  ASSUME QueueInv, ClassRows, NEW base, SameEvents(base), NEW row \in EventRow, NEW S, IsFiniteSet(S),
         S \subseteq Audience, S # {}, row.day = day, row.count = Cardinality(S), row.kind # "deleted",
         row.kind = "automatic" => OfToday("automatic") = {} /\ OfToday("manual") = {},
         row.kind = "low" => \A e \in DOMAIN events : base[e].kind # "low",
         \A s \in S : s = Teacher <=> row.kind = "low",
         events' = Append(base, row), jobs' = Queued({<<NextId, s>> : s \in S}),
         UNCHANGED <<day, received>>
  PROVE  QueueInv'
<1> DEFINE keys == {<<NextId, s>> : s \in S}
<1>1. /\ events \in Seq(EventRow) /\ DOMAIN events = 1..Len(events) /\ Len(events) \in Nat
      /\ Len(base) = Len(events) /\ day \in Nat
  BY RemindersAssumption DEF QueueInv, QueueRows, SameEvents, ClassRows, Days
<1>2. PICK n \in Nat : n = Len(events) + 1 /\ n = Len(base) + 1
  BY <1>1
<1>3. /\ events' \in Seq(EventRow) /\ DOMAIN events' = DOMAIN events \cup {n}
      /\ events'[n] = row /\ \A e \in DOMAIN events : events'[e] = base[e]
      /\ n \notin DOMAIN events /\ \A e \in DOMAIN events : e < n
  <2>1. base \in Seq(EventRow) /\ DOMAIN base = DOMAIN events
    BY DEF SameEvents
  <2> QED BY <1>2, <2>1, AppendedRows
<1>4. /\ keys = {<<n, s>> : s \in S} /\ IsFiniteSet(keys) /\ Cardinality(keys) = Cardinality(S)
  <2>1. keys = {<<n, s>> : s \in S}
    BY <1>2, Zenon DEF NextId
  <2>2. IsFiniteSet({<<n, s>> : s \in S}) /\ Cardinality({<<n, s>> : s \in S}) = Cardinality(S)
    BY PairsOf, ZenonT(30)
  <2> HIDE DEF keys
  <2> QED BY <2>1, <2>2, Zenon
<1>k. keys # {} /\ \A k \in keys : k[1] = n /\ k[2] \in S
  <2>1. \A s \in S : <<n, s>> \in keys
    BY <1>4, Zenon
  <2>2. ASSUME NEW k \in keys PROVE \E s \in S : k = <<n, s>>
    BY <1>4
  <2> HIDE DEF keys
  <2>3. \A k \in keys : k[1] = n /\ k[2] \in S
    BY <2>2
  <2> QED BY <2>1, <2>3, Zenon
<1>5. QueueRows
  BY DEF QueueInv
<1> HIDE DEF keys
<1>6. /\ DOMAIN jobs' = DOMAIN jobs \cup keys /\ \A k \in keys : jobs'[k] = "pending"
      /\ \A k \in DOMAIN jobs : k \notin keys => jobs'[k] = jobs[k]
      /\ jobs' = [k \in DOMAIN jobs' |-> jobs'[k]]
  <2>1. jobs' = Queued(keys)
    BY DEF keys
  <2>2. /\ DOMAIN Queued(keys) = DOMAIN jobs \cup keys /\ \A k \in keys : Queued(keys)[k] = "pending"
        /\ \A k \in DOMAIN jobs : k \notin keys => Queued(keys)[k] = jobs[k]
        /\ Queued(keys) = [k \in DOMAIN Queued(keys) |-> Queued(keys)[k]]
    BY <1>5, QueuedHolds, Zenon
  <2> QED BY <2>1, <2>2, Zenon
<1>7. DOMAIN jobs \subseteq (DOMAIN events) \X Audience /\ IsFiniteSet(DOMAIN jobs)
  BY DEF QueueInv, QueueRows
<1>8. \A k \in DOMAIN jobs : k[1] \in DOMAIN events /\ k \notin keys
  BY <1>3, <1>4, <1>7
<1>9. \A e \in DOMAIN events : {k \in DOMAIN jobs' : k[1] = e} = {k \in DOMAIN jobs : k[1] = e}
  BY <1>3, <1>k, <1>6, Zenon
<1>10. {k \in DOMAIN jobs' : k[1] = n} = keys
  BY <1>3, <1>k, <1>6, <1>8, Zenon
<1>11. \A k \in DOMAIN jobs : jobs'[k] = jobs[k]
  BY <1>6, <1>8
<1>12. QueueRows'
  <2>1. \A e \in DOMAIN events : e \in DOMAIN events /\ events[e].day <= day /\ base[e].day = events[e].day
    BY DEF QueueInv, QueueRows, SameEvents
  <2>2. \A e \in DOMAIN events' : events'[e].day <= day'
    BY <1>1, <1>3, <2>1
  <2>5. IsFiniteSet(DOMAIN jobs \cup keys)
    BY <1>4, <1>7, FS_Union, Zenon
  <2>3. IsFiniteSet(DOMAIN jobs')
    BY <1>6, <2>5
  <2>6. keys \subseteq (DOMAIN events') \X Audience
    BY <1>3, <1>4
  <2>7. DOMAIN jobs \subseteq (DOMAIN events') \X Audience
    BY <1>3, <1>7
  <2>4. DOMAIN jobs' \subseteq (DOMAIN events') \X Audience
    BY <1>6, <2>6, <2>7, Zenon
  <2> QED BY <1>3, <1>6, <2>2, <2>3, <2>4 DEF QueueRows
<1>13. AutomaticYields'
  <2>1. \A e \in DOMAIN events : /\ base[e].day = events[e].day
                                 /\ base[e].kind # events[e].kind => base[e].kind = "deleted"
    BY DEF SameEvents
  <2>2. \A e, f \in DOMAIN events : events[e].day = events[f].day /\ events[e].kind = "automatic" =>
          /\ events[f].kind = "automatic" => e = f
          /\ events[f].kind = "manual" => e < f
    BY DEF QueueInv, AutomaticYields, Of, Standing
  <2>3. row.kind = "automatic" =>
          \A e \in DOMAIN events : events[e].day = day => events[e].kind \notin {"automatic", "manual"}
    BY DEF OfToday, Of, Standing
  <2>5. /\ \A e \in DOMAIN events : /\ events'[e].day = events[e].day
                                    /\ events'[e].kind = events[e].kind \/ events'[e].kind = "deleted"
        /\ events'[n].day = day /\ events'[n].kind = row.kind
    <3>1. events'[n].day = day /\ events'[n].kind = row.kind
      BY <1>3
    <3>2. ASSUME NEW e \in DOMAIN events
          PROVE  /\ events'[e].day = events[e].day
                 /\ events'[e].kind = events[e].kind \/ events'[e].kind = "deleted"
      <4>1. events'[e] = base[e]
        BY <1>3
      <4>2. base[e].day = events[e].day /\ (base[e].kind # events[e].kind => base[e].kind = "deleted")
        BY <2>1, Zenon
      <4>3. events'[e].day = base[e].day /\ events'[e].kind = base[e].kind
        BY <4>1, Zenon
      <4>4. base[e].kind = events[e].kind \/ base[e].kind = "deleted"
        BY <4>2, Zenon
      <4>5. events'[e].day = events[e].day
        BY <4>2, <4>3, Zenon
      <4> QED BY <4>3, <4>4, <4>5, Zenon
    <3> QED BY <3>1, <3>2, Zenon
  <2>6. \A e \in DOMAIN events : e # n /\ e < n
    BY <1>3
  <2>4. ASSUME NEW e \in DOMAIN events', NEW f \in DOMAIN events',
               events'[e].day = events'[f].day, events'[e].kind = "automatic"
        PROVE  /\ events'[f].kind = "automatic" => e = f
               /\ events'[f].kind = "manual" => e < f
    <3>1. CASE e \in DOMAIN events /\ f \in DOMAIN events
      BY <2>2, <2>4, <2>5, <3>1
    <3>2. CASE e = n
      BY <1>3, <2>3, <2>4, <2>5, <3>2
    <3>3. CASE e \in DOMAIN events /\ f = n
      BY <2>3, <2>4, <2>5, <2>6, <3>3
    <3> QED BY <1>3, <3>1, <3>2, <3>3
  <2> QED BY <2>4 DEF AutomaticYields, Of, Standing
<1>14. CountsHold'
  <2>1. ASSUME NEW e \in DOMAIN events, events'[e].kind # "deleted"
        PROVE  /\ {k \in DOMAIN jobs' : k[1] = e} # {}
               /\ events'[e].count >= Cardinality({k \in DOMAIN jobs' : k[1] = e})
               /\ events'[e].kind # "manual" \/ events'[e].count = Cardinality({k \in DOMAIN jobs' : k[1] = e})
               /\ \A k \in {k \in DOMAIN jobs' : k[1] = e} : (k[2] = Teacher) = (events'[e].kind = "low")
    <3>1. events'[e].kind = events[e].kind /\ events'[e].count = events[e].count
      BY <1>3, <2>1 DEF SameEvents
    <3>2. /\ JobsOf(e) # {} /\ events[e].count >= Cardinality(JobsOf(e))
          /\ events[e].kind # "manual" \/ events[e].count = Cardinality(JobsOf(e))
          /\ \A k \in JobsOf(e) : (k[2] = Teacher) = (events[e].kind = "low")
      BY <2>1, <3>1 DEF QueueInv, CountsHold, Standing
    <3>3. JobsOf(e) = {k \in DOMAIN jobs' : k[1] = e}
      BY <1>9 DEF JobsOf
    <3> QED BY <3>1, <3>2, <3>3, Zenon
  <2>2. /\ keys # {} /\ events'[n].count = Cardinality(keys)
        /\ events'[n].count >= Cardinality(keys)
        /\ \A k \in keys : (k[2] = Teacher) = (events'[n].kind = "low")
    <3>1. keys # {} /\ events'[n].count = Cardinality(keys)
      BY <1>3, <1>4, <1>k
    <3>2. row.count \in Nat
      BY DEF EventRow
    <3>3. \A k \in keys : k[2] \in S
      BY <1>k
    <3>4. \A k \in keys : k[2] = Teacher <=> row.kind = "low"
      BY <3>3
    <3> QED BY <1>3, <3>1, <3>2, <3>4
  <2>3. \A e \in DOMAIN events' : events'[e].kind # "deleted" =>
          /\ {k \in DOMAIN jobs' : k[1] = e} # {}
          /\ events'[e].count >= Cardinality({k \in DOMAIN jobs' : k[1] = e})
          /\ events'[e].kind # "manual" \/ events'[e].count = Cardinality({k \in DOMAIN jobs' : k[1] = e})
          /\ \A k \in {k \in DOMAIN jobs' : k[1] = e} : (k[2] = Teacher) = (events'[e].kind = "low")
    <3>1. \A e \in DOMAIN events' : e \in DOMAIN events \/ e = n
      BY <1>3
    <3> SUFFICES ASSUME NEW e \in DOMAIN events', events'[e].kind # "deleted"
                 PROVE  /\ {k \in DOMAIN jobs' : k[1] = e} # {}
                        /\ events'[e].count >= Cardinality({k \in DOMAIN jobs' : k[1] = e})
                        /\ events'[e].kind # "manual" \/ events'[e].count = Cardinality({k \in DOMAIN jobs' : k[1] = e})
                        /\ \A k \in {k \in DOMAIN jobs' : k[1] = e} : (k[2] = Teacher) = (events'[e].kind = "low")
      BY Zenon
    <3>2. CASE e \in DOMAIN events
      BY <2>1, <3>2, Zenon
    <3>3. CASE e = n
      BY <1>10, <2>2, <3>3, Zenon
    <3> QED BY <3>1, <3>2, <3>3, Zenon
  <2> QED BY <2>3, Zenon DEF CountsHold, Standing, JobsOf
<1>15. SingleAlert'
  BY <1>3 DEF QueueInv, SingleAlert, SameEvents, Of, Standing
<1>16. ReceivedOnce'
  <2>1. /\ received' \in [Learners -> {0, 1}] /\ \A s \in Learners : received'[s] = received[s]
        /\ \A s \in Learners : received[s] = 1 => SentBefore(s)
    BY DEF QueueInv, ReceivedOnce
  <2>2. ASSUME NEW s \in Learners, SentBefore(s) PROVE SentBefore(s)'
    <3>1. PICK e \in OfToday("automatic") : <<e, s>> \in DOMAIN jobs /\ jobs[<<e, s>>] = "sent"
      BY <2>2 DEF SentBefore
    <3>2. e \in DOMAIN events /\ events[e].kind = "automatic" /\ events[e].day = day
      BY DEF OfToday, Of, Standing
    <3>3. e \in DOMAIN events' /\ events'[e].kind = "automatic" /\ events'[e].day = day'
      BY <1>3, <3>2 DEF SameEvents
    <3>4. e \in OfToday("automatic")'
      BY <3>3 DEF OfToday, Of, Standing
    <3>5. <<e, s>> \in DOMAIN jobs' /\ jobs'[<<e, s>>] = "sent"
      BY <1>6, <1>11, <3>1
    <3> QED BY <3>4, <3>5, Zenon DEF SentBefore
  <2> QED BY <2>1, <2>2 DEF ReceivedOnce
<1> QED BY <1>12, <1>13, <1>14, <1>15, <1>16 DEF QueueInv

\* An event gets the jobs that it lacks.
LEMMA EventCounted ==
  ASSUME QueueInv, ClassRows, NEW base, SameEvents(base), NEW n \in DOMAIN events, NEW keys, IsFiniteSet(keys),
         base[n].kind \in {"automatic", "low"},
         \A k \in keys : /\ k[1] = n /\ k \in (DOMAIN events) \X Audience /\ Resettable(k)
                         /\ k[2] = Teacher <=> base[n].kind = "low",
         events' = [base EXCEPT ![n].count = @ + Cardinality(keys)], jobs' = Queued(keys),
         UNCHANGED <<day, received>>
  PROVE  QueueInv'
<1>1. /\ events \in Seq(EventRow) /\ day \in Nat
      /\ \A e \in DOMAIN events : events[e].day <= day
      /\ DOMAIN jobs \subseteq (DOMAIN events) \X Audience /\ IsFiniteSet(DOMAIN jobs)
  BY RemindersAssumption DEF QueueInv, QueueRows, ClassRows, Days
<1>2. Cardinality(keys) \in Nat
  BY FS_CardinalityType
<1>3. /\ base \in Seq(EventRow) /\ DOMAIN base = DOMAIN events
      /\ \A e \in DOMAIN events : base[e].day = events[e].day /\ base[e].count = events[e].count
      /\ \A e \in DOMAIN events : base[e].kind = events[e].kind
                                  \/ (events[e].kind = "low" /\ base[e].kind = "deleted")
  BY DEF SameEvents
<1>4. /\ events' \in Seq(EventRow) /\ DOMAIN events' = DOMAIN events
      /\ events'[n].count = base[n].count + Cardinality(keys)
      /\ \A e \in DOMAIN events : /\ events'[e].kind = base[e].kind /\ events'[e].day = base[e].day
                                  /\ e # n => events'[e].count = base[e].count
  <2>1. PICK c \in Nat : c = Cardinality(keys)
    BY <1>2
  <2>2. events' = [base EXCEPT ![n].count = @ + c] /\ n \in DOMAIN base
    BY <1>3, <2>1, Zenon
  <2>3. base \in Seq(EventRow)
    BY <1>3
  <2>4. PICK more : more = events'
    OBVIOUS
  <2>5. more = [base EXCEPT ![n].count = @ + c]
    BY <2>2, <2>4, Zenon
  <2>6. /\ more \in Seq(EventRow) /\ DOMAIN more = DOMAIN base
        /\ more[n].count = base[n].count + c
        /\ \A e \in DOMAIN base : /\ more[e].kind = base[e].kind /\ more[e].day = base[e].day
                                  /\ e # n => more[e].count = base[e].count
    <3>1. /\ more \in Seq(EventRow) /\ DOMAIN more = DOMAIN base
      BY <2>1, <2>2, <2>3, <2>5, CountedRows, Zenon
    <3>2. /\ more[n].count = base[n].count + c
      BY <2>1, <2>2, <2>3, <2>5, CountedRows
    <3>3. \A e \in DOMAIN base : more[e].kind = base[e].kind /\ more[e].day = base[e].day
      BY <2>1, <2>2, <2>3, <2>5, CountedRows
    <3>4. \A e \in DOMAIN base : e # n => more[e].count = base[e].count
      BY <2>1, <2>2, <2>3, <2>5, CountedRows
    <3> QED BY <3>1, <3>2, <3>3, <3>4
  <2> QED BY <1>3, <2>1, <2>4, <2>6, Zenon
<1>5. QueueRows
  BY DEF QueueInv
<1>6. /\ DOMAIN jobs' = DOMAIN jobs \cup keys
      /\ \A k \in DOMAIN jobs : k \notin keys => jobs'[k] = jobs[k]
      /\ jobs' = [k \in DOMAIN jobs' |-> jobs'[k]]
  <2>1. /\ DOMAIN Queued(keys) = DOMAIN jobs \cup keys
        /\ \A k \in DOMAIN jobs : k \notin keys => Queued(keys)[k] = jobs[k]
        /\ Queued(keys) = [k \in DOMAIN Queued(keys) |-> Queued(keys)[k]]
    BY <1>5, QueuedHolds, Zenon
  <2> QED BY <2>1, Zenon
<1>7. \A e \in DOMAIN events : /\ events'[e].day = events[e].day
                               /\ events'[e].kind \notin {events[e].kind, "deleted"} => FALSE
                               /\ events[e].kind # "low" => events'[e].kind = events[e].kind
  BY <1>3, <1>4
<1>8. QueueRows'
  <2>1. IsFiniteSet(DOMAIN jobs \cup keys)
    BY <1>1, FS_Union, Zenon
  <2>2. IsFiniteSet(DOMAIN jobs')
    BY <1>6, <2>1
  <2>3. DOMAIN jobs' \subseteq (DOMAIN events') \X Audience
    BY <1>1, <1>4, <1>6
  <2>4. \A e \in DOMAIN events' : events'[e].day <= day'
    BY <1>1, <1>4, <1>7
  <2> QED BY <1>4, <1>6, <2>2, <2>3, <2>4 DEF QueueRows
<1>9. AutomaticYields'
  <2>1. \A e, f \in DOMAIN events : events[e].day = events[f].day /\ events[e].kind = "automatic" =>
          /\ events[f].kind = "automatic" => e = f
          /\ events[f].kind = "manual" => e < f
    BY DEF QueueInv, AutomaticYields, Of, Standing
  <2>2. ASSUME NEW e \in DOMAIN events, NEW f \in DOMAIN events,
               events'[e].day = events'[f].day, events'[e].kind = "automatic"
        PROVE  /\ events'[f].kind = "automatic" => e = f
               /\ events'[f].kind = "manual" => e < f
    <3>1. events[e].day = events[f].day /\ events[e].kind = "automatic"
      BY <1>7, <2>2
    <3>2. events'[f].kind # "deleted" => events'[f].kind = events[f].kind
      BY <1>7
    <3> QED BY <2>1, <3>1, <3>2
  <2> QED BY <1>4, <2>2 DEF AutomaticYields, Of, Standing
<1>10. SingleAlert'
  BY <1>4, <1>7 DEF QueueInv, SingleAlert, Of, Standing
<1>11. CountsHold'
  <2> SUFFICES ASSUME NEW e \in DOMAIN events, events'[e].kind # "deleted"
               PROVE  /\ {k \in DOMAIN jobs' : k[1] = e} # {}
                      /\ events'[e].count >= Cardinality({k \in DOMAIN jobs' : k[1] = e})
                      /\ events'[e].kind # "manual" \/ events'[e].count = Cardinality({k \in DOMAIN jobs' : k[1] = e})
                      /\ \A k \in {k \in DOMAIN jobs' : k[1] = e} : (k[2] = Teacher) = (events'[e].kind = "low")
    BY <1>4, Zenon DEF CountsHold, Standing, JobsOf
  <2> DEFINE J == {k \in DOMAIN jobs' : k[1] = e}
  <2>1. events'[e].kind = events[e].kind
    BY <1>7
  <2>2. /\ JobsOf(e) # {} /\ events[e].count >= Cardinality(JobsOf(e))
        /\ events[e].kind # "manual" \/ events[e].count = Cardinality(JobsOf(e))
        /\ \A k \in JobsOf(e) : (k[2] = Teacher) = (events[e].kind = "low")
    BY <2>1 DEF QueueInv, CountsHold, Standing
  <2>3. CASE e # n
    <3>1. events'[e].count = events[e].count
      BY <1>3, <1>4, <2>3
    <3>2. J = JobsOf(e)
      BY <1>6, <2>3 DEF JobsOf
    <3> QED BY <2>1, <2>2, <3>1, <3>2, Zenon
  <2>4. CASE e = n
    <3>1. J = JobsOf(e) \cup keys
      BY <1>6, <2>4 DEF JobsOf
    <3>2. IsFiniteSet(JobsOf(e))
      BY <1>1, FS_Subset DEF JobsOf
    <3>3. /\ Cardinality(JobsOf(e) \cup keys)
               = Cardinality(JobsOf(e)) + Cardinality(keys) - Cardinality(JobsOf(e) \cap keys)
          /\ IsFiniteSet(JobsOf(e) \cap keys)
      BY <3>2, FS_Union, FS_Intersection, Zenon
    <3>4. Cardinality(JobsOf(e) \cap keys) \in Nat /\ Cardinality(JobsOf(e)) \in Nat
      BY <3>2, <3>3, FS_CardinalityType
    <3>5. events'[e].count = events[e].count + Cardinality(keys)
      BY <1>3, <1>4, <2>4
    <3>6. events[e] \in EventRow
      BY <1>1
    <3>7. PICK count \in Nat : events[e].count = count
      BY <3>6 DEF EventRow
    <3>8. PICK later \in Nat : events'[e].count = later /\ later = count + Cardinality(keys)
      BY <1>2, <3>5, <3>7
    <3>9. count >= Cardinality(JobsOf(e))
      BY <2>2, <3>7
    <3>10. later >= Cardinality(JobsOf(e) \cup keys)
      BY <1>2, <3>3, <3>4, <3>8, <3>9
    <3>11. events'[e].kind # "manual"
      BY <1>4, <2>4
    <3>12. \A k \in keys : (k[2] = Teacher) = (events'[e].kind = "low")
      BY <1>4, <2>4
    <3>13. J # {} /\ events'[e].count >= Cardinality(J)
      BY <2>2, <3>1, <3>8, <3>10, Zenon
    <3>14. \A k \in J : (k[2] = Teacher) = (events'[e].kind = "low")
      BY <2>1, <2>2, <3>1, <3>12, Zenon
    <3> QED BY <3>11, <3>13, <3>14, Zenon
  <2> QED BY <2>3, <2>4
<1>12. ReceivedOnce'
  <2>1. /\ received' \in [Learners -> {0, 1}] /\ \A s \in Learners : received'[s] = received[s]
        /\ \A s \in Learners : received[s] = 1 => SentBefore(s)
    BY DEF QueueInv, ReceivedOnce
  <2>2. ASSUME NEW s \in Learners, SentBefore(s) PROVE SentBefore(s)'
    <3>1. PICK e \in OfToday("automatic") : <<e, s>> \in DOMAIN jobs /\ jobs[<<e, s>>] = "sent"
      BY <2>2 DEF SentBefore
    <3>2. e \in DOMAIN events /\ events[e].kind = "automatic" /\ events[e].day = day
      BY DEF OfToday, Of, Standing
    <3>3. e \in OfToday("automatic")'
      BY <1>4, <1>7, <3>2 DEF OfToday, Of, Standing
    <3>4. <<e, s>> \notin keys
      BY <3>1 DEF Resettable
    <3>5. <<e, s>> \in DOMAIN jobs' /\ jobs'[<<e, s>>] = "sent"
      BY <1>6, <3>1, <3>4
    <3> QED BY <3>3, <3>5 DEF SentBefore
  <2> QED BY <2>1, <2>2 DEF ReceivedOnce
<1> QED BY <1>8, <1>9, <1>10, <1>11, <1>12 DEF QueueInv

\* Alerts are deleted, or nothing happens to the queue.
LEMMA EventsKept ==
  ASSUME QueueInv, ClassRows, SameEvents(events'), UNCHANGED <<jobs, day, received>>
  PROVE  QueueInv'
<1>1. /\ events' \in Seq(EventRow) /\ DOMAIN events' = DOMAIN events
      /\ \A e \in DOMAIN events : /\ events'[e].day = events[e].day /\ events'[e].count = events[e].count
                                  /\ events'[e].kind # "deleted" => events'[e].kind = events[e].kind
                                  /\ events[e].kind # "low" => events'[e].kind = events[e].kind
  BY DEF SameEvents
<1>2. QueueRows'
  BY <1>1 DEF QueueInv, QueueRows
<1>3. AutomaticYields' /\ SingleAlert'
  BY <1>1 DEF QueueInv, AutomaticYields, SingleAlert, Of, Standing
<1>4. CountsHold'
  <2> SUFFICES ASSUME NEW e \in DOMAIN events, events'[e].kind # "deleted"
               PROVE  /\ {k \in DOMAIN jobs' : k[1] = e} # {}
                      /\ events'[e].count >= Cardinality({k \in DOMAIN jobs' : k[1] = e})
                      /\ events'[e].kind # "manual" \/ events'[e].count = Cardinality({k \in DOMAIN jobs' : k[1] = e})
                      /\ \A k \in {k \in DOMAIN jobs' : k[1] = e} : (k[2] = Teacher) = (events'[e].kind = "low")
    BY <1>1, Zenon DEF CountsHold, Standing, JobsOf
  <2>1. events'[e].kind = events[e].kind /\ events'[e].count = events[e].count
    BY <1>1
  <2>2. /\ JobsOf(e) # {} /\ events[e].count >= Cardinality(JobsOf(e))
        /\ events[e].kind # "manual" \/ events[e].count = Cardinality(JobsOf(e))
        /\ \A k \in JobsOf(e) : (k[2] = Teacher) = (events[e].kind = "low")
    BY <2>1 DEF QueueInv, CountsHold, Standing
  <2>3. {k \in DOMAIN jobs' : k[1] = e} = JobsOf(e)
    BY DEF JobsOf
  <2> QED BY <2>1, <2>2, <2>3, Zenon
<1>5. ReceivedOnce'
  BY <1>1, Zenon DEF QueueInv, ReceivedOnce, SentBefore, OfToday, Of, Standing
<1> QED BY <1>2, <1>3, <1>4, <1>5 DEF QueueInv

-----------------------------------------------------------------------------
(* The tasks of the queue.                                                 *)

\* The same events, none of them deleted.
LEMMA NoEventIsDeleted == ASSUME QueueRows PROVE SameEvents(events)
BY DEF QueueRows, SameEvents

\* The same events, but for alerts.
LEMMA AlertsAreDeleted ==
  ASSUME QueueRows, NEW ids, ids \subseteq Of("low") PROVE SameEvents(Deleted(ids))
<1>1. /\ Deleted(ids) \in Seq(EventRow) /\ DOMAIN Deleted(ids) = DOMAIN events
      /\ \A e \in DOMAIN events :
           /\ Deleted(ids)[e].day = events[e].day /\ Deleted(ids)[e].count = events[e].count
           /\ Deleted(ids)[e].kind = IF e \in ids THEN "deleted" ELSE events[e].kind
  BY DeletedRows
<1>2. \A e \in ids : events[e].kind = "low"
  BY DEF Of
<1> QED BY <1>1, <1>2 DEF SameEvents

\* A reminder is created for whoever may be reminded.
LEMMA NewHolds ==
  ASSUME QueueInv, ClassRows, NEW kind \in {"manual", "automatic"}, CreateNew(kind),
         kind = "automatic" => OfToday("automatic") = {} /\ OfToday("manual") = {},
         UNCHANGED <<day, received>>
  PROVE  QueueInv'
<1>1. SameEvents(events)
  BY NoEventIsDeleted DEF QueueInv
<1>2. CASE Recipients = {}
  <2>1. UNCHANGED <<events, jobs>>
    BY <1>2 DEF CreateNew
  <2>2. SameEvents(events')
    BY <1>1, <2>1, Zenon
  <2> QED BY <2>1, <2>2, EventsKept
<1>3. CASE Recipients # {}
  <2>1. IsFiniteSet(Recipients) /\ Recipients \subseteq Learners
    BY RecipientsAreLearners
  <2>2. PICK row : row = [kind |-> kind, day |-> day, content |-> 0, count |-> Cardinality(Recipients)]
    BY Zenon
  <2>3. day \in Nat /\ Cardinality(Recipients) \in Nat
    BY <2>1, FS_CardinalityType, RemindersAssumption DEF ClassRows, Days
  <2>4. row \in EventRow
    BY <2>2, <2>3 DEF EventRow, EventKinds
  <2>5. row.kind = kind /\ row.day = day /\ row.count = Cardinality(Recipients)
    BY <2>2
  <2>6. events' = Append(events, row) /\ jobs' = Queued({<<NextId, s>> : s \in Recipients})
    BY <1>3, <2>2 DEF CreateNew, NewEvent
  <2>7. Recipients \subseteq Audience /\ \A s \in Recipients : s # Teacher
    BY <2>1, RemindersAssumption DEF Audience
  <2>8. kind # "low" /\ kind # "deleted"
    OBVIOUS
  <2>9. \A s \in Recipients : s = Teacher <=> row.kind = "low"
    BY <2>5, <2>7, <2>8
  <2> QED BY <1>1, <1>3, <2>1, <2>4, <2>5, <2>6, <2>7, <2>8, <2>9, EventAdded
<1> QED BY <1>2, <1>3

\* The automatic reminder is created or completed.
LEMMA AutomaticHolds ==
  ASSUME QueueInv, ClassRows, CreateAutomatic, UNCHANGED <<day, received>>
  PROVE  QueueInv'
<1>1. SameEvents(events)
  BY NoEventIsDeleted DEF QueueInv
<1>2. CASE OfToday("automatic") # {}
  <2>1. PICK e \in OfToday("automatic") : jobs' = Queued(Due(e)) /\ events' = Counting(e, Cardinality(Due(e)))
    BY <1>2 DEF CreateAutomatic
  <2>2. e \in DOMAIN events /\ events[e].kind = "automatic"
    BY <2>1 DEF OfToday, Of, Standing
  <2>3. {x \in Recipients : Resettable(<<e, x>>)} \subseteq Recipients /\ Recipients \subseteq Learners
        /\ IsFiniteSet(Recipients)
    BY RecipientsAreLearners
  <2>4. IsFiniteSet({x \in Recipients : Resettable(<<e, x>>)})
    BY <2>3, FS_Subset, Zenon
  <2>5. IsFiniteSet(Due(e))
    BY <2>4, PairsOf, Zenon DEF Due
  <2>6. ASSUME NEW k \in Due(e)
        PROVE  /\ k[1] = e /\ k \in (DOMAIN events) \X Audience /\ Resettable(k)
               /\ k[2] = Teacher <=> events[e].kind = "low"
    <3>1. PICK x \in Recipients : k = <<e, x>> /\ Resettable(<<e, x>>)
      BY <2>6, Zenon DEF Due
    <3>2. x \in Learners /\ x # Teacher /\ x \in Audience
      BY <2>3, <3>1, RemindersAssumption DEF Audience
    <3>3. k[1] = e /\ k[2] = x /\ Resettable(k) /\ k \in (DOMAIN events) \X Audience
      BY <2>2, <3>1, <3>2
    <3> QED BY <2>2, <3>2, <3>3
  <2>7. events' = [events EXCEPT ![e].count = @ + Cardinality(Due(e))]
    BY <2>1 DEF Counting
  <2>8. events[e].kind \in {"automatic", "low"}
    BY <2>2
  <2>9. PICK base : base = events
    OBVIOUS
  <2>10. /\ SameEvents(base) /\ base[e].kind \in {"automatic", "low"}
         /\ events' = [base EXCEPT ![e].count = @ + Cardinality(Due(e))]
    BY <1>1, <2>7, <2>8, <2>9, Zenon
  <2>11. \A k \in Due(e) : /\ k[1] = e /\ k \in (DOMAIN events) \X Audience /\ Resettable(k)
                           /\ k[2] = Teacher <=> base[e].kind = "low"
    BY <2>6, <2>9, Zenon
  <2> QED BY <2>1, <2>2, <2>5, <2>10, <2>11, EventCounted, Zenon
<1>3. CASE OfToday("automatic") = {} /\ OfToday("manual") # {}
  <2>1. UNCHANGED <<events, jobs>>
    BY <1>3 DEF CreateAutomatic
  <2>2. SameEvents(events')
    BY <1>1, <2>1, Zenon
  <2> QED BY <2>1, <2>2, EventsKept
<1>4. CASE OfToday("automatic") = {} /\ OfToday("manual") = {}
  <2>1. CreateNew("automatic")
    BY <1>4 DEF CreateAutomatic
  <2> QED BY <1>4, <2>1, NewHolds
<1> QED BY <1>2, <1>3, <1>4

\* The alert is created, or sent again.
LEMMA AlertHolds ==
  ASSUME QueueInv, ClassRows, NEW c \in Scheduled \cup {0}, Alert(c), UNCHANGED <<day, received>>
  PROVE  QueueInv'
<1> DEFINE others == {e \in Of("low") : events[e].content # c}
           same == Of("low") \ others
<1>1. SameEvents(Deleted(others))
  BY AlertsAreDeleted DEF QueueInv
<1>2. /\ DOMAIN Deleted(others) = DOMAIN events
      /\ \A e \in DOMAIN events :
           /\ Deleted(others)[e].day = events[e].day /\ Deleted(others)[e].count = events[e].count
           /\ Deleted(others)[e].kind = IF e \in others THEN "deleted" ELSE events[e].kind
  BY DeletedRows DEF QueueInv
<1>3. CASE same = {}
  <2>1. PICK row : row = [kind |-> "low", day |-> day, content |-> c, count |-> 1]
    BY Zenon
  <2>2. day \in Nat
    BY RemindersAssumption DEF ClassRows, Days
  <2>3. row \in EventRow /\ row.kind = "low" /\ row.day = day /\ row.count = 1
    BY <2>1, <2>2 DEF EventRow, EventKinds
  <2>4. events' = Append(Deleted(others), row) /\ jobs' = Queued({<<NextId, Teacher>>})
    BY <1>3, <2>1 DEF Alert
  <2>5. {<<NextId, Teacher>>} = {<<NextId, s>> : s \in {Teacher}}
    OBVIOUS
  <2>6. IsFiniteSet({Teacher}) /\ Cardinality({Teacher}) = 1 /\ {Teacher} \subseteq Audience
    BY FS_Singleton, Zenon DEF Audience
  <2>7. \A e \in DOMAIN events : Deleted(others)[e].kind # "low"
    <3>1. \A e \in DOMAIN events : events[e].kind = "low" => e \in others
      BY <1>3 DEF Of, Standing
    <3> QED BY <1>2, <3>1
  <2>8. jobs' = Queued({<<NextId, s>> : s \in {Teacher}})
    BY <2>4, <2>5, Zenon
  <2> HIDE DEF others
  <2>9. PICK base : base = Deleted(others)
    OBVIOUS
  <2>10. SameEvents(base) /\ events' = Append(base, row) /\ \A e \in DOMAIN events : base[e].kind # "low"
    BY <1>1, <2>4, <2>7, <2>9, Zenon
  <2>11. \A s \in {Teacher} : s = Teacher <=> row.kind = "low"
    BY <2>3
  <2> QED BY <2>3, <2>6, <2>8, <2>10, <2>11, EventAdded, Zenon
<1>4. CASE same # {}
  <2>1. PICK e \in same :
          LET again == {<<e, Teacher>>} \cap {k \in JobsOf(e) : Resettable(k)} IN
          /\ events' = [Deleted(others) EXCEPT ![e].count = @ + Cardinality(again)]
          /\ jobs' = Queued(again)
    BY <1>4, Zenon DEF Alert
  <2> DEFINE again == {<<e, Teacher>>} \cap {k \in JobsOf(e) : Resettable(k)}
  <2>2. e \in DOMAIN events /\ events[e].kind = "low" /\ e \notin others
    BY <2>1 DEF Of, Standing
  <2>3. IsFiniteSet(again)
    <3>1. again \in SUBSET {<<e, Teacher>>} /\ IsFiniteSet({<<e, Teacher>>})
      BY FS_Singleton, Zenon
    <3> QED BY <3>1, FS_Subset
  <2>4. PICK base : base = Deleted(others)
    BY Zenon
  <2>5. PICK keys : keys = again
    BY Zenon
  <2>6. \A k \in keys : k = <<e, Teacher>> /\ Resettable(k)
    BY <2>5
  <2>7. events' = [base EXCEPT ![e].count = @ + Cardinality(keys)] /\ jobs' = Queued(keys)
    BY <2>1, <2>4, <2>5, Zenon
  <2>8. SameEvents(base) /\ base[e].kind = "low" /\ IsFiniteSet(keys)
    BY <1>1, <1>2, <2>2, <2>3, <2>4, <2>5
  <2>9. \A k \in keys : /\ k[1] = e /\ k \in (DOMAIN events) \X Audience /\ Resettable(k)
                        /\ k[2] = Teacher <=> base[e].kind = "low"
    BY <2>2, <2>6, <2>8 DEF Audience
  <2>10. base[e].kind \in {"automatic", "low"}
    BY <2>8
  <2> HIDE DEF again, others
  <2> QED BY <2>2, <2>7, <2>8, <2>9, <2>10, EventCounted, Zenon
<1> QED BY <1>3, <1>4

\* The stock is checked.
LEMMA LowStockHolds ==
  ASSUME QueueInv, ClassRows, EnsureLowStock, UNCHANGED <<day, received>>
  PROVE  QueueInv'
<1>1. CASE settings.strategy # "uniform" \/ Cardinality(Remaining) # 1
  <2>1. events' = Deleted(Of("low")) /\ UNCHANGED jobs
    BY <1>1 DEF EnsureLowStock
  <2>2. SameEvents(Deleted(Of("low")))
    BY AlertsAreDeleted DEF QueueInv
  <2>3. SameEvents(events')
    BY <2>1, <2>2, Zenon
  <2> QED BY <2>1, <2>3, EventsKept
<1>2. CASE ~(settings.strategy # "uniform" \/ Cardinality(Remaining) # 1)
  <2>1. Alert(LastContent) /\ Cardinality(Remaining) = 1
    BY <1>2 DEF EnsureLowStock
  <2>2. Remaining \subseteq Days /\ IsFiniteSet(Days)
    BY RemindersAssumption, FS_Interval DEF Remaining, Days
  <2>3. IsFiniteSet(Remaining) /\ Remaining # {}
    BY <2>1, <2>2, FS_Subset, FS_EmptySet
  <2>4. (CHOOSE d \in Remaining : TRUE) \in Days
    BY <2>2, <2>3
  <2>5. LastContent \in Scheduled \cup {0}
    BY <2>4 DEF LastContent, ClassRows
  <2> QED BY <2>1, <2>5, AlertHolds
<1> QED BY <1>1, <1>2

\* A task of the queue is done, or fails.
LEMMA TaskHolds ==
  ASSUME ReminderInv, NEW p \in Busy, Do(p) PROVE ReminderInv'
<1>1. ClassRows /\ QueueInv /\ DutiesFit
  BY DEF ReminderInv
<1>2. UNCHANGED <<day, duty, members, roster, plan, received>>
  BY DEF Do
<1>3. todo[p] \in Seq({"manual", "automatic", "low"}) /\ todo[p] # <<>>
  BY <1>1 DEF ClassRows, Do
<1>4. Head(todo[p]) \in {"manual", "automatic", "low"} /\ Tail(todo[p]) \in Seq({"manual", "automatic", "low"})
  BY <1>3
<1>5. ClassRows' /\ DutiesFit'
  <2>1. todo' \in [Busy -> Seq({"manual", "automatic", "low"})]
    BY <1>1, <1>4 DEF ClassRows, Do
  <2> QED BY <1>1, <1>2, <2>1 DEF ClassRows, DutiesFit
<1>6. QueueInv'
  <2>1. CASE UNCHANGED <<events, jobs>>
    <3>1. SameEvents(events')
      BY <1>1, <2>1, NoEventIsDeleted DEF QueueInv
    <3> QED BY <1>1, <1>2, <2>1, <3>1, EventsKept
  <2>2. CASE Head(todo[p]) = "manual" /\ CreateManual
    <3>1. CreateNew("manual")
      BY <2>2 DEF CreateManual
    <3> QED BY <1>1, <1>2, <3>1, NewHolds
  <2>3. CASE Head(todo[p]) = "automatic" /\ CreateAutomatic
    BY <1>1, <1>2, <2>3, AutomaticHolds
  <2>4. CASE Head(todo[p]) = "low" /\ EnsureLowStock
    BY <1>1, <1>2, <2>4, LowStockHolds
  <2> QED BY <1>4, <2>1, <2>2, <2>3, <2>4, Zenon DEF Do
<1> QED BY <1>5, <1>6 DEF ReminderInv

\* A job is sent, skipped or given up.
LEMMA ReminderEnds ==
  ASSUME ReminderInv, NEW k \in DOMAIN jobs, Deliver(k[1], k[2]) PROVE ReminderInv'
<1>1. /\ ClassRows /\ DutiesFit /\ QueueRows /\ AutomaticYields /\ CountsHold /\ SingleAlert /\ ReceivedOnce
  BY DEF ReminderInv, QueueInv
<1>2. PICK e \in DOMAIN events, who \in Audience : k = <<e, who>>
  BY <1>1 DEF QueueRows
<1>3. UNCHANGED <<day, duty, members, roster, plan, todo, events>>
  BY DEF Deliver
<1>4. PICK result \in (IF Deliverable(e, who) THEN {"sent", "dead"} ELSE {"skipped"}) :
        /\ jobs[k] = "pending" /\ jobs' = [jobs EXCEPT ![k] = result]
        /\ received' = IF result = "sent" /\ events[e].kind = "automatic"
                        THEN [received EXCEPT ![who] = @ + 1] ELSE received
  BY <1>2, Zenon DEF Deliver
<1>5. /\ DOMAIN jobs' = DOMAIN jobs /\ jobs'[k] = result
      /\ \A j \in DOMAIN jobs : j # k => jobs'[j] = jobs[j]
      /\ jobs' = [j \in DOMAIN jobs' |-> jobs'[j]]
  BY <1>4, Zenon
<1>6. ClassRows' /\ DutiesFit'
  BY <1>1, <1>3 DEF ClassRows, DutiesFit
<1>7. QueueRows'
  BY <1>1, <1>3, <1>5 DEF QueueRows
<1>8. AutomaticYields' /\ SingleAlert'
  BY <1>1, <1>3 DEF AutomaticYields, SingleAlert, Of, Standing
<1>9. CountsHold'
  <2>1. \A f : {j \in DOMAIN jobs' : j[1] = f} = JobsOf(f)
    BY <1>5 DEF JobsOf
  <2>2. \A f : JobsOf(f)' = JobsOf(f)
    BY <2>1 DEF JobsOf
  <2>3. Standing' = Standing
    BY <1>3 DEF Standing
  <2> QED BY <1>1, <1>3, <2>2, <2>3 DEF CountsHold
<1>10. ReceivedOnce'
  <2>1. /\ received \in [Learners -> {0, 1}]
        /\ \A s \in Learners : received[s] = 1 => SentBefore(s)
    BY <1>1 DEF ReceivedOnce
  <2>2. \A f : f \in OfToday("automatic")' <=> f \in OfToday("automatic")
    BY <1>3 DEF OfToday, Of, Standing
  <2>3. ASSUME NEW s \in Learners, SentBefore(s) PROVE SentBefore(s)'
    <3>1. PICK f \in OfToday("automatic") : <<f, s>> \in DOMAIN jobs /\ jobs[<<f, s>>] = "sent"
      BY <2>3 DEF SentBefore
    <3>2. <<f, s>> # k
      BY <1>4, <3>1
    <3>3. <<f, s>> \in DOMAIN jobs' /\ jobs'[<<f, s>>] = "sent"
      BY <1>5, <3>1, <3>2
    <3> QED BY <2>2, <3>1, <3>3 DEF SentBefore
  <2>4. CASE result = "sent" /\ events[e].kind = "automatic"
    <3>1. Deliverable(e, who)
      BY <1>4, <2>4
    <3>2. events[e].day = day /\ who \in Recipients
      BY <2>4, <3>1 DEF Deliverable
    <3>3. e \in OfToday("automatic") /\ who \in Learners
      BY <1>1, <2>4, <3>2, RecipientsAreLearners DEF OfToday, Of, Standing
    <3>4. received[who] # 1
      <4> SUFFICES ASSUME received[who] = 1 PROVE FALSE
        OBVIOUS
      <4>1. PICK f \in OfToday("automatic") : <<f, who>> \in DOMAIN jobs /\ jobs[<<f, who>>] = "sent"
        BY <2>1, <3>3, Zenon DEF SentBefore
      <4>2. f = e
        BY <1>1, <3>3, <4>1 DEF AutomaticYields, OfToday
      <4> QED BY <1>2, <1>4, <4>1, <4>2
    <3>5. received' = [received EXCEPT ![who] = 1]
      <4>1. received[who] = 0
        BY <2>1, <3>3, <3>4
      <4>2. received' = [received EXCEPT ![who] = received[who] + 1]
        BY <1>4, <2>4, Zenon
      <4>3. received[who] + 1 = 1
        BY <4>1
      <4> QED BY <4>2, <4>3, Zenon
    <3>6. received' \in [Learners -> {0, 1}] /\ \A s \in Learners : s # who => received'[s] = received[s]
      BY <2>1, <3>5, Zenon
    <3>7. SentBefore(who)'
      <4>1. <<e, who>> \in DOMAIN jobs' /\ jobs'[<<e, who>>] = "sent"
        BY <1>2, <1>5, <2>4
      <4> QED BY <2>2, <3>3, <4>1 DEF SentBefore
    <3> QED BY <2>1, <2>3, <3>6, <3>7 DEF ReceivedOnce
  <2>5. CASE ~(result = "sent" /\ events[e].kind = "automatic")
    <3>1. received' = received
      BY <1>4, <2>5
    <3> QED BY <2>1, <2>3, <3>1 DEF ReceivedOnce
  <2> QED BY <2>4, <2>5
<1>11. QueueInv'
  BY <1>7, <1>8, <1>9, <1>10, Zenon DEF QueueInv
<1> QED BY <1>6, <1>11, Zenon DEF ReminderInv

\* A step beside the queue.
LEMMA QueueRests ==
  ASSUME ReminderInv, UNCHANGED <<events, jobs, day, received>> PROVE QueueInv'
<1>1. ClassRows /\ QueueInv /\ SameEvents(events)
  BY NoEventIsDeleted DEF ReminderInv, QueueInv
<1>2. SameEvents(events')
  BY <1>1, Zenon
<1> QED BY <1>1, <1>2, EventsKept

\* A new day begins.
LEMMA MidnightHolds == ASSUME ReminderInv, Midnight PROVE ReminderInv'
<1>1. /\ ClassRows /\ DutiesFit /\ QueueRows /\ AutomaticYields /\ CountsHold /\ SingleAlert /\ ReceivedOnce
  BY DEF ReminderInv, QueueInv
<1>2. day \in Nat /\ LastDay \in Nat /\ day < LastDay /\ day' = day + 1
  BY <1>1, RemindersAssumption DEF Midnight, ClassRows, Days
<1>3. ClassRows'
  <2>1. duty' \in [Learners -> DutyRow]
    BY DEF Midnight, Unprepared, DutyRow
  <2>2. day' \in Days
    BY <1>2 DEF Days
  <2>3. members' \subseteq Learners /\ roster' \subseteq Learners /\ UNCHANGED <<plan, todo>>
    BY <1>1 DEF ClassRows, Midnight
  <2> QED BY <1>1, <2>1, <2>2, <2>3 DEF ClassRows
<1>4. DutiesFit'
  BY DEF DutiesFit, Midnight, Unprepared
<1>5. QueueRows'
  <2>1. \A e \in DOMAIN events : events[e] \in EventRow /\ events[e].day <= day
    BY <1>1 DEF QueueRows
  <2>2. \A e \in DOMAIN events : events[e].day <= day'
    BY <1>2, <2>1 DEF EventRow
  <2> QED BY <1>1, <2>2 DEF QueueRows, Midnight
<1>6. AutomaticYields' /\ SingleAlert'
  BY <1>1 DEF AutomaticYields, SingleAlert, Of, Standing, Midnight
<1>7. CountsHold'
  <2>1. UNCHANGED <<events, jobs>>
    BY DEF Midnight
  <2>2. Standing' = Standing /\ \A e : JobsOf(e)' = JobsOf(e)
    BY <2>1 DEF Standing, JobsOf
  <2> QED BY <1>1, <2>1, <2>2 DEF CountsHold
<1>8. ReceivedOnce'
  BY DEF ReceivedOnce, Midnight
<1> QED BY <1>3, <1>4, <1>5, <1>6, <1>7, <1>8 DEF ReminderInv, QueueInv

\* What is asked for goes to the end of the list of tasks of an idle party.
LEMMA TasksAsked ==
  ASSUME ClassRows, NEW p \in Busy, NEW tasks \in Seq({"manual", "automatic", "low"}), Todo(p, tasks)
  PROVE  todo' \in [Busy -> Seq({"manual", "automatic", "low"})]
BY DEF ClassRows, Todo

\* Every step of the reminders.
LEMMA ReminderStep == ASSUME ReminderInv, [RemindersNext]_reminderVars PROVE ReminderInv'
<1>1. ClassRows /\ DutiesFit
  BY DEF ReminderInv
<1>2. ASSUME NEW strategy \in {"uniform", "personalized"}, NEW auto \in BOOLEAN, SetClassSettings(strategy, auto)
      PROVE  ReminderInv'
  <2>1. QueueInv'
    BY <1>2, QueueRests DEF SetClassSettings
  <2>2. /\ <<"automatic", "low">> \in Seq({"manual", "automatic", "low"})
        /\ <<"low">> \in Seq({"manual", "automatic", "low"})
    OBVIOUS
  <2>4. Todo("teacher", <<"automatic", "low">>) \/ Todo("teacher", <<"low">>)
    BY <1>2 DEF SetClassSettings
  <2>3. todo' \in [Busy -> Seq({"manual", "automatic", "low"})]
    BY <1>1, <2>2, <2>4, TasksAsked, Zenon DEF Busy
  <2> QED BY <1>1, <1>2, <2>1, <2>3 DEF SetClassSettings, ReminderInv, ClassRows, DutiesFit
<1>3. ASSUME SendClassReminder \/ ReadSchedule PROVE ReminderInv'
  <2>1. UNCHANGED <<day, duty, members, roster, plan, events, jobs, received>>
    BY <1>3 DEF SendClassReminder, ReadSchedule
  <2>2. QueueInv'
    BY <2>1, QueueRests
  <2>3. <<"manual">> \in Seq({"manual", "automatic", "low"}) /\ <<"low">> \in Seq({"manual", "automatic", "low"})
    OBVIOUS
  <2>4. todo' \in [Busy -> Seq({"manual", "automatic", "low"})]
    BY <1>1, <1>3, <2>3, TasksAsked, Zenon DEF SendClassReminder, ReadSchedule, Busy
  <2> QED BY <1>1, <2>1, <2>2, <2>4 DEF ReminderInv, ClassRows, DutiesFit
<1>4. ASSUME DispatchScheduledReminders PROVE ReminderInv'
  <2>1. UNCHANGED <<day, duty, members, roster, plan, events, jobs, received>>
    BY <1>4 DEF DispatchScheduledReminders
  <2>2. QueueInv'
    BY <2>1, QueueRests
  <2>3. PICK tasks \in Seq({"manual", "automatic", "low"}) : Todo("worker", tasks)
    <3>1. /\ <<"automatic">> \in Seq({"manual", "automatic", "low"}) /\ <<>> \in Seq({"manual", "automatic", "low"})
          /\ <<"low">> \in Seq({"manual", "automatic", "low"})
      OBVIOUS
    <3>2. PICK a \in Seq({"manual", "automatic", "low"}), b \in Seq({"manual", "automatic", "low"}) :
            Todo("worker", a \o b)
      BY <1>4, <3>1, Zenon DEF DispatchScheduledReminders
    <3>3. a \o b \in Seq({"manual", "automatic", "low"})
      BY <3>2
    <3> QED BY <3>2, <3>3, Zenon
  <2>4. todo' \in [Busy -> Seq({"manual", "automatic", "low"})]
    BY <1>1, <2>3, TasksAsked DEF Busy
  <2> QED BY <1>1, <2>1, <2>2, <2>4 DEF ReminderInv, ClassRows, DutiesFit
<1>5. ASSUME NEW d \in Days, NEW c \in Scheduled \cup {0}, ReplaceSchedule(d, c) PROVE ReminderInv'
  <2>1. UNCHANGED <<day, duty, members, roster, events, jobs, received>>
    BY <1>5 DEF ReplaceSchedule
  <2>2. QueueInv'
    BY <2>1, QueueRests
  <2>3. <<"low">> \in Seq({"manual", "automatic", "low"})
    OBVIOUS
  <2>4. todo' \in [Busy -> Seq({"manual", "automatic", "low"})]
    BY <1>1, <1>5, <2>3, TasksAsked, Zenon DEF ReplaceSchedule, Busy
  <2>5. plan' \in [Days -> Scheduled \cup {0}]
    BY <1>1, <1>5 DEF ReplaceSchedule, ClassRows
  <2> QED BY <1>1, <2>1, <2>2, <2>4, <2>5 DEF ReminderInv, ClassRows, DutiesFit
<1>6. ASSUME NEW s \in Learners, NEW status \in {"ready", "unavailable"}, Prepare(s, status) PROVE ReminderInv'
  <2>1. UNCHANGED <<day, members, roster, plan, events, jobs, received>>
    BY <1>6 DEF Prepare
  <2>2. QueueInv'
    BY <2>1, QueueRests
  <2>3. <<"low">> \in Seq({"manual", "automatic", "low"}) /\ <<>> \in Seq({"manual", "automatic", "low"})
    OBVIOUS
  <2>4. todo' \in [Busy -> Seq({"manual", "automatic", "low"})]
    BY <1>1, <1>6, <2>3, TasksAsked, Zenon DEF Prepare, Busy
  <2>5. duty \in [Learners -> DutyRow] /\ duty' = [duty EXCEPT ![s].status = status] /\ duty[s].status = "none"
    BY <1>1, <1>6 DEF ClassRows, Prepare
  <2>6. duty' \in [Learners -> DutyRow]
    BY <2>5 DEF DutyRow
  <2>7. DutiesFit'
    <3>1. /\ duty'[s].status = status /\ duty'[s].first = duty[s].first /\ duty'[s].corrected = duty[s].corrected
          /\ \A x \in Learners : x # s => duty'[x] = duty[x]
      BY <2>5 DEF DutyRow
    <3> QED BY <1>1, <2>5, <3>1 DEF DutiesFit
  <2> QED BY <1>1, <2>1, <2>2, <2>4, <2>6, <2>7 DEF ReminderInv, ClassRows
<1>7. ASSUME NEW s \in Learners, NEW correct \in BOOLEAN, AnswerToday(s, correct) PROVE ReminderInv'
  <2>1. UNCHANGED <<day, members, roster, plan, events, jobs, received, todo>>
    BY <1>7 DEF AnswerToday
  <2>2. QueueInv'
    BY <2>1, QueueRests
  <2>3. duty \in [Learners -> DutyRow] /\ duty[s] \in DutyRow
    BY <1>1 DEF ClassRows
  <2>4. PICK row \in DutyRow : /\ duty' = [duty EXCEPT ![s] = row]
                               /\ row.status = "completed" /\ row.first # "none"
                               /\ row.corrected = TRUE => row.first = "incorrect"
    <3>1. CASE duty[s].status = "ready"
      <4>1. PICK row : row = [status |-> "completed", corrected |-> FALSE,
                              first |-> IF correct THEN "correct" ELSE "incorrect"]
        BY Zenon
      <4>2. duty' = [duty EXCEPT ![s] = row]
        BY <1>7, <3>1, <4>1 DEF AnswerToday
      <4>3. row \in DutyRow /\ row.status = "completed" /\ row.first # "none" /\ row.corrected = FALSE
        BY <4>1 DEF DutyRow
      <4> QED BY <4>2, <4>3, Zenon
    <3>2. CASE duty[s].status # "ready"
      <4>1. PICK row : row = [duty[s] EXCEPT !.corrected = TRUE]
        BY Zenon
      <4>2. duty' = [duty EXCEPT ![s] = row] /\ duty[s].status = "completed" /\ duty[s].first = "incorrect"
        BY <1>7, <3>2, <4>1 DEF AnswerToday
      <4>3. row \in DutyRow /\ row.status = duty[s].status /\ row.first = duty[s].first
        BY <2>3, <4>1, Zenon DEF DutyRow
      <4> QED BY <4>2, <4>3, Zenon
    <3> QED BY <3>1, <3>2, Zenon
  <2>5. /\ duty' \in [Learners -> DutyRow] /\ duty'[s] = row
        /\ \A x \in Learners : x # s => duty'[x] = duty[x]
    BY <2>3, <2>4
  <2>6. DutiesFit'
    BY <1>1, <2>4, <2>5 DEF DutiesFit
  <2> QED BY <1>1, <2>1, <2>2, <2>5, <2>6 DEF ReminderInv, ClassRows
<1>8. ASSUME NEW s \in Learners, Enrolment(s) PROVE ReminderInv'
  <2>1. UNCHANGED <<day, duty, roster, plan, todo, events, jobs, received>> /\ members' \subseteq Learners
    BY <1>1, <1>8 DEF Enrolment, ClassRows
  <2>2. QueueInv'
    BY <2>1, QueueRests
  <2> QED BY <1>1, <2>1, <2>2 DEF ReminderInv, ClassRows, DutiesFit
<1>9. ASSUME UNCHANGED <<day, duty, members, roster, plan, todo, events, jobs, received>> PROVE ReminderInv'
  <2>1. QueueInv'
    BY <1>9, QueueRests
  <2> QED BY <1>1, <1>9, <2>1 DEF ReminderInv, ClassRows, DutiesFit
<1>10. ASSUME NEW c \in Scheduled, Withdraw(c) PROVE ReminderInv'
  BY <1>9, <1>10 DEF Withdraw
<1>11. CASE UNCHANGED reminderVars
  BY <1>9, <1>11 DEF reminderVars
<1>12. CASE RemindersNext
  <2>1. ASSUME NEW s \in Learners, Enrolment(s) \/ Prepare(s, "ready") \/ Prepare(s, "unavailable")
                                   \/ AnswerToday(s, TRUE) \/ AnswerToday(s, FALSE)
        PROVE  ReminderInv'
    BY <1>6, <1>7, <1>8, <2>1
  <2>2. CASE \E d \in Days, c \in Scheduled \cup {0} : ReplaceSchedule(d, c)
    BY <1>5, <2>2
  <2>3. CASE \E p \in Busy : Do(p)
    BY <2>3, TaskHolds
  <2>4. CASE \E k \in DOMAIN jobs : Deliver(k[1], k[2])
    BY <2>4, ReminderEnds
  <2>5. CASE \E strategy \in {"uniform", "personalized"}, auto \in BOOLEAN : SetClassSettings(strategy, auto)
    BY <1>2, <2>5
  <2>6. CASE SendClassReminder \/ ReadSchedule
    BY <1>3, <2>6
  <2>7. CASE DispatchScheduledReminders
    BY <1>4, <2>7
  <2>8. CASE Midnight
    BY <2>8, MidnightHolds
  <2>9. CASE \E c \in Scheduled : Withdraw(c)
    BY <1>10, <2>9
  <2> QED BY <1>12, <2>1, <2>2, <2>3, <2>4, <2>5, <2>6, <2>7, <2>8, <2>9, Zenon DEF RemindersNext
<1> QED BY <1>11, <1>12

\* No event, no job.
LEMMA RemindersBegin == RemindersInit => ReminderInv
<1> SUFFICES ASSUME RemindersInit PROVE ReminderInv
  OBVIOUS
<1>1. LastDay \in Nat /\ 0 \in Days
  BY RemindersAssumption DEF Days
<1>2. events = <<>> /\ jobs = <<>> /\ DOMAIN events = {} /\ DOMAIN jobs = {}
  BY DEF RemindersInit
<1>3. <<>> \in Seq(EventRow) /\ <<>> \in Seq({"manual", "automatic", "low"})
  OBVIOUS
<1>4. plan \in [Days -> Scheduled \cup {0}]
  BY RemindersAssumption DEF RemindersInit
<1>5. duty \in [Learners -> DutyRow] /\ \A s \in Learners : duty[s] = Unprepared
  BY DEF RemindersInit, Unprepared, DutyRow
<1>6. ClassRows
  BY <1>1, <1>3, <1>4, <1>5 DEF ClassRows, RemindersInit
<1>7. DutiesFit
  BY <1>5 DEF DutiesFit, Unprepared
<1>8. QueueRows
  <2>1. IsFiniteSet(DOMAIN jobs)
    BY <1>2, FS_EmptySet
  <2>2. jobs = [k \in DOMAIN jobs |-> jobs[k]]
    BY DEF RemindersInit
  <2> QED BY <1>2, <1>3, <2>1, <2>2 DEF QueueRows
<1>9. Standing = {} /\ \A kind : Of(kind) = {}
  BY <1>2 DEF Standing, Of
<1>10. AutomaticYields /\ CountsHold /\ SingleAlert
  BY <1>9 DEF AutomaticYields, CountsHold, SingleAlert
<1>11. ReceivedOnce
  BY DEF ReceivedOnce, RemindersInit
<1> QED BY <1>6, <1>7, <1>8, <1>10, <1>11 DEF ReminderInv, QueueInv

-----------------------------------------------------------------------------
(* What the invariant says.                                                *)

\* Whoever counts, counts finite sets of rows.
LEMMA CountedSets ==
  ASSUME ClassRows
  PROVE  /\ IsFiniteSet(roster \cup Assigned) /\ Assigned \subseteq Learners
         /\ roster \cup Assigned \subseteq Learners
<1>1. roster \cup Assigned \subseteq Learners /\ Assigned \subseteq Learners
  BY DEF ClassRows, Assigned
<1> QED BY <1>1, RemindersAssumption, FS_Subset

\* The figures of a day add up.
LEMMA StatisticsFollow == ASSUME ClassRows, DutiesFit PROVE StatisticsAgree
<1> DEFINE everyone == roster \cup Assigned
           completed == {s \in everyone : duty[s].status = "completed"}
           right == {s \in everyone : duty[s].first = "correct"}
           wrong == {s \in everyone : duty[s].first = "incorrect"}
           corrected == {s \in everyone : duty[s].corrected}
           given == {s \in everyone : duty[s].status # "none"}
<1>1. everyone \subseteq Learners /\ IsFiniteSet(everyone) /\ Assigned \subseteq Learners
  BY CountedSets
<1>2. \A s \in everyone : duty[s] \in DutyRow
  BY <1>1 DEF ClassRows
<1>3. \A s \in everyone : /\ duty[s].status = "completed" <=> duty[s].first # "none"
                          /\ duty[s].corrected = TRUE => duty[s].first = "incorrect"
  BY <1>1 DEF DutiesFit
<1>4. completed = right \cup wrong /\ right \cap wrong = {}
  BY <1>2, <1>3 DEF DutyRow
<1>5. IsFiniteSet(right) /\ IsFiniteSet(wrong)
  BY <1>1, FS_Subset
<1>6. Cardinality(completed) = Cardinality(right) + Cardinality(wrong)
  <2> HIDE DEF completed, right, wrong
  <2>1. Cardinality(right \cup wrong) = Cardinality(right) + Cardinality(wrong) - Cardinality(right \cap wrong)
    BY <1>5, FS_Union
  <2>2. Cardinality(right \cap wrong) = 0 /\ Cardinality(right) \in Nat /\ Cardinality(wrong) \in Nat
    BY <1>4, <1>5, FS_EmptySet, FS_CardinalityType
  <2> QED BY <1>4, <2>1, <2>2
<1>7. corrected \in SUBSET wrong
  BY <1>2, <1>3 DEF DutyRow
<1>8. Cardinality(corrected) <= Cardinality(wrong)
  <2> HIDE DEF corrected, wrong
  <2> QED BY <1>5, <1>7, FS_Subset
<1>9. given = Assigned
  BY <1>1 DEF Assigned
<1>10. /\ Counted(IsCompleted) = Cardinality(completed) /\ Counted(FirstCorrect) = Cardinality(right)
       /\ Counted(FirstIncorrect) = Cardinality(wrong) /\ Counted(IsCorrected) = Cardinality(corrected)
       /\ Counted(IsAssigned) = Cardinality(given)
  BY DEF Counted, IsCompleted, FirstCorrect, FirstIncorrect, IsCorrected, IsAssigned
<1> HIDE DEF completed, right, wrong, corrected, given, everyone
<1> QED BY <1>6, <1>8, <1>9, <1>10, Zenon DEF StatisticsAgree

\* What the invariant says of reminders, alert and figures.
LEMMA RemindersAgree == ReminderInv => RemindersHold
<1> SUFFICES ASSUME ReminderInv PROVE RemindersHold
  OBVIOUS
<1>1. ClassRows /\ DutiesFit /\ QueueRows /\ AutomaticYields /\ CountsHold /\ SingleAlert /\ ReceivedOnce
  BY DEF ReminderInv, QueueInv
<1>2. RemindedOnce
  BY <1>1 DEF RemindedOnce, ReceivedOnce
<1>3. OneAlert
  <2>1. CASE Of("low") = {}
    BY <2>1, FS_EmptySet DEF OneAlert
  <2>2. CASE Of("low") # {}
    <3>1. PICK e : Of("low") = {e}
      BY <1>1, <2>2, Zenon DEF SingleAlert
    <3>2. Cardinality({e}) = 1
      BY FS_Singleton
    <3> QED BY <3>1, <3>2 DEF OneAlert
  <2> QED BY <2>1, <2>2
<1>4. StatisticsAgree
  BY <1>1, StatisticsFollow
<1> QED BY <1>1, <1>2, <1>3, <1>4 DEF RemindersHold

\* A student is reminded once a day, by the worker or by the teacher; what the teacher sees of
\* the reminders, of the alert and of the day's figures adds up (service.go and
\* reminder_worker.go of dailyquestion, daily_question_repository.go).
THEOREM RemindersStay == RemindersSpec => []RemindersHold
<1>1. ReminderInv /\ [RemindersNext]_reminderVars => ReminderInv'
  BY ReminderStep
<1> QED BY <1>1, RemindersBegin, RemindersAgree, PTL DEF RemindersSpec

-----------------------------------------------------------------------------
(* The storage and its switch.                                             *)

Backends == {"none"} \cup {f.backend : f \in Forms}
Buckets == {""} \cup {f.bucket : f \in Forms}
Privacies == {FALSE} \cup {f.private : f \in Forms}
Credentials == {""} \cup {f.credential : f \in Forms}
SettingsRow == [backend : Backends, bucket : Buckets, private : Privacies, credential : Credentials, edition : Nat]
TaskRow == [phase : {"idle", "probing", "saving", "activating", "staging", "storing", "writing",
                     "refreshing", "refreshed", "read"},
            config : SettingsRow, key : {0} \cup StorageKeys, since : Nat]
StorageRows ==
  /\ storageSettings \in SettingsRow /\ serving \in [api : SettingsRow, worker : SettingsRow]
  /\ locks \in [api : {Unlocked} \cup StorageTasks, worker : {Unlocked} \cup StorageTasks]
  /\ storageTasks \in [StorageTasks -> TaskRow] /\ commitUnheard \in BOOLEAN

\* An update holds the API's lock and works on the next edition of what is stored; the lock is
\* held by nothing else, and while no update is to be activated the API serves what is stored.
Updating(t) == storageTasks[t].phase \in {"probing", "saving", "activating"}
UpdatesFit ==
  /\ \A t \in StorageTasks :
       /\ Updating(t) => locks.api = t
       /\ At(t, "probing") \/ At(t, "saving") =>
            /\ storageTasks[t].config.edition = storageSettings.edition + 1
            /\ ~commitUnheard => serving.api = storageSettings
       /\ At(t, "saving") => BackendAnswers(storageTasks[t].config)
       /\ At(t, "activating") => storageTasks[t].config = storageSettings
  /\ ServedIsStored /\ StoredWasProbed

\* A document under way is written where it is reserved.
Reservation(t) == Object(storageTasks[t].key, Place(storageTasks[t].config), TRUE, TRUE)
UploadsFit ==
  /\ \A t \in StorageTasks :
       /\ At(t, "staging") \/ At(t, "storing") => PrivateDocumentBackend(storageTasks[t].config)
       /\ At(t, "storing") => Reservation(t) \in reserved
  /\ DocumentsLieWhereReserved

\* Only one job refreshes the worker's state at a time, and to nothing older than what the jobs
\* that have refreshed it count on.
JobsFit ==
  /\ \A t \in StorageTasks :
       /\ At(t, "refreshing") => locks.worker = t /\ storageTasks[t].config.edition = storageTasks[t].since
       /\ storageTasks[t].since <= storageSettings.edition
       /\ At(t, "refreshed") => serving.worker.edition >= storageTasks[t].since
  /\ \A t \in StorageTasks, u \in StorageTasks :
       At(t, "refreshing") /\ At(u, "refreshed") => storageTasks[t].config.edition >= storageTasks[u].since
  /\ ReadsAreFresh

StorageInv == StorageRows /\ UpdatesFit /\ UploadsFit /\ JobsFit

\* A task at rest.
LEMMA NoTaskIsARow == Unconfigured \in SettingsRow /\ NoTask \in TaskRow
<1>1. Unconfigured \in SettingsRow
  BY DEF Unconfigured, SettingsRow, Backends, Buckets, Privacies, Credentials
<1> QED BY <1>1 DEF NoTask, TaskRow

\* What a step of one task makes of the table.
LEMMA TaskParts ==
  ASSUME StorageRows, NEW t \in StorageTasks, NEW task \in TaskRow, TaskIs(t, task)
  PROVE  /\ storageTasks' \in [StorageTasks -> TaskRow] /\ storageTasks'[t] = task
         /\ \A u \in StorageTasks \ {t} : storageTasks'[u] = storageTasks[u]
BY DEF StorageRows, TaskIs

\* A task in its next phase.
Phases == {"idle", "probing", "saving", "activating", "staging", "storing", "writing",
           "refreshing", "refreshed", "read"}
\* The task keeps its configuration, its key and its edition.
LEMMA EntersParts ==
  ASSUME StorageRows, NEW t \in StorageTasks, NEW from, NEW phase \in Phases, Enters(t, from, phase)
  PROVE  \E task \in TaskRow :
            /\ TaskIs(t, task) /\ task.phase = phase /\ task.config = storageTasks[t].config
            /\ task.key = storageTasks[t].key /\ task.since = storageTasks[t].since
<1> DEFINE new == [storageTasks[t] EXCEPT !.phase = phase]
<1>1. storageTasks[t] \in TaskRow /\ TaskIs(t, new)
  BY DEF StorageRows, Enters
<1>2. /\ new \in TaskRow /\ new.phase = phase /\ new.config = storageTasks[t].config
      /\ new.key = storageTasks[t].key /\ new.since = storageTasks[t].since
  BY <1>1 DEF TaskRow, Phases
<1> HIDE DEF new
<1> QED BY <1>1, <1>2

\* A job reads with what the worker serves.
LEMMA ReadsParts ==
  ASSUME StorageRows, NEW t \in StorageTasks, Reads(t)
  PROVE  \E task \in TaskRow :
            /\ TaskIs(t, task) /\ task.phase = "read" /\ task.config = serving.worker
            /\ task.since = storageTasks[t].since
<1> DEFINE new == [storageTasks[t] EXCEPT !.phase = "read", !.config = serving.worker]
<1>1. storageTasks[t] \in TaskRow /\ TaskIs(t, new) /\ serving.worker \in SettingsRow
  BY DEF StorageRows, Reads
<1>2. /\ new \in TaskRow /\ new.phase = "read" /\ new.config = serving.worker
      /\ new.since = storageTasks[t].since
  BY <1>1, Zenon DEF TaskRow
<1> HIDE DEF new
<1> QED BY <1>1, <1>2

(* A task begins: an update, an upload of a document or another object, a refresh. *)
LEMMA NewUpdateParts ==
  ASSUME NEW t \in StorageTasks, NEW config \in SettingsRow,
         TaskIs(t, [NoTask EXCEPT !.phase = "probing", !.config = config])
  PROVE  \E task \in TaskRow : TaskIs(t, task) /\ task.phase = "probing" /\ task.config = config /\ task.since = 0
<1> DEFINE none == NoTask
<1>1. none \in TaskRow /\ none.since = 0
  BY NoTaskIsARow DEF NoTask
<1>2. TaskIs(t, [none EXCEPT !.phase = "probing", !.config = config])
  OBVIOUS
<1> HIDE DEF none
<1> DEFINE new == [none EXCEPT !.phase = "probing", !.config = config]
<1>3. new \in TaskRow /\ new.phase = "probing" /\ new.config = config /\ new.since = 0
  BY <1>1, Zenon DEF TaskRow
<1>4. TaskIs(t, new)
  BY <1>2
<1> HIDE DEF new
<1> QED BY <1>3, <1>4

NewUpload(phase, config, key) == [NoTask EXCEPT !.phase = phase, !.config = config, !.key = key]
\* An upload begins.
LEMMA NewUploadParts ==
  ASSUME NEW phase \in Phases, NEW config \in SettingsRow, NEW key \in StorageKeys
  PROVE  /\ NewUpload(phase, config, key) \in TaskRow /\ NewUpload(phase, config, key).phase = phase
         /\ NewUpload(phase, config, key).config = config /\ NewUpload(phase, config, key).since = 0
<1> DEFINE none == NoTask
           new == [none EXCEPT !.phase = phase, !.config = config, !.key = key]
<1>1. none \in TaskRow /\ none.since = 0
  BY NoTaskIsARow DEF NoTask
<1>2. NewUpload(phase, config, key) = new
  BY DEF NewUpload
<1> HIDE DEF none
<1>3. new \in TaskRow /\ new.phase = phase /\ new.config = config /\ new.since = 0
  BY <1>1, Zenon DEF TaskRow, Phases
<1> QED BY <1>2, <1>3

NewRefresh(config, since) == [NoTask EXCEPT !.phase = "refreshing", !.config = config, !.since = since]
\* A refresh begins.
LEMMA NewRefreshParts ==
  ASSUME NEW config \in SettingsRow, NEW since \in Nat
  PROVE  /\ NewRefresh(config, since) \in TaskRow /\ NewRefresh(config, since).phase = "refreshing"
         /\ NewRefresh(config, since).config = config /\ NewRefresh(config, since).since = since
<1> DEFINE none == NoTask
           new == [none EXCEPT !.phase = "refreshing", !.config = config, !.since = since]
<1>1. none \in TaskRow
  BY NoTaskIsARow
<1>2. NewRefresh(config, since) = new
  BY DEF NewRefresh
<1> HIDE DEF none
<1>3. new \in TaskRow /\ new.phase = "refreshing" /\ new.config = config /\ new.since = since
  BY <1>1, Zenon DEF TaskRow
<1> QED BY <1>2, <1>3

-----------------------------------------------------------------------------
(* What one task may do without any of the rest noticing.                   *)

\* What is known of the rows in every state.
LEMMA RowsNow ==
  ASSUME StorageInv
  PROVE  /\ StorageRows /\ UpdatesFit /\ UploadsFit /\ JobsFit /\ NoTask \in TaskRow
         /\ storageSettings.edition \in Nat /\ serving.worker.edition \in Nat
         /\ \A t \in StorageTasks : /\ storageTasks[t] \in TaskRow /\ storageTasks[t].since \in Nat
                                    /\ storageTasks[t].config.edition \in Nat
  <1>1. StorageRows /\ UpdatesFit /\ UploadsFit /\ JobsFit /\ NoTask \in TaskRow
    BY NoTaskIsARow DEF StorageInv
  <1>2. serving.worker \in SettingsRow /\ storageSettings \in SettingsRow
        /\ \A t \in StorageTasks : storageTasks[t] \in TaskRow
    BY <1>1 DEF StorageRows
  <1>3. \A t \in StorageTasks : storageTasks[t].since \in Nat /\ storageTasks[t].config \in SettingsRow
    BY <1>2 DEF TaskRow
  <1>4. \A c \in SettingsRow : c.edition \in Nat
    BY DEF SettingsRow
  <1> QED BY <1>1, <1>2, <1>3, <1>4

(* Neither a job of the worker nor an update that has begun concerns the documents: *)
(* each part of the invariant survives a step of a task outside of it.        *)
Outside(t, phases) == storageTasks[t].phase \notin phases /\ storageTasks'[t].phase \notin phases
UpdatePhases == {"probing", "saving", "activating"}
UploadPhases == {"staging", "storing"}
JobPhases == {"refreshing", "refreshed", "read"}

\* A task that updates nothing.
LEMMA UpdatesStay ==
  ASSUME StorageInv, NEW t \in StorageTasks, NEW task \in TaskRow, TaskIs(t, task), Outside(t, UpdatePhases),
         UNCHANGED <<storageSettings, commitUnheard>>, serving'.api = serving.api, locks'.api = locks.api
  PROVE  UpdatesFit'
<1>1. /\ storageTasks'[t] = task /\ \A u \in StorageTasks \ {t} : storageTasks'[u] = storageTasks[u]
      /\ task.phase \notin UpdatePhases
  BY TaskParts DEF StorageInv, Outside
<1>2. ASSUME NEW u \in StorageTasks
      PROVE  (Updating(u)' => locks'.api = u)
             /\ (At(u, "probing")' \/ At(u, "saving")' =>
                   /\ storageTasks'[u].config.edition = storageSettings'.edition + 1
                   /\ ~commitUnheard' => serving'.api = storageSettings')
             /\ (At(u, "saving")' => BackendAnswers(storageTasks'[u].config))
             /\ (At(u, "activating")' => storageTasks'[u].config = storageSettings')
  <2>1. CASE u = t
    BY <1>1, <2>1 DEF Updating, At, UpdatePhases
  <2>2. CASE u # t
    BY <1>1, <2>2 DEF Updating, At, StorageInv, UpdatesFit
  <2> QED BY <2>1, <2>2
<1>3. ServedIsStored' /\ StoredWasProbed'
  BY DEF ServedIsStored, StoredWasProbed, BackendAnswers, StorageInv, UpdatesFit
<1> QED BY <1>2, <1>3 DEF UpdatesFit, Updating, At, BackendAnswers

\* A task that uploads nothing.
LEMMA UploadsStay ==
  ASSUME StorageInv, NEW t \in StorageTasks, NEW task \in TaskRow, TaskIs(t, task), Outside(t, UploadPhases),
         UNCHANGED reserved, \A o \in objects' : o.document => o \in objects
  PROVE  UploadsFit'
<1>1. /\ storageTasks'[t] = task /\ \A u \in StorageTasks \ {t} : storageTasks'[u] = storageTasks[u]
      /\ task.phase \notin UploadPhases
  BY TaskParts DEF StorageInv, Outside
<1>2. ASSUME NEW u \in StorageTasks
      PROVE  (At(u, "staging")' \/ At(u, "storing")' => PrivateDocumentBackend(storageTasks'[u].config))
             /\ (At(u, "storing")' => Reservation(u)' \in reserved')
  <2>1. CASE u = t
    BY <1>1, <2>1 DEF At, UploadPhases
  <2>2. CASE u # t
    BY <1>1, <2>2, Zenon DEF At, StorageInv, UploadsFit, Reservation
  <2> QED BY <2>1, <2>2
<1>3. DocumentsLieWhereReserved'
  BY DEF DocumentsLieWhereReserved, StorageInv, UploadsFit
<1> QED BY <1>2, <1>3 DEF UploadsFit, At, PrivateDocumentBackend

\* A task that is no job of the worker.
LEMMA JobsStay ==
  ASSUME StorageInv, NEW t \in StorageTasks, NEW task \in TaskRow, TaskIs(t, task), Outside(t, JobPhases),
         task.since = 0 \/ task.since = storageTasks[t].since,
         serving'.worker = serving.worker, locks'.worker = locks.worker,
         storageSettings'.edition \in Nat, storageSettings'.edition >= storageSettings.edition
  PROVE  JobsFit'
<1>1. /\ storageTasks'[t] = task /\ \A u \in StorageTasks \ {t} : storageTasks'[u] = storageTasks[u]
      /\ task.phase \notin JobPhases
  BY TaskParts DEF StorageInv, Outside
<1>2. ASSUME NEW u \in StorageTasks
      PROVE  /\ At(u, "refreshing")' => locks'.worker = u /\ storageTasks'[u].config.edition = storageTasks'[u].since
             /\ storageTasks'[u].since <= storageSettings'.edition
             /\ At(u, "refreshed")' => serving'.worker.edition >= storageTasks'[u].since
             /\ At(u, "read")' => storageTasks'[u].config.edition >= storageTasks'[u].since
  <2>0. storageTasks[u].since \in Nat /\ storageTasks[u].since <= storageSettings.edition
        /\ storageSettings.edition \in Nat
    BY RowsNow DEF JobsFit
  <2>1. CASE u = t
    <3>1. storageTasks'[u].since <= storageSettings'.edition
      BY <1>1, <2>0, <2>1
    <3> QED BY <1>1, <2>1, <3>1 DEF At, JobPhases
  <2>2. CASE u # t
    <3>1. storageTasks'[u].since <= storageSettings'.edition
      BY <1>1, <2>0, <2>2
    <3>2. storageTasks'[u] = storageTasks[u]
      BY <1>1, <2>2
    <3> QED BY <3>1, <3>2 DEF At, StorageInv, JobsFit, ReadsAreFresh
  <2> QED BY <2>1, <2>2
<1>3. ASSUME NEW u \in StorageTasks, NEW v \in StorageTasks, At(u, "refreshing")', At(v, "refreshed")'
      PROVE  storageTasks'[u].config.edition >= storageTasks'[v].since
  <2>1. u # t /\ v # t
    BY <1>1, <1>3 DEF At, JobPhases
  <2> QED BY <1>1, <1>3, <2>1 DEF At, StorageInv, JobsFit
<1> QED BY <1>2, <1>3 DEF JobsFit, At, ReadsAreFresh

-----------------------------------------------------------------------------
(* Updates.                                                                 *)

\* The rows a step leaves, but for those of the tasks.
LEMMA RowsStay ==
  ASSUME StorageInv, NEW t \in StorageTasks, NEW task \in TaskRow, TaskIs(t, task),
         storageSettings' \in SettingsRow, serving' \in [api : SettingsRow, worker : SettingsRow],
         locks' \in {locks, [locks EXCEPT !.api = Unlocked], [locks EXCEPT !.worker = Unlocked],
                     [locks EXCEPT !.api = t], [locks EXCEPT !.worker = t]},
         commitUnheard' \in BOOLEAN
  PROVE  /\ StorageRows'
         /\ locks' = [locks EXCEPT !.api = Unlocked] => locks'.api = Unlocked /\ locks'.worker = locks.worker
         /\ locks' = [locks EXCEPT !.worker = Unlocked] => locks'.worker = Unlocked /\ locks'.api = locks.api
         /\ locks' = [locks EXCEPT !.api = t] => locks'.api = t /\ locks'.worker = locks.worker
         /\ locks' = [locks EXCEPT !.worker = t] => locks'.worker = t /\ locks'.api = locks.api
<1>1. locks \in [api : {Unlocked} \cup StorageTasks, worker : {Unlocked} \cup StorageTasks]
      /\ StorageRows
  BY DEF StorageInv, StorageRows
<1>2. locks' \in [api : {Unlocked} \cup StorageTasks, worker : {Unlocked} \cup StorageTasks]
  BY <1>1
<1>3. storageTasks' \in [StorageTasks -> TaskRow]
  BY <1>1, TaskParts
<1> QED BY <1>1, <1>2, <1>3 DEF StorageRows

\* The next edition of what is stored.
LEMMA MergedIsARow ==
  ASSUME StorageInv, NEW form \in Forms
  PROVE  Merged(form) \in SettingsRow /\ Merged(form).edition = storageSettings.edition + 1
<1>1. storageSettings \in SettingsRow /\ storageSettings.edition \in Nat
  BY RowsNow DEF StorageRows
<1> DEFINE c == IF form.credential = "" THEN storageSettings.credential ELSE form.credential
           n == storageSettings.edition + 1
<1>0. /\ form.backend \in Backends /\ form.bucket \in Buckets /\ form.private \in Privacies
      /\ form.credential \in Credentials
  BY Zenon DEF Backends, Buckets, Privacies, Credentials
<1>2. c \in Credentials /\ n \in Nat
  <2>1. storageSettings.credential \in Credentials
    BY <1>1 DEF SettingsRow
  <2>2. c \in {storageSettings.credential, form.credential}
    OBVIOUS
  <2>3. n \in Nat
    BY <1>1
  <2> HIDE DEF c, n
  <2> QED BY <1>0, <2>1, <2>2, <2>3
<1>3. Merged(form) = [backend |-> form.backend, bucket |-> form.bucket, private |-> form.private,
                      credential |-> c, edition |-> n]
  BY DEF Merged
<1> HIDE DEF c, n
<1>4. Merged(form) \in SettingsRow /\ Merged(form).edition = n
  BY <1>0, <1>2, <1>3 DEF SettingsRow
<1> QED BY <1>4 DEF n

\* An update takes the lock.
LEMMA BeginUpdateHolds ==
  ASSUME StorageInv, NEW t \in StorageTasks, BeginUpdate(t)
  PROVE  StorageInv'
<1> USE DEF UploadPhases, JobPhases, UpdatePhases
<1>1. PICK form \in Forms : TaskIs(t, [NoTask EXCEPT !.phase = "probing", !.config = Merged(form)])
  BY Zenon DEF BeginUpdate
<1>2. PICK config \in SettingsRow : config = Merged(form)
  BY MergedIsARow
<1>3. PICK task \in TaskRow :
        TaskIs(t, task) /\ task.phase = "probing" /\ task.config = config /\ task.since = 0
  <2>1. TaskIs(t, [NoTask EXCEPT !.phase = "probing", !.config = config])
    BY <1>1, <1>2
  <2> QED BY <2>1, <1>2, NewUpdateParts, Zenon
<1>4. /\ locks.api = Unlocked /\ At(t, "idle") /\ locks' = [locks EXCEPT !.api = t]
      /\ UNCHANGED <<storageSettings, serving, reserved, objects, commitUnheard>>
  BY DEF BeginUpdate
<1>5. StorageRows' /\ locks'.api = t /\ locks'.worker = locks.worker
  <2>1. StorageRows
    BY DEF StorageInv
  <2>2. /\ storageSettings' \in SettingsRow /\ serving' \in [api : SettingsRow, worker : SettingsRow]
        /\ commitUnheard' \in BOOLEAN
    BY <1>4, <2>1 DEF StorageRows
  <2> QED BY <1>3, <1>4, <2>2, RowsStay, Zenon
<1>6. /\ storageTasks'[t] = task /\ \A u \in StorageTasks \ {t} : storageTasks'[u] = storageTasks[u]
  BY <1>3, TaskParts DEF StorageInv
<1>7. Outside(t, UploadPhases) /\ Outside(t, JobPhases)
  BY <1>3, <1>4, <1>6 DEF Outside, At
<1>8. UploadsFit'
  BY <1>3, <1>4, <1>7, UploadsStay
<1>9. JobsFit'
  <2>1. storageSettings'.edition \in Nat /\ storageSettings'.edition >= storageSettings.edition
    BY <1>4, RowsNow
  <2> QED BY <1>3, <1>4, <1>5, <1>7, <2>1, JobsStay
<1>10. \A u \in StorageTasks : ~Updating(u)
  BY <1>4, StorageAssumption DEF StorageInv, UpdatesFit, Unlocked
<1>11. serving.api = storageSettings \/ commitUnheard
  BY <1>4 DEF StorageInv, UpdatesFit, ServedIsStored
<1>12. UpdatesFit'
  <2>1. \A u \in StorageTasks \ {t} : ~Updating(u)'
    BY <1>6, <1>10 DEF Updating
  <2>2. locks'.api # Unlocked'
    BY <1>5, StorageAssumption DEF Unlocked
  <2>3. ServedIsStored' /\ StoredWasProbed'
    BY <2>2, <1>4 DEF ServedIsStored, StoredWasProbed, BackendAnswers, StorageInv, UpdatesFit
  <2>4. config.edition = storageSettings.edition + 1
    BY <1>2, MergedIsARow
  <2> QED BY <1>3, <1>4, <1>5, <1>6, <1>11, <2>1, <2>3, <2>4 DEF UpdatesFit, Updating, At
<1> QED BY <1>5, <1>8, <1>9, <1>12 DEF StorageInv

(* The other steps of an update, which leaves its task at rest or in a later phase. *)
LEMMA UpdateGoesOn ==
  ASSUME StorageInv, NEW t \in StorageTasks, Updating(t), NEW task \in TaskRow, TaskIs(t, task),
         task.phase \in UpdatePhases \cup {"idle"},
         task.since \in {0, storageTasks[t].since},
         locks' \in {locks, [locks EXCEPT !.api = Unlocked]}, commitUnheard' \in BOOLEAN,
         task.phase \in UpdatePhases => locks' = locks,
         storageSettings' \in {storageSettings, storageTasks[t].config},
         storageTasks[t].config = storageSettings
           \/ storageTasks[t].config.edition = storageSettings.edition + 1,
         serving' \in {serving, [serving EXCEPT !.api = storageTasks[t].config]},
         UNCHANGED <<reserved, objects>>,
         task.phase \in {"probing", "saving"} =>
            /\ storageSettings' = storageSettings /\ task.config.edition = storageSettings.edition + 1
            /\ ~commitUnheard' => serving'.api = storageSettings,
         task.phase = "saving" => BackendAnswers(task.config),
         task.phase = "activating" => task.config = storageSettings',
         task.phase = "idle" /\ ~commitUnheard' => serving'.api = storageSettings',
         storageSettings' # storageSettings => BackendAnswers(storageTasks[t].config)
  PROVE  StorageInv'
<1> USE DEF UploadPhases, JobPhases, UpdatePhases
<1>0. StorageRows /\ storageTasks[t].config \in SettingsRow
  BY RowsNow DEF TaskRow
<1>1. /\ serving' \in [api : SettingsRow, worker : SettingsRow] /\ serving'.worker = serving.worker
      /\ storageSettings' \in SettingsRow
  <2>1. serving \in [api : SettingsRow, worker : SettingsRow] /\ storageSettings \in SettingsRow
    BY <1>0 DEF StorageRows
  <2> QED BY <1>0, <2>1
<1>2. StorageRows' /\ locks'.worker = locks.worker
  BY <1>1, RowsStay
<1>3. /\ storageTasks'[t] = task /\ \A u \in StorageTasks \ {t} : storageTasks'[u] = storageTasks[u]
  BY <1>0, TaskParts
<1>4. Outside(t, UploadPhases) /\ Outside(t, JobPhases)
  BY <1>3 DEF Outside, Updating
<1>5. UploadsFit'
  BY <1>4, UploadsStay
<1>6. JobsFit'
  <2>1. storageSettings'.edition \in Nat /\ storageSettings'.edition >= storageSettings.edition
    BY <1>0, RowsNow
  <2> QED BY <1>1, <1>2, <1>4, <2>1, JobsStay
<1>7. locks.api = t /\ \A u \in StorageTasks \ {t} : ~Updating(u)'
  <2>1. locks.api = t /\ \A u \in StorageTasks \ {t} : ~Updating(u)
    BY DEF StorageInv, UpdatesFit
  <2> QED BY <1>3, <2>1 DEF Updating
<1>8. locks'.api = Unlocked => task.phase = "idle"
  BY <1>7, StorageAssumption DEF Unlocked
<1>9. ServedIsStored'
  <2>1. locks'.api = Unlocked /\ ~commitUnheard' => serving'.api = storageSettings'
    BY <1>8
  <2> QED BY <2>1 DEF ServedIsStored, Unlocked
<1>10. StoredWasProbed'
  BY Zenon DEF StoredWasProbed, BackendAnswers, StorageInv, UpdatesFit, Unconfigured
<1>11. Updating(t)' => locks'.api = t
  BY <1>3, <1>7 DEF Updating
<1> QED BY <1>2, <1>3, <1>5, <1>6, <1>7, <1>9, <1>10, <1>11 DEF StorageInv, UpdatesFit, Updating, At, BackendAnswers

\* An update is probed, saved and activated.
LEMMA UpdateHolds ==
  ASSUME StorageInv, NEW t \in StorageTasks, Probe(t) \/ SaveStorageSettings(t) \/ Activate(t)
  PROVE  StorageInv'
<1> USE DEF UpdatePhases
<1>0. /\ StorageRows /\ storageTasks[t] \in TaskRow /\ NoTask \in TaskRow
      /\ NoTask.phase = "idle" /\ NoTask.since = 0
  BY RowsNow DEF NoTask
<1>1. Updating(t)
  BY DEF Probe, SaveStorageSettings, Activate, Enters, At, Updating
<1>2. At(t, "activating") => storageTasks[t].config = storageSettings
  BY DEF StorageInv, UpdatesFit
<1>3. ~At(t, "activating") => /\ storageTasks[t].config.edition = storageSettings.edition + 1
                              /\ ~commitUnheard => serving.api = storageSettings
  BY <1>1 DEF StorageInv, UpdatesFit, At, Updating
<1>4. At(t, "saving") => BackendAnswers(storageTasks[t].config)
  BY DEF StorageInv, UpdatesFit
<1>5. ASSUME Unlock("api"), TaskIs(t, NoTask)
      PROVE  locks' = [locks EXCEPT !.api = Unlocked] /\ TaskIs(t, NoTask)
  BY <1>5, Zenon DEF Unlock
<1>6. ASSUME NEW phase \in {"saving", "activating"}, Enters(t, storageTasks[t].phase, phase)
      PROVE  \E task \in TaskRow : /\ TaskIs(t, task) /\ task.phase = phase
                                   /\ task.config = storageTasks[t].config /\ task.since = storageTasks[t].since
  <2>1. phase \in Phases
    BY DEF Phases
  <2> QED BY <2>1, <1>0, <1>6, EntersParts
<1>7. serving' = serving \/ At(t, "activating")
  BY DEF Probe, SaveStorageSettings, Activate
<1>8. CASE Probe(t)
  <2>1. UNCHANGED <<storageSettings, serving, reserved, objects, commitUnheard>> /\ commitUnheard' \in BOOLEAN
        /\ At(t, "probing")
    BY <1>0, <1>8 DEF Probe, StorageRows, Enters
  <2>2. CASE Unlock("api") /\ TaskIs(t, NoTask)
    BY <2>1, <2>2, <1>0, <1>1, <1>3, <1>5, UpdateGoesOn DEF At
  <2>3. CASE BackendAnswers(storageTasks[t].config) /\ Enters(t, "probing", "saving") /\ UNCHANGED locks
    <3>1. PICK task \in TaskRow : /\ TaskIs(t, task) /\ task.phase = "saving"
                                  /\ task.config = storageTasks[t].config /\ task.since = storageTasks[t].since
      BY <2>1, <2>3, <1>6 DEF At
    <3>2. storageTasks[t].config.edition = storageSettings.edition + 1
          /\ (~commitUnheard => serving.api = storageSettings)
      BY <2>1, <1>3 DEF At
    <3> QED BY <2>1, <2>3, <3>1, <3>2, <1>1, UpdateGoesOn
  <2> QED BY <1>8, <2>2, <2>3 DEF Probe
<1>9. CASE SaveStorageSettings(t)
  <2>1. /\ UNCHANGED <<serving, reserved, objects>> /\ At(t, "saving")
        /\ storageSettings' \in {storageSettings, storageTasks[t].config}
    BY <1>9 DEF SaveStorageSettings
  <2>2. /\ storageTasks[t].config.edition = storageSettings.edition + 1
        /\ ~commitUnheard => serving.api = storageSettings
        /\ BackendAnswers(storageTasks[t].config)
    BY <2>1, <1>3, <1>4 DEF At
  <2>3. CASE /\ storageSettings' # storageSettings /\ Enters(t, "saving", "activating")
             /\ UNCHANGED <<locks, commitUnheard>>
    <3>1. PICK task \in TaskRow : /\ TaskIs(t, task) /\ task.phase = "activating"
                                  /\ task.config = storageTasks[t].config /\ task.since = storageTasks[t].since
      BY <2>1, <2>3, <1>6 DEF At
    <3>2. commitUnheard' \in BOOLEAN /\ task.config = storageSettings'
      BY <2>1, <2>3, <3>1, <1>0 DEF StorageRows
    <3> QED BY <2>1, <2>2, <2>3, <3>1, <3>2, <1>1, UpdateGoesOn, Zenon
  <2>4. CASE /\ TaskIs(t, NoTask) /\ Unlock("api")
             /\ commitUnheard' = (commitUnheard \/ storageSettings' # storageSettings)
    <3>1. ~commitUnheard' => serving'.api = storageSettings'
      BY <2>1, <2>2, <2>4, Zenon
    <3>2. commitUnheard' \in BOOLEAN
      BY <2>4
    <3> QED BY <2>1, <2>2, <2>4, <3>1, <3>2, <1>0, <1>1, <1>5, UpdateGoesOn
  <2> QED BY <1>9, <2>3, <2>4 DEF SaveStorageSettings
<1>10. CASE Activate(t)
  <2>1. /\ At(t, "activating") /\ TaskIs(t, NoTask) /\ Unlock("api") /\ commitUnheard' \in BOOLEAN
        /\ serving' = [serving EXCEPT !.api = storageTasks[t].config]
        /\ UNCHANGED <<storageSettings, reserved, objects>>
    BY <1>10, Zenon DEF Activate
  <2>2. storageTasks[t].config = storageSettings /\ serving'.api = storageSettings
    BY <2>1, <1>0, <1>2 DEF StorageRows
  <2> QED BY <2>1, <2>2, <1>0, <1>1, <1>5, UpdateGoesOn
<1> QED BY <1>8, <1>9, <1>10

-----------------------------------------------------------------------------
(* Uploads.                                                                 *)

\* A step that leaves the settings, what is served and the locks alone.
LEMMA RowsQuiet ==
  ASSUME StorageInv, NEW t \in StorageTasks, NEW task \in TaskRow, TaskIs(t, task),
         UNCHANGED <<storageSettings, serving, locks, commitUnheard>>
  PROVE  StorageRows'
<1>1. StorageRows
  BY DEF StorageInv
<1>2. storageTasks' \in [StorageTasks -> TaskRow]
  BY <1>1, TaskParts
<1> QED BY <1>1, <1>2 DEF StorageRows

\* The updates and the jobs of the worker do not notice an upload.
LEMMA OthersStay ==
  ASSUME StorageInv, NEW t \in StorageTasks, NEW task \in TaskRow, TaskIs(t, task),
         task.phase \notin UpdatePhases \cup JobPhases, storageTasks[t].phase \notin UpdatePhases \cup JobPhases,
         task.since \in {0, storageTasks[t].since},
         UNCHANGED <<storageSettings, serving, locks, commitUnheard>>
  PROVE  UpdatesFit' /\ JobsFit'
<1>1. storageTasks'[t] = task
  BY TaskParts DEF StorageInv
<1>2. Outside(t, UpdatePhases) /\ Outside(t, JobPhases)
  BY <1>1 DEF Outside
<1>3. storageSettings'.edition \in Nat /\ storageSettings'.edition >= storageSettings.edition
  <2>1. storageSettings'.edition = storageSettings.edition /\ storageSettings.edition \in Nat
    BY RowsNow
  <2> QED BY <2>1
<1>4. UpdatesFit'
  BY <1>2, UpdatesStay
<1>5. JobsFit'
  BY <1>2, <1>3, JobsStay
<1> QED BY <1>4, <1>5

\* An upload is begun, staged and stored.
LEMMA UploadHolds ==
  ASSUME StorageInv, NEW t \in StorageTasks, BeginUpload(t) \/ StageUpload(t) \/ UploadStream(t)
  PROVE  StorageInv'
<1> USE DEF UpdatePhases, UploadPhases, JobPhases
<1>0. /\ StorageRows /\ UploadsFit /\ storageTasks[t] \in TaskRow /\ NoTask \in TaskRow
      /\ NoTask.phase = "idle" /\ NoTask.since = 0 /\ serving.api \in SettingsRow
  BY RowsNow DEF NoTask, StorageRows
<1>1. UNCHANGED <<storageSettings, serving, locks, commitUnheard>>
  BY Zenon DEF BeginUpload, StageUpload, UploadStream
<1>2. CASE BeginUpload(t)
  <2>1. PICK key \in StorageKeys, phase \in Phases :
          /\ phase \in {"staging", "writing"} /\ (phase = "staging" => PrivateDocumentBackend(serving.api))
          /\ TaskIs(t, [NoTask EXCEPT !.phase = phase, !.config = serving.api, !.key = key])
    BY <1>2, Zenon DEF BeginUpload, Phases
  <2>2. PICK config \in SettingsRow : config = serving.api
    BY <1>0
  <2>3. PICK task \in TaskRow : TaskIs(t, task) /\ task.phase = phase /\ task.config = config /\ task.since = 0
    <3>1. TaskIs(t, NewUpload(phase, config, key))
      BY <2>1, <2>2 DEF NewUpload
    <3>2. /\ NewUpload(phase, config, key) \in TaskRow /\ NewUpload(phase, config, key).phase = phase
          /\ NewUpload(phase, config, key).config = config /\ NewUpload(phase, config, key).since = 0
      BY <2>1, <2>2, NewUploadParts
    <3> QED BY <3>1, <3>2
  <2>4. At(t, "idle") /\ UNCHANGED <<reserved, objects>> /\ phase \in {"staging", "writing"}
    BY <1>2, <2>1, Zenon DEF BeginUpload
  <2>5. UpdatesFit' /\ JobsFit'
    BY <1>1, <2>3, <2>4, OthersStay DEF At
  <2>6. StorageRows'
    BY <1>1, <2>3, RowsQuiet
  <2>7. /\ storageTasks'[t] = task /\ \A u \in StorageTasks \ {t} : storageTasks'[u] = storageTasks[u]
    BY <1>0, <2>3, TaskParts
  <2>8. UploadsFit'
    <3>1. At(t, "staging")' => PrivateDocumentBackend(storageTasks'[t].config)
      BY <2>1, <2>2, <2>3, <2>7 DEF At
    <3>2. ~At(t, "storing")'
      BY <2>3, <2>4, <2>7 DEF At
    <3>3. DocumentsLieWhereReserved'
      BY <1>0, <2>4 DEF UploadsFit, DocumentsLieWhereReserved
    <3>4. \A u \in StorageTasks \ {t} :
             /\ At(u, "staging")' \/ At(u, "storing")' => PrivateDocumentBackend(storageTasks'[u].config)
             /\ At(u, "storing")' => Reservation(u)' \in reserved'
      BY <1>0, <2>4, <2>7, Zenon DEF UploadsFit, At, Reservation
    <3> QED BY <3>1, <3>2, <3>3, <3>4 DEF UploadsFit, PrivateDocumentBackend
  <2> QED BY <2>5, <2>6, <2>8 DEF StorageInv
<1>3. CASE StageUpload(t)
  <2>1. PICK task \in TaskRow :
          /\ TaskIs(t, task) /\ task.phase = "storing" /\ task.config = storageTasks[t].config
          /\ task.key = storageTasks[t].key /\ task.since = storageTasks[t].since
    BY <1>0, <1>3, EntersParts DEF StageUpload, Phases
  <2>2. At(t, "staging") /\ objects' = objects /\ reserved' = reserved \cup {Reservation(t)}
    BY <1>3 DEF StageUpload, Enters, Reservation
  <2>3. UpdatesFit' /\ JobsFit'
    BY <1>1, <2>1, <2>2, OthersStay DEF At
  <2>4. StorageRows'
    BY <1>1, <2>1, RowsQuiet
  <2>5. /\ storageTasks'[t] = task /\ \A u \in StorageTasks \ {t} : storageTasks'[u] = storageTasks[u]
    BY <1>0, <2>1, TaskParts
  <2>6. UploadsFit'
    <3>1. PrivateDocumentBackend(storageTasks'[t].config)
      BY <1>0, <2>1, <2>2, <2>5 DEF UploadsFit, PrivateDocumentBackend
    <3>2. Reservation(t)' \in reserved'
      BY <2>1, <2>2, <2>5, Zenon DEF Reservation
    <3>3. DocumentsLieWhereReserved'
      BY <1>0, <2>2 DEF UploadsFit, DocumentsLieWhereReserved
    <3>4. \A u \in StorageTasks \ {t} :
             /\ At(u, "staging")' \/ At(u, "storing")' => PrivateDocumentBackend(storageTasks'[u].config)
             /\ At(u, "storing")' => Reservation(u)' \in reserved'
      BY <1>0, <2>2, <2>5, Zenon DEF UploadsFit, At, Reservation
    <3> QED BY <3>1, <3>2, <3>3, <3>4 DEF UploadsFit, PrivateDocumentBackend
  <2> QED BY <2>3, <2>4, <2>6 DEF StorageInv
<1>4. CASE UploadStream(t)
  <2> DEFINE new == Object(storageTasks[t].key, Place(storageTasks[t].config), At(t, "storing"),
                           PrivateDocumentBackend(storageTasks[t].config))
  <2>1. /\ At(t, "storing") \/ At(t, "writing")
        /\ TaskIs(t, NoTask) /\ objects' \in {objects, objects \cup {new}} /\ reserved' = reserved
    BY <1>4 DEF UploadStream, Through
  <2>2. UpdatesFit' /\ JobsFit'
    BY <1>0, <1>1, <2>1, OthersStay DEF At
  <2>3. StorageRows'
    BY <1>0, <1>1, <2>1, RowsQuiet
  <2>4. /\ storageTasks'[t] = NoTask /\ \A u \in StorageTasks \ {t} : storageTasks'[u] = storageTasks[u]
    BY <1>0, <2>1, TaskParts
  <2>5. new.document => new \in reserved
    <3> SUFFICES ASSUME At(t, "storing") PROVE new \in reserved
      BY DEF Object
    <3>1. PrivateDocumentBackend(storageTasks[t].config) = TRUE /\ At(t, "storing") = TRUE
          /\ Reservation(t) \in reserved
      BY <1>0 DEF UploadsFit, PrivateDocumentBackend, At
    <3>2. new = Reservation(t)
      BY <3>1, Zenon DEF Reservation, Object
    <3> QED BY <3>1, <3>2
  <2> HIDE DEF new
  <2>6. UploadsFit'
    <3>1. ~At(t, "staging")' /\ ~At(t, "storing")'
      BY <1>0, <2>4 DEF At
    <3>2. DocumentsLieWhereReserved'
      BY <1>0, <2>1, <2>5 DEF UploadsFit, DocumentsLieWhereReserved
    <3>3. \A u \in StorageTasks \ {t} :
             /\ At(u, "staging")' \/ At(u, "storing")' => PrivateDocumentBackend(storageTasks'[u].config)
             /\ At(u, "storing")' => Reservation(u)' \in reserved'
      BY <1>0, <2>1, <2>4, Zenon DEF UploadsFit, At, Reservation
    <3> QED BY <3>1, <3>2, <3>3 DEF UploadsFit, PrivateDocumentBackend
  <2> QED BY <2>2, <2>3, <2>6 DEF StorageInv
<1> QED BY <1>2, <1>3, <1>4

-----------------------------------------------------------------------------
(* The jobs of the worker.                                                  *)

\* What no job changes, and no part of the documents but by deleting.
LEMMA JobRest ==
  ASSUME StorageInv, NEW t \in StorageTasks, NEW task \in TaskRow, TaskIs(t, task),
         task.phase \in JobPhases \cup {"idle"}, storageTasks[t].phase \in JobPhases \cup {"idle"},
         UNCHANGED <<storageSettings, commitUnheard>>,
         serving' \in {serving, [serving EXCEPT !.worker = storageTasks[t].config]},
         locks' \in {locks, [locks EXCEPT !.worker = Unlocked], [locks EXCEPT !.worker = t]},
         UNCHANGED <<reserved, objects>> \/ UploadsFit'
  PROVE  StorageRows' /\ UpdatesFit' /\ UploadsFit'
<1> USE DEF UpdatePhases, UploadPhases, JobPhases
<1>0. StorageRows /\ storageTasks[t].config \in SettingsRow
  BY RowsNow DEF TaskRow
<1>1. storageTasks'[t] = task
  BY <1>0, TaskParts
<1>2. serving' \in [api : SettingsRow, worker : SettingsRow] /\ serving'.api = serving.api
      /\ storageSettings' \in SettingsRow /\ commitUnheard' \in BOOLEAN
  BY <1>0 DEF StorageRows
<1>3. StorageRows' /\ locks'.api = locks.api
  BY <1>2, RowsStay
<1>4. Outside(t, UpdatePhases) /\ Outside(t, UploadPhases)
  BY <1>1 DEF Outside
<1>5. UpdatesFit'
  BY <1>2, <1>3, <1>4, UpdatesStay
<1>6. UploadsFit'
  BY <1>4, UploadsStay
<1> QED BY <1>3, <1>5, <1>6

\* The jobs that are not at work on their settings.
LEMMA OtherJobs ==
  ASSUME StorageInv, NEW t \in StorageTasks, NEW task \in TaskRow, TaskIs(t, task),
         task.phase \notin {"refreshing", "refreshed"},
         task.since \in {0, storageTasks[t].since},
         task.phase = "read" => task.config.edition >= task.since,
         UNCHANGED <<storageSettings, serving, locks>>
  PROVE  JobsFit'
<1>0. StorageRows /\ JobsFit
  BY RowsNow
<1>1. /\ storageTasks'[t] = task /\ \A u \in StorageTasks \ {t} : storageTasks'[u] = storageTasks[u]
  BY <1>0, TaskParts
<1>2. \A u \in StorageTasks : storageTasks'[u].since <= storageSettings'.edition
  <2>1. \A u \in StorageTasks : storageTasks[u].since \in Nat /\ storageTasks[u].since <= storageSettings.edition
        /\ storageSettings.edition \in Nat
    BY RowsNow DEF JobsFit
  <2> QED BY <1>1, <2>1
<1> QED BY <1>0, <1>1, <1>2 DEF JobsFit, At, ReadsAreFresh

\* A job takes the lock of the worker and reads what is stored.
LEMMA RefreshBeginsHolds ==
  ASSUME StorageInv, NEW t \in StorageTasks, At(t, "idle"), locks.worker = Unlocked,
         locks' = [locks EXCEPT !.worker = t],
         TaskIs(t, [NoTask EXCEPT !.phase = "refreshing", !.config = storageSettings,
                                  !.since = storageSettings.edition]),
         UNCHANGED <<storageSettings, serving, reserved, objects, commitUnheard>>
  PROVE  StorageInv'
<1> USE DEF JobPhases
<1>0. StorageRows /\ JobsFit /\ storageSettings \in SettingsRow /\ storageSettings.edition \in Nat
  BY RowsNow DEF StorageRows
<1>1. PICK task \in TaskRow : /\ TaskIs(t, task) /\ task.phase = "refreshing" /\ task.config = storageSettings
                              /\ task.since = storageSettings.edition
  <2>1. TaskIs(t, NewRefresh(storageSettings, storageSettings.edition))
    BY DEF NewRefresh
  <2> QED BY <1>0, <2>1, NewRefreshParts
<1>2. StorageRows' /\ UpdatesFit' /\ UploadsFit'
  BY <1>1, JobRest DEF At
<1>3. /\ storageTasks'[t] = task /\ \A u \in StorageTasks \ {t} : storageTasks'[u] = storageTasks[u]
  BY <1>0, <1>1, TaskParts
<1>4. locks'.worker = t
  BY <1>0 DEF StorageRows
<1>5. \A u \in StorageTasks : ~At(u, "refreshing")
  BY <1>0, StorageAssumption DEF JobsFit, Unlocked
<1>6. JobsFit'
  <2>1. \A u \in StorageTasks : storageTasks[u].since \in Nat /\ storageTasks[u].since <= storageSettings.edition
    BY RowsNow DEF JobsFit
  <2>2. \A u \in StorageTasks : storageTasks'[u].since <= storageSettings'.edition
    BY <1>0, <1>1, <1>3, <2>1
  <2>3. \A u \in StorageTasks : At(u, "refreshing")' => u = t
    BY <1>3, <1>5 DEF At
  <2>4. \A u \in StorageTasks : At(u, "refreshed")' => storageTasks'[u] = storageTasks[u] /\ At(u, "refreshed")
    BY <1>1, <1>3 DEF At
  <2>5. \A u \in StorageTasks : At(u, "read")' => storageTasks'[u] = storageTasks[u] /\ At(u, "read")
    BY <1>1, <1>3 DEF At
  <2>6. \A u \in StorageTasks : At(u, "refreshed")' => storageTasks'[t].config.edition >= storageTasks'[u].since
    BY <1>0, <1>1, <1>3, <2>1, <2>4
  <2>7. \A u \in StorageTasks : At(u, "refreshed")' => serving'.worker.edition >= storageTasks'[u].since
    BY <1>0, <2>4 DEF JobsFit
  <2>8. \A u \in StorageTasks : At(u, "read")' => storageTasks'[u].config.edition >= storageTasks'[u].since
    BY <1>0, <2>5 DEF JobsFit, ReadsAreFresh
  <2>9. locks'.worker = t /\ storageTasks'[t].config.edition = storageTasks'[t].since
    BY <1>1, <1>3, <1>4
  <2> QED BY <2>2, <2>3, <2>6, <2>7, <2>8, <2>9 DEF JobsFit, ReadsAreFresh, At
<1> QED BY <1>2, <1>6 DEF StorageInv

\* The worker serves what the job has read.
LEMMA RefreshEndsHolds ==
  ASSUME StorageInv, NEW t \in StorageTasks, Enters(t, "refreshing", "refreshed"), Unlock("worker"),
         serving' = [serving EXCEPT !.worker = storageTasks[t].config],
         UNCHANGED <<storageSettings, reserved, objects, commitUnheard>>
  PROVE  StorageInv'
<1> USE DEF JobPhases
<1>0. StorageRows /\ JobsFit /\ At(t, "refreshing") /\ locks' = [locks EXCEPT !.worker = Unlocked]
  BY RowsNow, Zenon DEF Enters, Unlock
<1>1. PICK task \in TaskRow :
        /\ TaskIs(t, task) /\ task.phase = "refreshed" /\ task.config = storageTasks[t].config
        /\ task.key = storageTasks[t].key /\ task.since = storageTasks[t].since
  BY <1>0, EntersParts DEF Phases
<1>2. StorageRows' /\ UpdatesFit' /\ UploadsFit'
  BY <1>0, <1>1, JobRest DEF At
<1>3. /\ storageTasks'[t] = task /\ \A u \in StorageTasks \ {t} : storageTasks'[u] = storageTasks[u]
  BY <1>0, <1>1, TaskParts
<1>4. serving'.worker = storageTasks[t].config
  BY <1>0 DEF StorageRows
<1>5. \A u \in StorageTasks \ {t} : ~At(u, "refreshing")
  BY <1>0 DEF JobsFit
<1>6. JobsFit'
  <2>1. \A u \in StorageTasks : storageTasks'[u].since = storageTasks[u].since
    BY <1>1, <1>3
  <2>2. \A u \in StorageTasks : ~At(u, "refreshing")'
    BY <1>1, <1>3, <1>5 DEF At
  <2>3. \A u \in StorageTasks : At(u, "refreshed")' => storageTasks[t].config.edition >= storageTasks[u].since
    <3>1. storageTasks[t].config.edition = storageTasks[t].since /\ storageTasks[t].since \in Nat
      BY <1>0, RowsNow DEF JobsFit
    <3>2. \A u \in StorageTasks \ {t} : At(u, "refreshed")' => At(u, "refreshed")
      BY <1>3 DEF At
    <3>3. storageTasks[t].config.edition >= storageTasks[t].since
      BY <3>1
    <3> QED BY <1>0, <3>2, <3>3 DEF JobsFit
  <2>4. \A u \in StorageTasks : At(u, "read")' => storageTasks'[u] = storageTasks[u] /\ At(u, "read")
    BY <1>1, <1>3 DEF At
  <2>5. \A u \in StorageTasks : At(u, "read")' => storageTasks'[u].config.edition >= storageTasks'[u].since
    BY <1>0, <2>4 DEF JobsFit, ReadsAreFresh
  <2> QED BY <1>0, <1>4, <2>1, <2>2, <2>3, <2>5 DEF JobsFit, ReadsAreFresh, At
<1> QED BY <1>2, <1>6 DEF StorageInv

\* A job opens, deletes and ends.
LEMMA JobHolds ==
  ASSUME StorageInv, NEW t \in StorageTasks, Open(t) \/ DeleteDocument(t) \/ JobEnds(t)
  PROVE  StorageInv'
<1> USE DEF JobPhases
<1>0. StorageRows /\ JobsFit /\ UploadsFit /\ NoTask \in TaskRow /\ NoTask.phase = "idle" /\ NoTask.since = 0
  BY RowsNow DEF NoTask
<1>1. UNCHANGED <<storageSettings, serving, locks, commitUnheard>>
  BY DEF Open, DeleteDocument, JobEnds
<1>2. CASE JobEnds(t)
  <2>1. StorageRows' /\ UpdatesFit' /\ UploadsFit'
    BY <1>0, <1>1, <1>2, JobRest DEF JobEnds, At
  <2>2. JobsFit'
    BY <1>0, <1>1, <1>2, OtherJobs DEF JobEnds
  <2> QED BY <2>1, <2>2 DEF StorageInv
<1>3. CASE Reads(t) /\ (Open(t) \/ DeleteDocument(t))
  <2>1. PICK task \in TaskRow : /\ TaskIs(t, task) /\ task.phase = "read" /\ task.config = serving.worker
                                /\ task.since = storageTasks[t].since
    BY <1>0, <1>3, ReadsParts
  <2>2. task.config.edition >= task.since /\ At(t, "refreshed")
    BY <1>0, <1>3, <2>1 DEF JobsFit, Reads
  <2>3. JobsFit'
    BY <1>1, <2>1, <2>2, OtherJobs
  <2>4. /\ storageTasks'[t] = task /\ \A u \in StorageTasks \ {t} : storageTasks'[u] = storageTasks[u]
    BY <1>0, <2>1, TaskParts
  <2>5. UNCHANGED <<reserved, objects>> \/ UploadsFit'
    <3>1. CASE Open(t)
      BY <3>1 DEF Open
    <3>2. CASE DeleteDocument(t)
      <4>1. PICK kept \in reserved :
              /\ \A u \in StorageTasks : storageTasks[u].key # kept.key
              /\ SourceMatches(kept, serving.worker)
              /\ objects' = {o \in objects : <<o.key, o.place>> # <<kept.key, Place(serving.worker)>>}
              /\ reserved' = reserved \ {kept}
        BY <3>2 DEF DeleteDocument
      <4>2. kept.place = Place(serving.worker)
        BY <4>1 DEF SourceMatches
      <4>3. DocumentsLieWhereReserved'
        <5> SUFFICES ASSUME NEW o \in objects', o.document PROVE o \in reserved'
          BY DEF DocumentsLieWhereReserved
        <5>1. o \in objects /\ o.document /\ <<o.key, o.place>> # <<kept.key, kept.place>>
          BY <4>1, <4>2
        <5>2. o \in reserved /\ o # kept
          BY <1>0, <5>1 DEF UploadsFit, DocumentsLieWhereReserved
        <5> QED BY <4>1, <5>2
      <4>4. ASSUME NEW u \in StorageTasks
            PROVE  /\ At(u, "staging")' \/ At(u, "storing")' => PrivateDocumentBackend(storageTasks'[u].config)
                   /\ At(u, "storing")' => Reservation(u)' \in reserved'
        <5>1. CASE u = t
          BY <2>1, <2>4, <5>1 DEF At
        <5>2. CASE u # t
          <6>1. storageTasks'[u] = storageTasks[u]
            BY <2>4, <5>2
          <6>2. Reservation(u) # kept
            BY <4>1 DEF Reservation, Object
          <6> QED BY <1>0, <4>1, <6>1, <6>2, Zenon DEF UploadsFit, At, Reservation
        <5> QED BY <5>1, <5>2
      <4>5. UploadsFit'
        BY <4>3, <4>4 DEF UploadsFit, PrivateDocumentBackend
      <4> QED BY <4>5
    <3> QED BY <1>3, <3>1, <3>2
  <2>6. StorageRows' /\ UpdatesFit' /\ UploadsFit'
    BY <1>1, <2>1, <2>2, <2>5, JobRest DEF At
  <2> QED BY <2>3, <2>6 DEF StorageInv
<1> QED BY <1>2, <1>3 DEF Open, DeleteDocument

-----------------------------------------------------------------------------
(* Restarts, and the whole.                                                 *)

\* A process that starts again serves what is stored, and its requests are gone.
LEMMA RestartHolds ==
  ASSUME StorageInv, Restart
  PROVE  StorageInv'
<1> USE DEF At
<1>0. /\ StorageRows /\ UpdatesFit /\ UploadsFit /\ JobsFit /\ NoTask \in TaskRow
      /\ NoTask.phase = "idle" /\ NoTask.since = 0
      /\ storageSettings.edition \in Nat /\ serving.worker.edition \in Nat
  BY RowsNow DEF NoTask
<1>1. PICK process \in {"api", "worker"} :
        /\ serving' = [serving EXCEPT ![process] = storageSettings]
        /\ storageTasks' = [t \in StorageTasks |->
                              IF OfApi(t) = (process = "api") THEN NoTask ELSE storageTasks[t]]
        /\ locks' = [locks EXCEPT ![process] = Unlocked]
        /\ commitUnheard' = (commitUnheard /\ process = "worker")
        /\ UNCHANGED <<storageSettings, reserved, objects>>
  BY Zenon DEF Restart, Unlock
<1>2. \A t \in StorageTasks : storageTasks'[t] = NoTask \/ storageTasks'[t] = storageTasks[t]
  BY <1>1
<1>3. StorageRows'
  <2>1. storageTasks' \in [StorageTasks -> TaskRow]
    BY <1>0, <1>1 DEF StorageRows
  <2>2. serving' \in [api : SettingsRow, worker : SettingsRow]
    BY <1>0, <1>1 DEF StorageRows
  <2>3. locks' \in [api : {Unlocked} \cup StorageTasks, worker : {Unlocked} \cup StorageTasks]
    BY <1>0, <1>1 DEF StorageRows
  <2>4. commitUnheard' \in BOOLEAN
    BY <1>1
  <2> QED BY <1>0, <1>1, <2>1, <2>2, <2>3, <2>4 DEF StorageRows
<1>4. UploadsFit'
  <2>1. \A t \in StorageTasks :
           /\ At(t, "staging")' \/ At(t, "storing")' => PrivateDocumentBackend(storageTasks'[t].config)
           /\ At(t, "storing")' => Reservation(t)' \in reserved'
    BY <1>0, <1>1, <1>2, Zenon DEF UploadsFit, Reservation
  <2>2. DocumentsLieWhereReserved'
    BY <1>0, <1>1 DEF UploadsFit, DocumentsLieWhereReserved
  <2> QED BY <2>1, <2>2 DEF UploadsFit, PrivateDocumentBackend
<1>5. \A t \in StorageTasks : storageTasks'[t].since \in Nat /\ storageTasks'[t].since <= storageSettings'.edition
  <2>1. \A t \in StorageTasks : storageTasks[t].since \in Nat /\ storageTasks[t].since <= storageSettings.edition
    BY <1>0, RowsNow DEF JobsFit
  <2> QED BY <1>0, <1>1, <1>2, <2>1
<1>6. CASE process = "api"
  <2>1. /\ serving'.api = storageSettings' /\ serving'.worker = serving.worker /\ locks'.worker = locks.worker
        /\ ~commitUnheard'
    BY <1>0, <1>1, <1>6, Zenon DEF StorageRows
  <2>2. \A t \in StorageTasks : ~Updating(t)'
    BY <1>0, <1>1, <1>6 DEF Updating, OfApi
  <2>3. UpdatesFit'
    <3>1. \A t \in StorageTasks : ~At(t, "probing")' /\ ~At(t, "saving")' /\ ~At(t, "activating")'
      BY <2>2 DEF Updating
    <3>2. StoredWasProbed'
      BY <1>0, <1>1 DEF UpdatesFit, StoredWasProbed, BackendAnswers
    <3> QED BY <2>1, <2>2, <3>1, <3>2 DEF UpdatesFit, ServedIsStored
  <2>4. \A t \in StorageTasks : At(t, "refreshing")' \/ At(t, "refreshed")' \/ At(t, "read")' =>
                                  storageTasks'[t] = storageTasks[t]
    BY <1>0, <1>2
  <2>5. \A t \in StorageTasks :
           /\ At(t, "refreshing")' => locks'.worker = t /\ storageTasks'[t].config.edition = storageTasks'[t].since
           /\ At(t, "refreshed")' => serving'.worker.edition >= storageTasks'[t].since
    BY <1>0, <2>1, <2>4 DEF JobsFit
  <2>6. \A t \in StorageTasks, u \in StorageTasks :
           At(t, "refreshing")' /\ At(u, "refreshed")' => storageTasks'[t].config.edition >= storageTasks'[u].since
    BY <1>0, <2>4 DEF JobsFit
  <2>7. \A t \in StorageTasks : At(t, "read")' => storageTasks'[t].config.edition >= storageTasks'[t].since
    BY <1>0, <2>4 DEF JobsFit, ReadsAreFresh
  <2>8. JobsFit'
    BY <1>5, <2>5, <2>6, <2>7 DEF JobsFit, ReadsAreFresh
  <2> QED BY <1>3, <1>4, <2>3, <2>8 DEF StorageInv
<1>7. CASE process = "worker"
  <2>1. /\ serving'.api = serving.api /\ locks'.api = locks.api /\ commitUnheard' = commitUnheard
    BY <1>0, <1>1, <1>7 DEF StorageRows
  <2>2. \A t \in StorageTasks : ~At(t, "refreshing")' /\ ~At(t, "refreshed")' /\ ~At(t, "read")'
    BY <1>0, <1>1, <1>7 DEF OfApi
  <2>3. JobsFit'
    BY <1>5, <2>2 DEF JobsFit, ReadsAreFresh
  <2>4. \A t \in StorageTasks : Updating(t)' => storageTasks'[t] = storageTasks[t] /\ Updating(t)
    BY <1>0, <1>2 DEF Updating
  <2>5. \A t \in StorageTasks :
           /\ Updating(t)' => locks'.api = t
           /\ At(t, "probing")' \/ At(t, "saving")' =>
                /\ storageTasks'[t].config.edition = storageSettings'.edition + 1
                /\ ~commitUnheard' => serving'.api = storageSettings'
           /\ At(t, "saving")' => BackendAnswers(storageTasks'[t].config)
           /\ At(t, "activating")' => storageTasks'[t].config = storageSettings'
    BY <1>0, <1>1, <2>1, <2>4 DEF UpdatesFit, Updating
  <2>6. ServedIsStored' /\ StoredWasProbed'
    BY <1>0, <1>1, <2>1 DEF UpdatesFit, ServedIsStored, StoredWasProbed, BackendAnswers
  <2>7. UpdatesFit'
    BY <2>5, <2>6 DEF UpdatesFit, Updating, BackendAnswers
  <2> QED BY <1>3, <1>4, <2>3, <2>7 DEF StorageInv
<1> QED BY <1>6, <1>7

\* Nothing happens to the storage.
LEMMA StorageQuiet ==
  ASSUME StorageInv, UNCHANGED storageVars
  PROVE  StorageInv'
BY Zenon DEF StorageInv, storageVars, StorageRows, UpdatesFit, UploadsFit, JobsFit, Updating, At, Reservation,
       ServedIsStored, StoredWasProbed, DocumentsLieWhereReserved, ReadsAreFresh, PrivateDocumentBackend,
       BackendAnswers

\* Nothing is stored.
LEMMA StorageBegins == StorageInit => StorageInv
<1> SUFFICES ASSUME StorageInit PROVE StorageInv
  OBVIOUS
<1>0. NoTask \in TaskRow /\ Unconfigured \in SettingsRow /\ NoTask.phase = "idle" /\ NoTask.since = 0
      /\ Unconfigured.edition = 0
  BY NoTaskIsARow, Zenon DEF NoTask, Unconfigured
<1>1. \A t \in StorageTasks : storageTasks[t] = NoTask
  BY DEF StorageInit
<1>2. StorageRows
  BY <1>0, Zenon DEF StorageInit, StorageRows
<1>3. UpdatesFit /\ UploadsFit
  BY <1>0, <1>1 DEF StorageInit, UpdatesFit, UploadsFit, Updating, At, ServedIsStored, StoredWasProbed,
                    DocumentsLieWhereReserved
<1>4. JobsFit
  BY <1>0, <1>1 DEF StorageInit, JobsFit, At, ReadsAreFresh
<1> QED BY <1>2, <1>3, <1>4 DEF StorageInv

\* Every step of the storage.
LEMMA StorageStep ==
  ASSUME StorageInv, [StorageNext]_storageVars
  PROVE  StorageInv'
<1>1. CASE UNCHANGED storageVars
  BY <1>1, StorageQuiet
<1>2. CASE Restart
  BY <1>2, RestartHolds
<1>3. ASSUME NEW t \in StorageTasks,
             \/ BeginUpdate(t) \/ Probe(t) \/ SaveStorageSettings(t) \/ Activate(t)
             \/ BeginUpload(t) \/ StageUpload(t) \/ UploadStream(t)
             \/ ActivateStored(t) \/ Open(t) \/ DeleteDocument(t) \/ JobEnds(t)
      PROVE  StorageInv'
  <2>1. CASE BeginUpdate(t)
    BY <2>1, BeginUpdateHolds
  <2>2. CASE Probe(t) \/ SaveStorageSettings(t) \/ Activate(t)
    BY <2>2, UpdateHolds
  <2>3. CASE BeginUpload(t) \/ StageUpload(t) \/ UploadStream(t)
    BY <2>3, UploadHolds
  <2>4. CASE ActivateStored(t)
    BY <2>4, RefreshBeginsHolds, RefreshEndsHolds DEF ActivateStored
  <2>5. CASE Open(t) \/ DeleteDocument(t) \/ JobEnds(t)
    BY <2>5, JobHolds
  <2> QED BY <1>3, <2>1, <2>2, <2>3, <2>4, <2>5
<1> QED BY <1>1, <1>2, <1>3 DEF StorageNext

\* What the invariant says of objects, settings and reads.
LEMMA StorageAgrees == StorageInv => StorageHolds
BY DEF StorageInv, UpdatesFit, UploadsFit, JobsFit, StorageHolds

\* What the API serves from is what was probed and stored; documents lie where they were
\* reserved; no job reads from older settings than it counted on: for any number of tasks,
\* forms, buckets and editions (adminstorage/service.go, runtime_manager.go).
THEOREM StorageStays == StorageInit /\ [][StorageNext]_storageVars => []StorageHolds
<1>1. StorageInit => StorageInv
  BY StorageBegins
<1>2. StorageInv /\ [StorageNext]_storageVars => StorageInv'
  BY StorageStep
<1> QED BY <1>1, <1>2, StorageAgrees, PTL
=============================================================================
