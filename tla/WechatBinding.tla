--------------------------- MODULE WechatBinding ---------------------------
(***************************************************************************)
(* The Official Account: subscriptions and bindings in PostgreSQL, one-time*)
(* binding tickets and the claim of every callback in Redis.  WeChat is    *)
(* outside: it delivers a callback again until it hears an answer, in any  *)
(* order, to any process.                                                  *)
(***************************************************************************)
EXTENDS Integers, FiniteSets, FiniteSetsExt

CONSTANTS OpenIds,       \* followers of the account
          Users,         \* users of the platform
          Times,         \* creation times of callbacks, 0 excluded
          Handlers,      \* requests of WeChat in flight
          MaxCallbacks,  \* bound: callbacks sent by WeChat
          MaxFailures    \* bound: claims that run out and requests that fail

ASSUME BindingAssumption == /\ Times \subseteq Nat \ {0} /\ Handlers \cap {"none", "done"} = {}
                            /\ MaxCallbacks \in Nat /\ MaxFailures \in Nat

VARIABLES binding,    \* wechat_user_bindings, by open id
          ticket,     \* the state of each user's ticket in Redis
          callbacks,  \* the callbacks WeChat has created
          claims,     \* msp:wechat:event: per callback
          handlers,   \* per request, the callback and how far it is
          applied,    \* callbacks that reached the table
          bound,      \* open ids that a ticket has bound
          callbackFailures

bindingVars == <<binding, ticket, callbacks, claims, handlers, applied, bound, callbackFailures>>

NoUser == "nobody"
Follower == [known |-> FALSE, user |-> NoUser, subscribed |-> FALSE, subscribedAt |-> 0, unsubscribedAt |-> 0]
Callback == [from : OpenIds, kind : {"subscribe", "unsubscribe"}, at : Times, user : {NoUser}]
            \cup [from : OpenIds, kind : {"text"}, at : Times, user : Users]
NoHandler == [phase |-> "idle"]
Ticket(status) == [status |-> status, reservedBy |-> {}]

BindingInit ==
    /\ binding = [o \in OpenIds |-> Follower]
    /\ ticket = [u \in Users |-> Ticket("none")]
    /\ callbacks = {}
    /\ claims = <<>>
    /\ handlers = [h \in Handlers |-> NoHandler]
    /\ applied = {}
    /\ bound = [u \in Users |-> {}]
    /\ callbackFailures = 0

-----------------------------------------------------------------------------
(* The profile page *)

(* StoreBindingTicket: SETNX under a fresh digest; one ticket per user here *)
CreateBindingTicket(u) ==
    /\ ticket[u].status = "none"
    /\ ticket' = [ticket EXCEPT ![u] = Ticket("available")]
    /\ UNCHANGED <<binding, callbacks, claims, handlers, applied, bound, callbackFailures>>

TicketExpires(u) ==
    /\ ticket[u].status \in {"available", "reserved"}
    /\ ticket' = [ticket EXCEPT ![u] = Ticket("expired")]
    /\ UNCHANGED <<binding, callbacks, claims, handlers, applied, bound, callbackFailures>>

Unbind(u) ==
    /\ \E o \in OpenIds : binding[o].user = u
    /\ binding' = [o \in OpenIds |-> IF binding[o].user = u THEN [binding[o] EXCEPT !.user = NoUser]
                                                           ELSE binding[o]]
    /\ UNCHANGED <<ticket, callbacks, claims, handlers, applied, bound, callbackFailures>>

-----------------------------------------------------------------------------
(* Callbacks *)

SendCallback(m) ==
    /\ Cardinality(callbacks) < MaxCallbacks
    /\ m \notin callbacks
    /\ m.kind = "text" => ticket[m.user].status # "none"
    /\ callbacks' = callbacks \cup {m}
    /\ claims' = [k \in callbacks' |-> IF k = m THEN "none" ELSE claims[k]]
    /\ UNCHANGED <<binding, ticket, handlers, applied, bound, callbackFailures>>

(* ClaimEvent: a completed callback is answered from the store, one that is
   being processed is refused; both change nothing *)
ProcessIncoming(h, m) ==
    /\ handlers[h].phase = "idle"
    /\ claims[m] = "none"
    /\ claims' = [claims EXCEPT ![m] = h]
    /\ handlers' = [handlers EXCEPT ![h] = [phase |-> IF m.kind = "text" THEN "ticket" ELSE "apply",
                                            message |-> m]]
    /\ UNCHANGED <<binding, ticket, callbacks, applied, bound, callbackFailures>>

Advance(h, phase) == handlers' = [handlers EXCEPT ![h].phase = phase]

(* ConsumeBindingTicket: reserved for the callback that came first *)
ConsumeBindingTicket(h) ==
    LET m == handlers[h].message IN
    /\ handlers[h].phase = "ticket"
    /\ IF ticket[m.user].status = "available" \/ m \in ticket[m.user].reservedBy
       THEN /\ ticket' = [ticket EXCEPT ![m.user] = [status |-> "reserved", reservedBy |-> {m}]]
            /\ Advance(h, "apply")
       ELSE /\ Advance(h, "complete")
            /\ UNCHANGED ticket
    /\ UNCHANGED <<binding, callbacks, claims, applied, bound, callbackFailures>>

Latest(row) == Max({row.subscribedAt, row.unsubscribedAt})

(* SetSubscription: the later callback wins, an unsubscription wins a draw *)
SubscriptionAfter(row, m) ==
    LET on == m.kind = "subscribe" IN
    IF m.at > Latest(row) \/ (m.at = Latest(row) /\ (~on \/ row.subscribed))
    THEN [row EXCEPT !.known = TRUE, !.subscribed = on,
                     !.subscribedAt = IF on THEN m.at ELSE @,
                     !.unsubscribedAt = IF on THEN 0 ELSE m.at]
    ELSE row

(* Bind: a bound open id keeps its user, a bound user keeps its open id *)
Bindable(m) == /\ binding[m.from].user \in {NoUser, m.user}
               /\ \A o \in OpenIds \ {m.from} : binding[o].user # m.user

BoundAfter(row, m) ==
    LET fresh == ~row.known \/ m.at > Latest(row) \/ (m.at = Latest(row) /\ row.subscribed) IN
    [row EXCEPT !.known = TRUE, !.user = m.user,
                !.subscribed = @ \/ fresh,
                !.subscribedAt = IF fresh THEN m.at ELSE @,
                !.unsubscribedAt = IF fresh THEN 0 ELSE @]

SetSubscription(h) ==
    LET m == handlers[h].message IN
    /\ handlers[h].phase = "apply" /\ m.kind # "text"
    /\ binding' = [binding EXCEPT ![m.from] = SubscriptionAfter(@, m)]
    /\ applied' = applied \cup {m}
    /\ Advance(h, "complete")
    /\ UNCHANGED <<ticket, callbacks, claims, bound, callbackFailures>>

Bind(h) ==
    LET m == handlers[h].message IN
    /\ handlers[h].phase = "apply" /\ m.kind = "text"
    /\ IF Bindable(m)
       THEN /\ binding' = [binding EXCEPT ![m.from] = BoundAfter(@, m)]
            /\ applied' = applied \cup {m}
            /\ bound' = [bound EXCEPT ![m.user] = @ \cup {m.from}]
       ELSE UNCHANGED <<binding, applied, bound>>
    /\ Advance(h, "complete")
    /\ UNCHANGED <<ticket, callbacks, claims, callbackFailures>>

(* CompleteEvent: only the owner of the claim publishes the answer *)
CompleteEvent(h) ==
    LET m == handlers[h].message IN
    /\ handlers[h].phase = "complete"
    /\ claims' = IF claims[m] = h THEN [claims EXCEPT ![m] = "done"] ELSE claims
    /\ handlers' = [handlers EXCEPT ![h] = NoHandler]
    /\ UNCHANGED <<binding, ticket, callbacks, applied, bound, callbackFailures>>

(* a failing step releases its own claim; a crash leaves it to its lease *)
ReleaseEvent(h, crashed) ==
    LET m == handlers[h].message IN
    /\ handlers[h].phase # "idle"
    /\ callbackFailures < MaxFailures
    /\ callbackFailures' = callbackFailures + 1
    /\ claims' = IF claims[m] = h /\ ~crashed THEN [claims EXCEPT ![m] = "none"] ELSE claims
    /\ handlers' = [handlers EXCEPT ![h] = NoHandler]
    /\ UNCHANGED <<binding, ticket, callbacks, applied, bound>>

ClaimRunsOut(m) ==
    /\ claims[m] \in Handlers
    /\ callbackFailures < MaxFailures
    /\ callbackFailures' = callbackFailures + 1
    /\ claims' = [claims EXCEPT ![m] = "none"]
    /\ UNCHANGED <<binding, ticket, callbacks, handlers, applied, bound>>

BindingNext ==
    \/ \E u \in Users : CreateBindingTicket(u) \/ TicketExpires(u)
    \/ \E u \in Users : Unbind(u)
    \/ \E m \in Callback : SendCallback(m)
    \/ \E h \in Handlers, m \in callbacks : ProcessIncoming(h, m)
    \/ \E h \in Handlers : ConsumeBindingTicket(h) \/ SetSubscription(h) \/ Bind(h) \/ CompleteEvent(h)
    \/ \E h \in Handlers, crashed \in BOOLEAN : ReleaseEvent(h, crashed)
    \/ \E m \in callbacks : ClaimRunsOut(m)

BindingSpec == BindingInit /\ [][BindingNext]_bindingVars

-----------------------------------------------------------------------------
(* Properties *)

BindingTypeOK ==
    /\ \A o \in OpenIds : binding[o].user \in Users \cup {NoUser}
    /\ \A u \in Users : ticket[u].status \in {"none", "available", "reserved", "expired"}
    /\ callbacks \subseteq Callback
    /\ DOMAIN claims = callbacks
    /\ callbackFailures \in 0..MaxFailures

(* Whatever the order, the repetition and the overlap of the callbacks, a
   follower's subscription is the one of the latest callback that reached the
   table, where a text counts as a sign of life and an unsubscription wins
   over anything of the same moment. *)
OfFollower(o) == {m \in applied : m.from = o}
LatestOf(o) == {m \in OfFollower(o) : \A n \in OfFollower(o) : n.at <= m.at}
SubscriptionFollowsLatest ==
    \A o \in OpenIds : OfFollower(o) # {} =>
        (binding[o].subscribed <=> \A m \in LatestOf(o) : m.kind # "unsubscribe")

(* A ticket binds one follower, however many send its command and however
   often each callback is delivered. *)
TicketBindsOne == \A u \in Users : Cardinality(bound[u]) <= 1

(* A callback whose answer is on record has had its effect, so that the
   answer repeated to WeChat is a true one. *)
DoneIsApplied == \A m \in callbacks : claims[m] = "done" /\ m.kind # "text" => m \in applied

BindingsHold == SubscriptionFollowsLatest /\ TicketBindsOne /\ DoneIsApplied
=============================================================================
