-------------------------- MODULE WechatReminders --------------------------
(***************************************************************************)
(* One job of the WeChat reminder queue: a source event (a message, a      *)
(* notice, a day's question) and a recipient.  Every backend process runs  *)
(* one worker with an owner id of its own; a claim is a lease, renewed     *)
(* right before the send and held on to only by the owner it names.  The   *)
(* provider is outside: a call may succeed, fail, or succeed unheard.      *)
(***************************************************************************)
EXTENDS Integers, FiniteSets

CONSTANTS Workers,            \* processes with a reminder worker
          ReminderAttempts,   \* WECHAT_MESSAGE_REMINDER_MAX_ATTEMPTS
          MaxDoubts,          \* bound: leases that lapse, workers that stop, answers that get lost
          MaxRequeues         \* bound: requeues and toggles of the source or the binding

NoSender == "nobody"

ASSUME ReminderAssumption == /\ IsFiniteSet(Workers) /\ NoSender \notin Workers
                             /\ ReminderAttempts \in Nat \ {0}
                             /\ MaxDoubts \in Nat
                             /\ MaxRequeues \in Nat

VARIABLES reminder,     \* the row of wechat_message_reminder_jobs
          senders,      \* per worker, where processJob stands
          source,       \* the kind of the event and whether it is still actionable
          recipient,    \* the recipient is active, bound and subscribed
          accepted,     \* reminders the provider accepted since the job was last reset
          doubts,       \* outcomes that the queue could not learn
          requeues

reminderVars == <<reminder, senders, source, recipient, accepted, doubts, requeues>>

NoReminder == [status |-> "none", due |-> FALSE, attempts |-> 0, owner |-> NoSender, lease |-> "none"]
NewReminder == [NoReminder EXCEPT !.status = "pending", !.due = TRUE]
Resting == [phase |-> "idle", attempt |-> 0, outcome |-> "none"]
Finished == reminder.status \in {"sent", "skipped", "dead"}

ReminderInit ==
    /\ reminder = NoReminder
    /\ senders = [w \in Workers |-> Resting]
    /\ source \in [kind : {"message", "notice", "daily"}, open : {TRUE}]
    /\ recipient \in BOOLEAN
    /\ accepted = 0
    /\ doubts = 0
    /\ requeues = 0

-----------------------------------------------------------------------------
(* Enqueueing, inside the transaction that creates or repeats the source *)

Reset == /\ reminder' = NewReminder
         /\ accepted' = 0

(* Enqueue, EnqueueNoticeRecipients, EnqueueDailyQuestionRecipients: an
   existing job is left alone *)
EnqueueReminder == /\ reminder.status = "none"
                   /\ source.open
                   /\ requeues < MaxRequeues
                   /\ requeues' = requeues + 1
                   /\ Reset
                   /\ UNCHANGED <<senders, source, recipient, doubts>>

(* RequeueUnconfirmedNoticeRecipients repeats a finished notice; the daily
   question only recovers what was skipped or dead *)
Requeueable == \/ source.kind = "notice" /\ Finished
               \/ source.kind = "daily" /\ reminder.status \in {"skipped", "dead"}

RequeueReminder == /\ source.open
                   /\ Requeueable
                   /\ requeues < MaxRequeues
                   /\ requeues' = requeues + 1
                   /\ Reset
                   /\ UNCHANGED <<senders, source, recipient, doubts>>

(* a message is read, a notice confirmed, a question answered for good; the
   automatic daily reminder is also switched off and on *)
ToggleSource == /\ requeues < MaxRequeues
                /\ source.open \/ source.kind = "daily"
                /\ source' = [source EXCEPT !.open = ~@]
                /\ requeues' = requeues + 1
                /\ UNCHANGED <<reminder, senders, recipient, accepted, doubts>>

ToggleRecipient == /\ requeues < MaxRequeues
                   /\ recipient' = ~recipient
                   /\ requeues' = requeues + 1
                   /\ UNCHANGED <<reminder, senders, source, accepted, doubts>>

RetryComesDue == /\ reminder.status = "pending" /\ ~reminder.due
                 /\ reminder' = [reminder EXCEPT !.due = TRUE]
                 /\ UNCHANGED <<senders, source, recipient, accepted, doubts, requeues>>

(* DeleteFinishedBefore: thirty days later *)
CleanUpReminder == /\ Finished
                   /\ reminder' = NoReminder
                   /\ accepted' = 0
                   /\ UNCHANGED <<senders, source, recipient, doubts, requeues>>

-----------------------------------------------------------------------------
(* The worker *)

\* mutants: a lease is no obstacle; a lapsed lease is never taken over
ClaimableAtOnce == reminder.status = "processing" \/ (reminder.status = "pending" /\ reminder.due)
ClaimablePending == reminder.status = "pending" /\ reminder.due

ReminderClaimable ==
    \/ reminder.status = "pending" /\ reminder.due
    \/ reminder.status = "processing" /\ reminder.lease = "lapsed"

ClaimReminder(w) ==
    /\ senders[w].phase = "idle"
    /\ ReminderClaimable
    /\ reminder' = [reminder EXCEPT !.status = "processing", !.attempts = @ + 1,
                                    !.owner = w, !.lease = "held"]
    /\ senders' = [senders EXCEPT ![w] = [phase |-> "claimed", attempt |-> reminder.attempts + 1,
                                          outcome |-> "none"]]
    /\ UNCHANGED <<source, recipient, accepted, doubts, requeues>>

Enter(w, phase, outcome) ==
    senders' = [senders EXCEPT ![w].phase = phase, ![w].outcome = outcome]

(* ResolveDelivery, before the lease is renewed and again after *)
Deliverable == source.open /\ recipient

ResolveDelivery(w, failed) ==
    /\ senders[w].phase \in {"claimed", "renewed"}
    /\ IF failed THEN Enter(w, "finishing", "retry")
       ELSE IF ~Deliverable THEN Enter(w, "finishing", "skipped")
       ELSE IF senders[w].phase = "claimed" THEN Enter(w, "eligible", "none")
       ELSE Enter(w, "sending", "none")
    /\ UNCHANGED <<reminder, source, recipient, accepted, doubts, requeues>>

\* mutant: the row is updated by its id alone
OwnsById(w) == reminder.status # "none"

Owns(w) == reminder.status = "processing" /\ reminder.owner = w

RenewLease(w) ==
    /\ senders[w].phase = "eligible"
    /\ IF Owns(w) /\ reminder.lease = "held"
       THEN Enter(w, "renewed", "none")
       ELSE senders' = [senders EXCEPT ![w] = Resting]
    /\ UNCHANGED <<reminder, source, recipient, accepted, doubts, requeues>>

(* SendTemplate under its timeout, and ClassifySendError *)
SendReminder(w) ==
    /\ senders[w].phase = "sending"
    /\ \/ /\ Enter(w, "finishing", "sent")
          /\ accepted' = accepted + 1
          /\ UNCHANGED doubts
       \/ /\ doubts < MaxDoubts
          /\ Enter(w, "finishing", "retry")
          /\ accepted' = accepted + 1
          /\ doubts' = doubts + 1
       \/ /\ \E outcome \in {"skipped", "dead", "retry"} : Enter(w, "finishing", outcome)
          /\ UNCHANGED <<accepted, doubts>>
    /\ UNCHANGED <<reminder, source, recipient, requeues>>

(* MarkSent, MarkSkipped, MarkDead, and Reschedule until the attempts of the
   claimed job are used up *)
Concluded(outcome, attempt) ==
    LET released == [reminder EXCEPT !.owner = NoSender, !.lease = "none"] IN
    IF outcome # "retry" THEN [released EXCEPT !.status = outcome]
    ELSE IF attempt >= ReminderAttempts THEN [released EXCEPT !.status = "dead"]
    ELSE [released EXCEPT !.status = "pending", !.due = FALSE]

FinishReminder(w) ==
    /\ senders[w].phase = "finishing"
    /\ reminder' = IF Owns(w) THEN Concluded(senders[w].outcome, senders[w].attempt) ELSE reminder
    /\ senders' = [senders EXCEPT ![w] = Resting]
    /\ UNCHANGED <<source, recipient, accepted, doubts, requeues>>

(* a crash, a shutdown, or a database that fails at the renewal or the mark:
   the job stays leased *)
DropReminder(w) ==
    /\ senders[w].phase # "idle"
    /\ doubts < MaxDoubts
    /\ doubts' = doubts + 1
    /\ senders' = [senders EXCEPT ![w] = Resting]
    /\ UNCHANGED <<reminder, source, recipient, accepted, requeues>>

Abandoned == reminder.owner \in Workers /\ senders[reminder.owner].phase = "idle"

LeaseLapses ==
    /\ reminder.status = "processing" /\ reminder.lease = "held"
    /\ IF Abandoned THEN UNCHANGED doubts
       ELSE doubts < MaxDoubts /\ doubts' = doubts + 1
    /\ reminder' = [reminder EXCEPT !.lease = "lapsed"]
    /\ UNCHANGED <<senders, source, recipient, accepted, requeues>>

WorkerStep(w) == \/ \E failed \in BOOLEAN : ResolveDelivery(w, failed)
                 \/ RenewLease(w)
                 \/ SendReminder(w)
                 \/ FinishReminder(w)

ReminderNext ==
    \/ EnqueueReminder
    \/ RequeueReminder
    \/ ToggleSource
    \/ ToggleRecipient
    \/ RetryComesDue
    \/ CleanUpReminder
    \/ \E w \in Workers : ClaimReminder(w)
    \/ \E w \in Workers : WorkerStep(w)
    \/ \E w \in Workers : DropReminder(w)
    \/ LeaseLapses

ReminderSpec == ReminderInit /\ [][ReminderNext]_reminderVars

(* every process polls, goes on with the job it claimed, and the clock runs *)
ReminderFairness ==
    /\ WF_reminderVars(RetryComesDue)
    /\ WF_reminderVars(LeaseLapses /\ Abandoned)
    /\ \A w \in Workers : WF_reminderVars(ClaimReminder(w)) /\ WF_reminderVars(WorkerStep(w))

-----------------------------------------------------------------------------
(* Properties *)

ReminderTypeOK ==
    /\ reminder \in [status : {"none", "pending", "processing", "sent", "skipped", "dead"}, due : BOOLEAN,
                     attempts : Nat, owner : Workers \cup {NoSender}, lease : {"none", "held", "lapsed"}]
    /\ senders \in [Workers -> [phase : {"idle", "claimed", "eligible", "renewed", "sending", "finishing"},
                                attempt : Nat, outcome : {"none", "sent", "skipped", "dead", "retry"}]]
    /\ doubts \in 0..MaxDoubts
    /\ reminder.status = "processing" <=> reminder.owner # NoSender

(* A recipient gets a reminder a second time only when an outcome was in
   doubt: a lease that lapsed under its owner, a worker that stopped, an
   answer of the provider that was lost.  A requeue starts a new reminder. *)
NoNeedlessRepeat == accepted <= 1 + doubts

(* A job on record as sent stays so until a notice is repeated or the row is
   cleaned up: the late answer of a worker that lost its lease does not put
   it back into the queue. *)
SentStays ==
    [][reminder.status = "sent" => \/ reminder' = reminder
                                   \/ reminder' = NoReminder
                                   \/ source.kind = "notice" /\ requeues' = requeues + 1]_reminderVars

(* The retries of one job end: it is retried only below the limit, and a claim
   above it follows a lease that lapsed or a worker that stopped. *)
AttemptsAreBounded == reminder.attempts <= ReminderAttempts + doubts

ReminderHolds == ReminderTypeOK /\ NoNeedlessRepeat /\ AttemptsAreBounded

(* Every reminder is finished in the end, whatever worker dies over it. *)
ReminderFinishes == reminder.status = "pending" ~> Finished \/ reminder.status = "none"
=============================================================================
