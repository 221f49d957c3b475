----------------------------- MODULE MCFailures -----------------------------
(***************************************************************************)
(* What is under way while something fails, for TLC: the first chat with   *)
(* stops, errors and restarts, and the reminder queue, each under the      *)
(* fairness its processes provide.  A behaviour plays one part: the other  *)
(* keeps an initial state in which none of its fair actions is enabled.    *)
(***************************************************************************)
EXTENDS SessionFirstChat, WechatReminders

VARIABLE part   \* chosen by the initial state, never changed

FailuresInit ==
  /\ part \in {"chat", "reminder"} /\ ChatInit /\ ReminderInit
  /\ part = "chat" => recipient /\ source.kind = "message"

FailuresNext ==
  /\ IF part = "chat" THEN ChatNext ELSE UNCHANGED chatVars
  /\ IF part = "reminder" THEN ReminderNext ELSE UNCHANGED reminderVars
  /\ UNCHANGED part

FailuresSpec ==
  /\ FailuresInit /\ [][FailuresNext]_<<part, chatVars, reminderVars>>
  /\ ChatFairness /\ ReminderFairness

\* Whoever stops a reply is answered, and a reminder that was picked up is finished.
WorkFinishes == StopIsAnswered /\ ReminderFinishes
=============================================================================
