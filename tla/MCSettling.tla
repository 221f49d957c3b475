----------------------------- MODULE MCSettling -----------------------------
(***************************************************************************)
(* What must come to an end in the background, for TLC: the leases of the  *)
(* AI guard and the preparations of the daily question, each under the     *)
(* fairness its processes provide.  A behaviour plays one part: the other  *)
(* keeps its initial state.                                               *)
(***************************************************************************)
EXTENDS AIRiskGuard

CONSTANTS Students, Contents, Visitors, Background, Editors, LastDay, MaxRetries,
          HistoryLimit, PracticeBound, RetryBound, SaveBound, None
VARIABLES today, row, strategy, version, selection, job, save, reclaims, practice, batch
VARIABLE part   \* chosen by the initial state, never changed

Daily == INSTANCE DailyQuestion
dailyVars == <<today, row, strategy, version, selection, job, save, reclaims, practice, batch>>

\* A reply limit below the concurrency, and an administrator who changes both.
Changing == {[limit |-> 2, max |-> 1], [limit |-> 1, max |-> 2]}

SettlingInit ==
  /\ part \in {"guard", "daily"} /\ Init /\ Daily!Init
  /\ part = "daily" => settings.limit = 1

SettlingNext ==
  /\ IF part = "guard" THEN Next ELSE UNCHANGED vars
  /\ IF part = "daily" THEN Daily!Next ELSE UNCHANGED dailyVars
  /\ UNCHANGED part

\* The fairness of DailyQuestion, in the behaviours that play it.
DailyPlays == part = "daily"
DailyFairness ==
  /\ \A s \in Students, d \in Daily!Days :
       WF_dailyVars(DailyPlays /\ Daily!Age(s, d) /\ Daily!BatchFollows)
  /\ WF_dailyVars(DailyPlays /\ Daily!Due /\ Daily!BeginBatch)
  /\ \A s \in Students :
       SF_dailyVars(DailyPlays /\ \E w \in Background : Daily!Start(w, s, today) /\ Daily!BatchFollows)
  /\ \A w \in Background :
       /\ SF_dailyVars(Daily!Read(w) /\ Daily!BatchFollows)
       /\ SF_dailyVars(Daily!Context(w) /\ Daily!BatchFollows)
       /\ SF_dailyVars(Daily!Select(w) /\ Daily!BatchFollows)
       /\ SF_dailyVars(Daily!Reserve(w) /\ Daily!BatchFollows)
       /\ SF_dailyVars(Daily!Fail(w) /\ Daily!BatchFollows)
       /\ WF_dailyVars(Daily!Step(w) /\ Daily!BatchFollows)
       /\ WF_dailyVars(Daily!Abandon(w) /\ Daily!BatchFollows)

SettlingSpec ==
  /\ SettlingInit /\ [][SettlingNext]_<<part, vars, dailyVars>>
  /\ GuardFairness /\ DailyFairness

PreparationSettles == Daily!PreparationSettles
=============================================================================
