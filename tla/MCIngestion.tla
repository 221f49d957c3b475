---------------------------- MODULE MCIngestion ----------------------------
(***************************************************************************)
(* Instances of ResourceIngestion for TLC.  The full next-state relation   *)
(* on one large instance is out of reach, so a behaviour plays one scene:  *)
(* a group of actions whose interplay matters, with as many documents,     *)
(* workers, models and hashes as that interplay needs.  Together the       *)
(* scenes take every action.                                               *)
(***************************************************************************)
EXTENDS ResourceIngestion, FiniteSets, TLC

VARIABLE scene   \* chosen by the initial state, never changed

CONSTANTS m1, m2, h1, h2   \* members of Models and of Hashes

\* Documents and workers are only ever compared for equality.
Symmetric == Permutations(Owners) \cup Permutations(Docs)

Scene(group, docs, owners, models, hashes, gens) ==
  {[group |-> group, docs |-> D, owners |-> O, models |-> models, hashes |-> hashes, gens |-> gens] :
     D \in {S \in SUBSET Docs : Cardinality(S) = docs}, O \in {S \in SUBSET Owners : Cardinality(S) = owners}}

Fences == Scene("fences", 1, 2, {m1}, {h1, h2}, 1)

Scenes ==
  Fences
  \cup Scene("switches", 2, 1, {m1}, {h1}, 2)
  \cup Scene("switches", 1, 1, {m1, m2}, {h1}, 2)
  \cup Scene("reconcile", 1, 1, {m1}, {h1}, 2)
  \cup Scene("history", 1, 1, {m1}, {h1}, 2)

\* Bounds: a step stays with the hashes and generations of its scene.
InScene ==
  /\ point' \in [Docs -> [Gens -> scene.hashes \cup {None}]]
  /\ \A g \in Gens : g > scene.gens => db'.state[g] = "none"
  /\ UNCHANGED scene

Uploads == \E d \in scene.docs : RegisterIngestion(d) \/ RetryIngestion(d)
Withdrawals == \E d \in scene.docs, deleted \in BOOLEAN : WithdrawIngestion(d, deleted)
Leases == \E k \in Keys : ExpireLease(k)
Retention == \E g \in Gens : EndRetention(g)
Cleanup == \E k \in Keys : CleanupIngestionHistory(k)

Administration ==
  \/ \E m \in scene.models : ActivateEmbeddingModelVersion(m)
  \/ BeginIngestionRebuild
  \/ \E g \in Gens : Promote(g) \/ Rollback(g)
  \/ \E k \in Keys : RetryOperationsJob(k)

\* Workers that may stop at any point.
Work == \E o \in scene.owners : Poll(o) \/ WorkerStep(o)

\* Workers that finish what they claimed, with success or with a final failure.
SteadyWork ==
  \E o \in scene.owners :
    \/ Poll(o)
    \/ PrepareIngestionChunks(o) \/ UpsertPoints(o) \/ VerifyPoints(o)
    \/ DeletePoints(o) \/ CountDeleted(o)
    \/ CompleteIngestionJob(o)
    \/ FailIngestionJob(o, FALSE)

\* Leases run out, processes stop, points are overwritten late, the owner withdraws,
\* reconciliation removes what is left.
PlayFences == scene.group = "fences" /\ (Uploads \/ Withdrawals \/ Work \/ Leases \/ ReconcileStep)

\* Generations replace each other: rebuilds, model changes, promotes, rollbacks and
\* supersession against uploads, retries and operator retries.
PlaySwitches == scene.group = "switches" /\ (Uploads \/ SteadyWork \/ Administration \/ Retention)

\* The same with withdrawals and reconciliation.
PlayReconcile ==
  scene.group = "reconcile" /\ (Uploads \/ Withdrawals \/ SteadyWork \/ Administration \/ Retention \/ ReconcileStep)

\* Retention of the job history against retries, rebuilds and switches.
PlayHistory == scene.group = "history" /\ (Uploads \/ SteadyWork \/ Administration \/ Cleanup)

Play == PlayFences \/ PlaySwitches \/ PlayReconcile \/ PlayHistory

SceneInit == Init /\ scene \in Scenes /\ model \in scene.models

SceneSpec == SceneInit /\ [][Play /\ InScene]_<<vars, scene>>

\* One scene with the deployment's scheduling.
FencesSpec ==
  /\ SceneInit /\ scene \in Fences
  /\ [][PlayFences /\ InScene]_<<vars, scene>>
  /\ Fairness

HistorySpec ==
  /\ SceneInit /\ scene.group = "history"
  /\ [][PlayHistory /\ InScene]_<<vars, scene>>
============================================================================
