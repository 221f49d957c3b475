------------------------------- MODULE MCDaily -------------------------------
(***************************************************************************)
(* Instances of DailyQuestion for TLC.  A behaviour plays one scene with   *)
(* some of the students, visitors, background goroutines and editors.      *)
(***************************************************************************)
EXTENDS DailyQuestion, TLC

VARIABLE scene   \* chosen by the initial state, never changed

Symmetry == Permutations(Students) \cup Permutations(Contents)
              \cup Permutations(Visitors) \cup Permutations(Editors)

Scene(students, visitors, background, editors, days, retries, saves, practised) ==
  {[students |-> S, visitors |-> V, background |-> B, editors |-> E,
    days |-> days, retries |-> retries, saves |-> saves, practised |-> practised] :
     S \in {X \in SUBSET Students : Cardinality(X) = students},
     V \in {X \in SUBSET Visitors : Cardinality(X) = visitors},
     B \in {X \in SUBSET Background : Cardinality(X) = background},
     E \in {X \in SUBSET Editors : Cardinality(X) = editors}}

\* Two students are prepared while the teacher switches the strategy and saves the
\* schedule; the schedule is saved twice around one preparation; one row goes to and fro
\* between a visit and the worker; two visits prepare two days of one student, with
\* abandoned preparations taken over, or with an exercise practised meanwhile.
Scenes ==
  Scene(2, 2, 0, 1, 0, 0, 1, 0) \cup Scene(1, 1, 0, 1, 0, 0, 2, 0)
  \cup Scene(1, 1, 1, 1, 0, 2, 1, 0) \cup Scene(1, 2, 0, 0, 1, 1, 1, 0)
  \cup Scene(1, 2, 0, 0, 1, 0, 1, 1)

\* Bounds: a step stays with the days, reservations and saves of its scene; a row
\* grows stale only where another reservation is left.
InScene ==
  /\ today' <= scene.days
  /\ \A d \in Days : d > scene.days => selection'[d] = None
  /\ \A s \in Students, d \in Days : row'[s][d] # None => row'[s][d].retry <= scene.retries
  /\ version' <= scene.saves
  /\ \A s \in Students : Cardinality(practice'[s]) <= scene.practised
  /\ UNCHANGED scene

Plays ==
  \/ \E w \in scene.visitors \cup scene.background :
       (\E s \in scene.students, d \in Days : Start(w, s, d)) \/ Step(w) \/ Abandon(w)
  \/ \E s \in Students, d \in Days : (scene.retries > 0 /\ Age(s, d)) \/ Answer(s, d)
  \/ \E s \in scene.students, c \in Contents : Practise(s, c)
  \/ Midnight \/ SetStrategy
  \/ \E e \in scene.editors : OpenSchedule(e) \/ BeginSave(e) \/ CommitSave(e)

Play == (Plays /\ BatchFollows) \/ (scene.background # {} /\ (BeginBatch \/ ListFails))

SceneInit == Init /\ scene \in Scenes

SceneSpec == SceneInit /\ [][Play /\ InScene]_<<vars, scene>>

\* One instance without scenes.
WholeInit == Init /\ scene = {}

WholeSpec == WholeInit /\ [][Next /\ UNCHANGED scene]_<<vars, scene>>
=============================================================================
