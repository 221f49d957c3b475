------------------------- MODULE DailyQuestionProofs -------------------------
(***************************************************************************)
(* Proofs about DailyQuestion for every set of students, contents, workers   *)
(* and editors, and every number of days and retries.                       *)
(*                                                                         *)
(* Two steps alone change what a student may be given: Claim, which starts   *)
(* the row over under a larger retry, and Ready, which needs the retry it    *)
(* claimed.  Every other step is Mild on the rows.  What a worker remembers   *)
(* of its claim (JobFits) survives the steps of the others because rows only *)
(* grow.                                                                   *)
(***************************************************************************)
EXTENDS DailyQuestion, FiniteSetTheorems, TLAPS

Cell(s, d, r) ==
  \A t \in Students, e \in Days :
    row'[t][e] = IF t = s /\ e = d THEN r ELSE row[t][e]

\* No row is added, claimed anew or given a question.
Mild ==
  \A t \in Students, e \in Days :
    /\ row[t][e] = None <=> row'[t][e] = None
    /\ row[t][e] # None =>
         /\ row'[t][e].reason = row[t][e].reason /\ row'[t][e].content = row[t][e].content
         /\ row'[t][e].retry = row[t][e].retry /\ row'[t][e].at = row[t][e].at
         /\ Given(row'[t][e]) <=> Given(row[t][e])
         /\ row[t][e].status = "completed" => row'[t][e].status = "completed"
\* What was given stays as it is, and so does what was practised.
GivenKept ==
  \A t \in Students :
    /\ practice[t] \subseteq practice'[t]
    /\ \A e \in Days : Given(row[t][e]) =>
         /\ Given(row'[t][e]) /\ row'[t][e].content = row[t][e].content
         /\ row'[t][e].at = row[t][e].at
\* Two days of a student in NoRepeatedQuestion.
NotAgain(s, d, e) ==
  /\ d # e /\ Given(row[s][d]) /\ Given(row[s][e])
  /\ row[s][d].content = row[s][e].content
  /\ "repeat" \notin {row[s][d].reason, row[s][e].reason}
  => \/ Newer(s, Days \ {d}, row[s][e].at) >= HistoryLimit
     \/ Newer(s, Days \ {e}, row[s][d].at) >= HistoryLimit
\* A row stays, under the same claim and strategy or under a later claim.
RowsGrow ==
  \A t \in Students, e \in Days : row[t][e] # None =>
    /\ row'[t][e] # None
    /\ \/ row'[t][e].retry = row[t][e].retry /\ StrategyOf(row'[t][e]) = StrategyOf(row[t][e])
       \/ row'[t][e].retry > row[t][e].retry

\* What j may say of the row as worker w's job; only the holder of the current
\* claim may count on anything of it.
JobOk(w, j) ==
  /\ j.at # "idle" => j.s \in Students
  /\ j.at \in {"choose", "finish"} =>
       /\ row[j.s][j.d] # None /\ j.gen <= row[j.s][j.d].retry
       /\ j.gen = row[j.s][j.d].retry => StrategyOf(row[j.s][j.d]) = j.strategy
  /\ j.at = "finish" =>
       /\ j.choice \in Contents
       /\ j.strategy = "uniform" <=> j.reason = "uniform"
\* A background job about to reserve has retries left, and is its student's only one.
BackgroundOk(w, j) ==
  w \in Background =>
    /\ j.kind = "background"
    /\ j.at \in {"context", "select", "reserve"} => reclaims[j.s][j.d] < MaxRetries
    /\ \A v \in Background \ {w} : job[v].at # "idle" /\ j.at # "idle" => job[v].s # j.s
\* Whom the worker works on is no longer left in its batch.
BatchFits == \A w \in Background : job[w].at # "idle" => job[w].s \notin batch.left
JobFits == \A w \in Workers : JobOk(w, job[w])
BackgroundFits == \A w \in Workers : BackgroundOk(w, job[w])

ReclaimsFit ==
  \A s \in Students, d \in Days :
    /\ row[s][d] = None => reclaims[s][d] = 0
    /\ row[s][d] # None => reclaims[s][d] <= row[s][d].retry
Inv ==
  /\ RowsTyped /\ JobFits /\ ReclaimsFit /\ BackgroundFits
  /\ RowsAgree /\ ReclaimsBounded

-----------------------------------------------------------------------------
(* Cells and records.                                                       *)

LEMMA CellUpdate ==
  ASSUME RowsTyped, NEW s \in Students, NEW d \in Days, NEW r,
         row' = [row EXCEPT ![s][d] = r]
  PROVE  Cell(s, d, r) /\ (r \in Rows => row' \in [Students -> [Days -> Rows \cup {None}]])
BY DEF RowsTyped, Cell

LEMMA IdleTyped == ASSUME NEW w \in Workers PROVE IdleJob(w) \in Jobs
<1>1. 0 \in Days /\ NoGen \in 0..NoGen
  BY DailyAssumption DEF Days, NoGen
<1> QED
  BY <1>1 DEF IdleJob, Jobs, Strategies, Reasons

LEMMA QuitTyped ==
  ASSUME RowsTyped, NEW w \in Workers, Quit(w) PROVE job' \in [Workers -> Jobs]
BY IdleTyped DEF Quit, RowsTyped

LEMMA GotoTyped ==
  ASSUME RowsTyped, NEW w \in Workers,
         NEW where \in {"read", "context", "select", "reserve", "choose", "finish", "fail"},
         Goto(w, where)
  PROVE  job' \in [Workers -> Jobs]
<1>1. [job[w] EXCEPT !.at = where] \in Jobs
  BY ZenonT(30) DEF RowsTyped, Jobs
<1> QED
  BY <1>1 DEF Goto, RowsTyped

\* A row is a record.
LEMMA RowTyped ==
  ASSUME RowsTyped, NEW s \in Students, NEW d \in Days, row[s][d] # None
  PROVE  /\ row[s][d] \in Rows /\ row[s][d].retry \in 0..RetryBound
         /\ Given(row[s][d]) <=> row[s][d].content # None
BY DEF RowsTyped, Rows

\* Counts of what was told to a student.
LEMMA NewerTyped ==
  ASSUME RowsTyped, NEW s \in Students, NEW D \in SUBSET Days, NEW n
  PROVE  /\ Newer(s, D, n) \in Nat
         /\ IsFiniteSet({e \in D : Given(row[s][e]) /\ row[s][e].at > n})
         /\ IsFiniteSet({t \in practice[s] : t.at > n})
<1>1. IsFiniteSet(Days)
  BY DailyAssumption, FS_Interval DEF Days
<1>2. /\ IsFiniteSet({e \in D : Given(row[s][e]) /\ row[s][e].at > n})
      /\ IsFiniteSet({t \in practice[s] : t.at > n})
  <2>1. IsFiniteSet(practice[s])
    BY DEF RowsTyped
  <2>2. /\ {e \in D : Given(row[s][e]) /\ row[s][e].at > n} \in SUBSET Days
        /\ {t \in practice[s] : t.at > n} \in SUBSET practice[s]
    OBVIOUS
  <2> QED
    BY <1>1, <2>1, <2>2, FS_Subset
<1> QED
  BY <1>2, FS_CardinalityType DEF Newer

LEMMA NewerGrows ==
  ASSUME RowsTyped, RowsTyped', GivenKept, NEW s \in Students, NEW D \in SUBSET Days, NEW n
  PROVE  /\ Newer(s, D, n) \in Nat /\ Newer(s, D, n)' \in Nat
         /\ Newer(s, D, n)' >= Newer(s, D, n)
<1> DEFINE A == {e \in D : Given(row[s][e]) /\ row[s][e].at > n}
           B == {t \in practice[s] : t.at > n}
           A2 == {e \in D : Given(row'[s][e]) /\ row'[s][e].at > n}
           B2 == {t \in practice'[s] : t.at > n}
<1>1. A \in SUBSET A2 /\ B \in SUBSET B2
  BY DEF GivenKept
<1>2. IsFiniteSet(A) /\ IsFiniteSet(B)
  BY NewerTyped
<1>3. IsFiniteSet(A2) /\ IsFiniteSet(B2)
  <2>1. IsFiniteSet(Days)
    BY DailyAssumption, FS_Interval DEF Days
  <2>2. IsFiniteSet(practice'[s])
    BY DEF RowsTyped
  <2>3. A2 \in SUBSET Days /\ B2 \in SUBSET practice'[s]
    OBVIOUS
  <2> HIDE DEF A2, B2
  <2> QED
    BY <2>1, <2>2, <2>3, FS_Subset
<1>4. Newer(s, D, n) = Cardinality(A) + Cardinality(B)
      /\ Newer(s, D, n)' = Cardinality(A2) + Cardinality(B2)
  BY DEF Newer
<1> HIDE DEF A, B, A2, B2
<1>5. Cardinality(A) <= Cardinality(A2) /\ Cardinality(B) <= Cardinality(B2)
  BY <1>1, <1>3, FS_Subset
<1>6. /\ Cardinality(A) \in Nat /\ Cardinality(A2) \in Nat
      /\ Cardinality(B) \in Nat /\ Cardinality(B2) \in Nat
  BY <1>2, <1>3, FS_CardinalityType
<1> QED
  BY <1>4, <1>5, <1>6

\* Days given before a step stay apart after it.
LEMMA OldDaysKeep ==
  ASSUME RowsTyped, RowsTyped', GivenKept, NEW s \in Students, NEW d \in Days, NEW e \in Days,
         NotAgain(s, d, e), Given(row[s][d]), Given(row[s][e]),
         row'[s][d].reason = row[s][d].reason, row'[s][e].reason = row[s][e].reason
  PROVE  NotAgain(s, d, e)'
<1>1. /\ row'[s][d].at = row[s][d].at /\ row'[s][d].content = row[s][d].content
      /\ row'[s][e].at = row[s][e].at /\ row'[s][e].content = row[s][e].content
  BY DEF GivenKept
<1>2. ASSUME NEW D \in SUBSET Days, NEW n, Newer(s, D, n) >= HistoryLimit
      PROVE  Newer(s, D, n)' >= HistoryLimit
  <2>1. /\ Newer(s, D, n) \in Nat /\ Newer(s, D, n)' \in Nat
        /\ Newer(s, D, n)' >= Newer(s, D, n)
    BY NewerGrows
  <2> QED
    BY <1>2, <2>1, DailyAssumption
<1> QED
  BY <1>1, <1>2 DEF NotAgain

LEMMA InitInv == Init => Inv
<1> SUFFICES ASSUME Init PROVE Inv
  OBVIOUS
<1>1. 0 \in Days /\ None \notin Rows /\ MaxRetries \in Nat \ {0}
  BY DailyAssumption, RowAssumption DEF Days
<1>2. RowsTyped
  <2>1. job \in [Workers -> Jobs]
    BY IdleTyped DEF Init
  <2>2. save \in [Editors -> Saves]
    <3>1. IdleSave \in Saves
      BY DailyAssumption DEF IdleSave, Saves
    <3> QED
      BY <3>1 DEF Init
  <2>3. \A s \in Students, d \in Days : row[s][d] = None
    BY DEF Init
  <2>4. version \in 0..SaveBound /\ today \in Days
    BY <1>1, DailyAssumption DEF Init
  <2>5. practice \in [Students -> SUBSET Submissions] /\ \A s \in Students : IsFiniteSet(practice[s])
    BY FS_EmptySet DEF Init
  <2> QED
    BY <2>1, <2>2, <2>3, <2>4, <2>5 DEF Init, RowsTyped, Strategies
<1>3. \A w \in Workers : job[w].at = "idle" /\ (w \in Background => job[w].kind = "background")
  BY DEF Init, IdleJob
<1>4. \A s \in Students, d \in Days : row[s][d] = None /\ reclaims[s][d] = 0
  BY DEF Init
<1>5. JobFits /\ BackgroundFits
  BY <1>3 DEF JobFits, JobOk, BackgroundFits, BackgroundOk
<1>6. ReclaimsFit /\ ReclaimsBounded
  BY <1>1, <1>4 DEF ReclaimsFit, ReclaimsBounded
<1>7. OneStrategyPerDay /\ UniformDayAgrees /\ NoRepeatedQuestion
  BY <1>4 DEF OneStrategyPerDay, UniformDayAgrees, NoRepeatedQuestion, RowsOn, Given
<1> QED
  BY <1>2, <1>5, <1>6, <1>7 DEF Inv, RowsAgree

-----------------------------------------------------------------------------
(* Steps that change the rows little, or not at all.                        *)

LEMMA SameRowsAreMild == ASSUME row' = row PROVE Mild
BY DEF Mild, Given

LEMMA MildGrows == ASSUME RowsTyped, Mild PROVE RowsGrow
<1> SUFFICES ASSUME NEW t \in Students, NEW e \in Days, row[t][e] # None
             PROVE  row'[t][e] # None /\ row'[t][e].retry = row[t][e].retry
                      /\ StrategyOf(row'[t][e]) = StrategyOf(row[t][e])
  BY DEF RowsGrow
<1> QED
  BY DEF Mild, StrategyOf

LEMMA MildKeepsGiven == ASSUME Mild, practice' = practice PROVE GivenKept
<1> SUFFICES ASSUME NEW t \in Students, NEW e \in Days, Given(row[t][e])
             PROVE  /\ Given(row'[t][e]) /\ row'[t][e].content = row[t][e].content
                    /\ row'[t][e].at = row[t][e].at
  BY DEF GivenKept
<1>1. row[t][e] # None
  BY DEF Given
<1> QED
  BY <1>1 DEF Mild

LEMMA MildKeepsAgreement ==
  ASSUME RowsTyped, RowsTyped', RowsAgree, Mild, selection' = selection, practice' = practice
  PROVE  RowsAgree'
<1>1. \A t \in Students, e \in Days : row'[t][e] # None =>
        /\ row[t][e] # None /\ row'[t][e].reason = row[t][e].reason
        /\ row'[t][e].content = row[t][e].content /\ (Given(row'[t][e]) => Given(row[t][e]))
  BY DEF Mild
<1>2. OneStrategyPerDay'
  BY <1>1 DEF RowsAgree, OneStrategyPerDay, RowsOn, StrategyOf
<1>3. UniformDayAgrees'
  <2> SUFFICES ASSUME NEW s \in Students, NEW d \in Days, Given(row'[s][d]),
                      row'[s][d].reason = "uniform"
               PROVE  selection[d] = row'[s][d].content
    BY DEF UniformDayAgrees
  <2> QED
    BY <1>1 DEF RowsAgree, UniformDayAgrees, Given
<1>4. NoRepeatedQuestion'
  <2> SUFFICES ASSUME NEW s \in Students, NEW d \in Days, NEW e \in Days PROVE NotAgain(s, d, e)'
    BY DEF NoRepeatedQuestion, NotAgain
  <2>1. NotAgain(s, d, e) /\ GivenKept
    BY MildKeepsGiven DEF RowsAgree, NoRepeatedQuestion, NotAgain
  <2>2. ASSUME Given(row'[s][d]), Given(row'[s][e]) PROVE NotAgain(s, d, e)'
    <3>1. row'[s][d] # None /\ row'[s][e] # None
      BY <2>2 DEF Given
    <3>2. /\ Given(row[s][d]) /\ row'[s][d].reason = row[s][d].reason
          /\ Given(row[s][e]) /\ row'[s][e].reason = row[s][e].reason
      BY <1>1, <2>2, <3>1
    <3> QED
      BY <2>1, <3>2, OldDaysKeep
  <2> QED
    BY <2>2 DEF NotAgain
<1> QED
  BY <1>2, <1>3, <1>4 DEF RowsAgree

LEMMA MildKeepsReclaims ==
  ASSUME ReclaimsFit, ReclaimsBounded, Mild, reclaims' = reclaims
  PROVE  ReclaimsFit' /\ ReclaimsBounded'
BY DEF Mild, ReclaimsFit, ReclaimsBounded

\* What a worker remembers of its claim outlives what others do to the row.
LEMMA OthersFit ==
  ASSUME RowsTyped, RowsTyped', RowsGrow, NEW w \in Workers, JobOk(w, job[w]), job'[w] = job[w]
  PROVE  JobOk(w, job[w])'
<1> DEFINE j == job[w]
<1>0. j \in Jobs
  BY DEF RowsTyped
<1>1. CASE j.at \in {"choose", "finish"}
  <2>1. j.s \in Students /\ j.d \in Days /\ j.gen \in Nat
    BY <1>0, <1>1, DailyAssumption DEF JobOk, Jobs, NoGen
  <2>2. row[j.s][j.d] # None /\ j.gen <= row[j.s][j.d].retry
    BY <1>1 DEF JobOk
  <2>3. row'[j.s][j.d] # None
    BY <2>1, <2>2 DEF RowsGrow
  <2>4. row[j.s][j.d].retry \in Nat /\ row'[j.s][j.d].retry \in Nat
    BY <2>1, <2>2, <2>3, DailyAssumption DEF RowsTyped, Rows
  <2>5. /\ j.gen <= row'[j.s][j.d].retry
        /\ j.gen = row'[j.s][j.d].retry => StrategyOf(row'[j.s][j.d]) = j.strategy
    <3>1. CASE row'[j.s][j.d].retry = row[j.s][j.d].retry
                 /\ StrategyOf(row'[j.s][j.d]) = StrategyOf(row[j.s][j.d])
      BY <1>1, <2>2, <3>1 DEF JobOk
    <3>2. CASE row'[j.s][j.d].retry > row[j.s][j.d].retry
      BY <2>1, <2>2, <2>4, <3>2
    <3> QED
      BY <2>1, <2>2, <3>1, <3>2 DEF RowsGrow
  <2> QED
    BY <2>1, <2>3, <2>5 DEF JobOk
<1>2. CASE j.at \notin {"choose", "finish"}
  BY <1>2 DEF JobOk
<1> QED
  BY <1>1, <1>2

LEMMA OthersInBackground ==
  ASSUME BackgroundFits, NEW w \in Workers, NEW j, BackgroundOk(w, j),
         job' = [job EXCEPT ![w] = j], job \in [Workers -> Jobs], reclaims' = reclaims
  PROVE  BackgroundFits'
<1> SUFFICES ASSUME NEW v \in Workers, v \in Background PROVE BackgroundOk(v, job[v])'
  BY DEF BackgroundFits, BackgroundOk
<1>1. \A u \in Workers : job'[u] = IF u = w THEN j ELSE job[u]
  OBVIOUS
<1>2. Background \subseteq Workers
  BY DEF Workers
<1>3. BackgroundOk(v, job[v])
  BY DEF BackgroundFits
<1> QED
  BY <1>1, <1>2, <1>3 DEF BackgroundOk

-----------------------------------------------------------------------------
(* One step of each kind.                                                   *)

LEMMA OnlyJob ==
  ASSUME Inv, NEW w \in Workers, NEW j \in Jobs, JobOk(w, j), BackgroundOk(w, j),
         job' = [job EXCEPT ![w] = j], UNCHANGED <<today, row, reclaims, practice, schedule>>
  PROVE  Inv'
<1>1. Mild /\ RowsGrow
  BY SameRowsAreMild, MildGrows DEF Inv
<1>2. RowsTyped'
  BY DEF Inv, RowsTyped, schedule
<1>3. JobFits'
  <2> SUFFICES ASSUME NEW v \in Workers PROVE JobOk(v, job[v])'
    BY DEF JobFits
  <2>1. CASE v = w
    BY <2>1 DEF Inv, RowsTyped, JobOk
  <2>2. CASE v # w
    BY <1>1, <1>2, <2>2, OthersFit DEF Inv, RowsTyped, JobFits
  <2> QED
    BY <2>1, <2>2
<1>4. BackgroundFits'
  BY OthersInBackground DEF Inv, RowsTyped
<1>5. ReclaimsFit' /\ ReclaimsBounded' /\ RowsAgree'
  BY <1>1, <1>2, MildKeepsReclaims, MildKeepsAgreement DEF Inv, schedule
<1> QED
  BY <1>2, <1>3, <1>4, <1>5 DEF Inv

LEMMA IdleOk == ASSUME NEW w \in Workers PROVE JobOk(w, IdleJob(w)) /\ BackgroundOk(w, IdleJob(w))
BY DEF JobOk, BackgroundOk, IdleJob

LEMMA QuitKeeps ==
  ASSUME Inv, NEW w \in Workers, Quit(w), UNCHANGED <<today, row, reclaims, practice, schedule>>
  PROVE  Inv'
BY IdleTyped, IdleOk, OnlyJob DEF Quit

\* The rows change mildly in the one cell and the job of w, if any, ends.
LEMMA MildStep ==
  ASSUME Inv, Mild, row' \in [Students -> [Days -> Rows \cup {None}]],
         \A s \in Students, d \in Days :
           row'[s][d] # None => (Given(row'[s][d]) <=> row'[s][d].content # None),
         job' = job \/ \E w \in Workers : Quit(w), UNCHANGED <<today, reclaims, practice, schedule>>
  PROVE  Inv'
<1>1. RowsGrow
  BY MildGrows DEF Inv
<1>2. job' \in [Workers -> Jobs]
  BY QuitTyped DEF Inv, RowsTyped
<1>3. RowsTyped'
  BY <1>2 DEF Inv, RowsTyped, schedule
<1>4. JobFits' /\ BackgroundFits'
  <2>1. CASE job' = job
    <3>1. JobFits'
      BY <1>1, <1>3, <2>1, OthersFit DEF Inv, JobFits
    <3>2. BackgroundFits'
      BY <2>1 DEF Inv, BackgroundFits, BackgroundOk
    <3> QED
      BY <3>1, <3>2
  <2>2. CASE \E w \in Workers : Quit(w)
    <3> PICK w \in Workers : Quit(w)
      BY <2>2
    <3>1. job' = [job EXCEPT ![w] = IdleJob(w)] /\ job \in [Workers -> Jobs]
      BY DEF Quit, Inv, RowsTyped
    <3>2. BackgroundFits'
      BY <3>1, IdleOk, OthersInBackground DEF Inv
    <3>3. JobFits'
      <4> SUFFICES ASSUME NEW v \in Workers PROVE JobOk(v, job[v])'
        BY DEF JobFits
      <4>1. CASE v = w
        BY <3>1, <4>1 DEF JobOk, IdleJob
      <4>2. CASE v # w
        <5>1. job'[v] = job[v] /\ JobOk(v, job[v])
          BY <3>1, <4>2 DEF Inv, JobFits
        <5> QED
          BY <5>1, <1>1, <1>3, OthersFit DEF Inv
      <4> QED
        BY <4>1, <4>2
    <3> QED
      BY <3>2, <3>3
  <2> QED
    BY <2>1, <2>2
<1>5. ReclaimsFit' /\ ReclaimsBounded' /\ RowsAgree'
  BY <1>3, MildKeepsReclaims, MildKeepsAgreement DEF Inv, schedule
<1> QED
  BY <1>3, <1>4, <1>5 DEF Inv

-----------------------------------------------------------------------------
(* The steps of a preparation.                                              *)

LEMMA StartKeeps ==
  ASSUME Inv, BatchFits, NEW w \in Workers, NEW s \in Students, NEW d \in Days, Start(w, s, d)
  PROVE  Inv'
<1> DEFINE j == [job[w] EXCEPT !.at = "read", !.s = s, !.d = d]
           m == [j EXCEPT !.kind = "makeup"]
<1>1. job[w] \in Jobs /\ JobOk(w, job[w]) /\ BackgroundOk(w, job[w])
  BY DEF Inv, RowsTyped, JobFits, BackgroundFits
<1>2. j \in Jobs /\ m \in Jobs
  BY <1>1 DEF Jobs
<1>3. j.at = "read" /\ j.s = s /\ j.kind = job[w].kind /\ m.at = "read" /\ m.s = s
  BY <1>1 DEF Jobs
<1>4. w \in Background => \A v \in Background \ {w} : job[v].at # "idle" => job[v].s # s
  BY DEF Start, BatchFits
<1>5. JobOk(w, j) /\ BackgroundOk(w, j) /\ JobOk(w, m)
  BY <1>1, <1>3, <1>4 DEF JobOk, BackgroundOk
<1>6. CASE job' = [job EXCEPT ![w].at = "read", ![w].s = s, ![w].d = d]
  <2>1. job' = [job EXCEPT ![w] = j]
    BY <1>6 DEF Inv, RowsTyped
  <2> QED
    BY <1>2, <1>5, <2>1, OnlyJob DEF Start
<1>7. CASE w \in Visitors
            /\ job' = [job EXCEPT ![w].at = "read", ![w].s = s, ![w].d = d, ![w].kind = "makeup"]
  <2>1. job' = [job EXCEPT ![w] = m]
    BY <1>7 DEF Inv, RowsTyped
  <2>2. BackgroundOk(w, m)
    BY <1>7, DailyAssumption DEF BackgroundOk
  <2> QED
    BY <1>2, <1>5, <2>1, <2>2, OnlyJob DEF Start
<1> QED
  BY <1>6, <1>7 DEF Start

\* What the row of a job that runs is.
LEMMA RunningJob ==
  ASSUME Inv, NEW w \in Workers, job[w].at # "idle"
  PROVE  /\ job[w] \in Jobs /\ job[w].s \in Students /\ job[w].d \in Days
         /\ RowOf(w) # None => RowOf(w) \in Rows /\ RowOf(w).retry \in 0..RetryBound
         /\ JobOk(w, job[w]) /\ BackgroundOk(w, job[w])
<1>1. job[w] \in Jobs /\ JobOk(w, job[w]) /\ BackgroundOk(w, job[w])
  BY DEF Inv, RowsTyped, JobFits, BackgroundFits
<1>2. job[w].s \in Students /\ job[w].d \in Days
  BY <1>1 DEF JobOk, Jobs
<1> QED
  BY <1>1, <1>2, RowTyped DEF Inv, RowOf

\* A job that moves on to read-only work it has retries for.
LEMMA GotoKeeps ==
  ASSUME Inv, NEW w \in Workers, NEW k \in Strategies, NEW g \in 0..NoGen,
         NEW where \in {"context", "select", "reserve", "fail"}, job[w].at # "idle",
         w \in Background /\ where # "fail" =>
           reclaims[job[w].s][job[w].d] < MaxRetries,
         job' = [job EXCEPT ![w] = [job[w] EXCEPT !.at = where, !.gen = g, !.strategy = k]],
         UNCHANGED <<today, row, reclaims, practice, schedule>>
  PROVE  Inv'
<1> DEFINE j == [job[w] EXCEPT !.at = where, !.gen = g, !.strategy = k]
<1>1. job[w] \in Jobs /\ JobOk(w, job[w]) /\ BackgroundOk(w, job[w]) /\ job[w].s \in Students
  BY RunningJob
<1>2. j \in Jobs
  BY <1>1 DEF Jobs
<1>3. j.at = where /\ j.s = job[w].s /\ j.d = job[w].d /\ j.kind = job[w].kind
  BY <1>1 DEF Jobs
<1>4. JobOk(w, j)
  BY <1>1, <1>3 DEF JobOk
<1>5. BackgroundOk(w, j)
  BY <1>1, <1>3 DEF BackgroundOk
<1> QED
  BY <1>2, <1>4, <1>5, OnlyJob

LEMMA ReadKeeps == ASSUME Inv, NEW w \in Workers, Read(w) PROVE Inv'
<1>0. /\ job[w].at = "read" /\ job[w] \in Jobs /\ job[w].s \in Students /\ job[w].d \in Days
      /\ RowOf(w) # None => RowOf(w) \in Rows /\ RowOf(w).retry \in 0..RetryBound
      /\ BackgroundOk(w, job[w])
  BY RunningJob DEF Read
<1>1. job[w].strategy \in Strategies /\ 0..RetryBound \subseteq 0..NoGen /\ NoGen \in 0..NoGen
  BY <1>0, DailyAssumption DEF Jobs, NoGen
<1>2. CASE Quit(w)
  BY <1>2, QuitKeeps DEF Read
<1>3. CASE Preparing(RowOf(w)) /\ job' = [job EXCEPT ![w].at = "fail", ![w].gen = RowOf(w).retry]
  <2>1. RowOf(w).retry \in 0..NoGen
    BY <1>0, <1>1, <1>3 DEF Preparing
  <2>2. job' = [job EXCEPT ![w] = [job[w] EXCEPT !.at = "fail", !.gen = RowOf(w).retry,
                                                 !.strategy = job[w].strategy]]
    BY <1>0, <1>3 DEF Jobs, Inv, RowsTyped
  <2> QED
    BY <1>0, <1>1, <2>1, <2>2, GotoKeeps DEF Read
<1>4. CASE /\ ~(RowOf(w) # None /\ Exhausted(w))
           /\ job' = [job EXCEPT ![w].at = "context",
                ![w].gen = IF Preparing(RowOf(w)) THEN RowOf(w).retry ELSE NoGen]
  <2> DEFINE g == IF Preparing(RowOf(w)) THEN RowOf(w).retry ELSE NoGen
  <2>1. g \in 0..NoGen
    BY <1>0, <1>1 DEF Preparing
  <2>2. job' = [job EXCEPT ![w] = [job[w] EXCEPT !.at = "context", !.gen = g,
                                                 !.strategy = job[w].strategy]]
    BY <1>0, <1>4 DEF Jobs, Inv, RowsTyped
  <2>3. w \in Background => reclaims[job[w].s][job[w].d] < MaxRetries
    <3> SUFFICES ASSUME w \in Background, job[w].kind = "background"
                 PROVE  reclaims[job[w].s][job[w].d] < MaxRetries
      BY <1>0 DEF BackgroundOk
    <3>1. reclaims[job[w].s][job[w].d] \in Nat /\ MaxRetries \in Nat \ {0} /\ RetryBound \in Nat
      BY <1>0, DailyAssumption DEF Inv, RowsTyped
    <3>2. CASE RowOf(w) = None
      BY <1>0, <3>1, <3>2 DEF Inv, ReclaimsFit, RowOf
    <3>3. CASE RowOf(w) # None
      <4>1. RowOf(w).retry < MaxRetries
        BY <1>0, <1>4, <3>1, <3>3 DEF Exhausted
      <4>2. reclaims[job[w].s][job[w].d] <= RowOf(w).retry
        BY <1>0, <3>3 DEF Inv, ReclaimsFit, RowOf
      <4> QED
        BY <1>0, <3>1, <3>3, <4>1, <4>2
    <3> QED
      BY <3>2, <3>3
  <2> QED
    BY <1>0, <1>1, <2>1, <2>2, <2>3, GotoKeeps DEF Read
<1> QED
  BY <1>2, <1>3, <1>4 DEF Read

LEMMA ContextKeeps == ASSUME Inv, NEW w \in Workers, Context(w) PROVE Inv'
<1>0. /\ job[w].at = "context" /\ job[w] \in Jobs /\ job[w].s \in Students /\ job[w].d \in Days
      /\ BackgroundOk(w, job[w])
  BY RunningJob DEF Context
<1>1. PICK k \in (IF RowOf(w) # None THEN {StrategyOf(RowOf(w))} ELSE Effective(job[w].d)) :
        job' = [job EXCEPT ![w].strategy = k,
                           ![w].at = IF k = "uniform" THEN "select" ELSE "reserve"]
  BY DEF Context
<1>2. k \in Strategies
  BY <1>1 DEF Effective, StrategyOf, Strategies, Inv, RowsTyped
<1> DEFINE where == IF k = "uniform" THEN "select" ELSE "reserve"
<1>3. job' = [job EXCEPT ![w] = [job[w] EXCEPT !.at = where, !.gen = job[w].gen, !.strategy = k]]
  BY <1>0, <1>1 DEF Jobs, Inv, RowsTyped
<1>4. job[w].gen \in 0..NoGen /\ where \in {"select", "reserve"}
  BY <1>0 DEF Jobs
<1>5. w \in Background => reclaims[job[w].s][job[w].d] < MaxRetries
  BY <1>0 DEF BackgroundOk
<1> QED
  BY <1>0, <1>2, <1>3, <1>4, <1>5, GotoKeeps DEF Context

LEMMA SelectKeeps == ASSUME Inv, NEW w \in Workers, Select(w) PROVE Inv'
<1>0. /\ job[w].at = "select" /\ job[w] \in Jobs /\ BackgroundOk(w, job[w])
  BY RunningJob DEF Select
<1>1. CASE Quit(w)
  BY <1>1, QuitKeeps DEF Select
<1>2. ASSUME NEW where \in {"reserve", "fail"}, Goto(w, where) PROVE Inv'
  <2>1. job' = [job EXCEPT ![w] = [job[w] EXCEPT !.at = where, !.gen = job[w].gen,
                                                 !.strategy = job[w].strategy]]
    BY <1>0, <1>2 DEF Goto, Jobs, Inv, RowsTyped
  <2>2. job[w].gen \in 0..NoGen /\ job[w].strategy \in Strategies
    BY <1>0 DEF Jobs
  <2>3. w \in Background => reclaims[job[w].s][job[w].d] < MaxRetries
    BY <1>0 DEF BackgroundOk
  <2> QED
    BY <1>0, <2>1, <2>2, <2>3, GotoKeeps DEF Select
<1> QED
  BY <1>1, <1>2 DEF Select

LEMMA StrategyChangedKeeps == ASSUME Inv, NEW w \in Workers, StrategyChanged(w) PROVE Inv'
<1>0. job[w] \in Jobs /\ job[w].s \in Students /\ BackgroundOk(w, job[w]) /\ JobOk(w, job[w])
      /\ job[w].at = "reserve"
  BY RunningJob DEF StrategyChanged
<1>1. CASE Quit(w)
  BY <1>1, QuitKeeps DEF StrategyChanged
<1>2. CASE job[w].tries < 2 /\ ~Quit(w)
  <2> DEFINE j == [IdleJob(w) EXCEPT !.at = "read", !.s = job[w].s, !.d = job[w].d,
                                     !.kind = job[w].kind, !.tries = job[w].tries + 1]
  <2>1. job[w].tries \in 0..2 /\ job[w].tries + 1 \in 0..2
    BY <1>0, <1>2 DEF Jobs
  <2>2. j \in Jobs
    BY <1>0, <2>1, IdleTyped DEF Jobs
  <2>3. j.at = "read" /\ j.s = job[w].s /\ j.kind = job[w].kind
    BY DEF IdleJob
  <2>4. JobOk(w, j)
    BY <1>0, <2>3 DEF JobOk
  <2>5. BackgroundOk(w, j)
    BY <1>0, <2>3 DEF BackgroundOk
  <2>6. job' = [job EXCEPT ![w] = j]
    BY <1>2 DEF StrategyChanged
  <2> QED
    BY <2>2, <2>4, <2>5, <2>6, OnlyJob DEF StrategyChanged
<1> QED
  BY <1>1, <1>2 DEF StrategyChanged

LEMMA ChooseKeeps == ASSUME Inv, NEW w \in Workers, Choose(w) PROVE Inv'
<1>0. job[w] \in Jobs /\ job[w].s \in Students /\ BackgroundOk(w, job[w]) /\ JobOk(w, job[w])
      /\ job[w].at = "choose"
  BY RunningJob DEF Choose
<1>1. CASE Goto(w, "fail")
  <2>1. job' = [job EXCEPT ![w] = [job[w] EXCEPT !.at = "fail", !.gen = job[w].gen,
                                                 !.strategy = job[w].strategy]]
    BY <1>0, <1>1 DEF Goto, Jobs, Inv, RowsTyped
  <2>2. job[w].gen \in 0..NoGen /\ job[w].strategy \in Strategies
    BY <1>0 DEF Jobs
  <2> QED
    BY <1>0, <2>1, <2>2, GotoKeeps DEF Choose
<1>2. ASSUME NEW c \in Contents, NEW why \in Reasons,
             (job[w].strategy = "uniform") = (why = "uniform"),
             job' = [job EXCEPT ![w].at = "finish", ![w].choice = c, ![w].reason = why]
      PROVE  Inv'
  <2> DEFINE j == [job[w] EXCEPT !.at = "finish", !.choice = c, !.reason = why]
  <2>1. j \in Jobs
    BY <1>0 DEF Jobs
  <2>2. /\ j.at = "finish" /\ j.s = job[w].s /\ j.d = job[w].d /\ j.kind = job[w].kind
        /\ j.gen = job[w].gen /\ j.strategy = job[w].strategy /\ j.choice = c /\ j.reason = why
    BY <1>0 DEF Jobs
  <2>3. JobOk(w, j)
    BY <1>0, <1>2, <2>2 DEF JobOk
  <2>4. BackgroundOk(w, j)
    BY <1>0, <2>2 DEF BackgroundOk
  <2>5. job' = [job EXCEPT ![w] = j]
    BY <1>2 DEF Inv, RowsTyped
  <2> QED
    BY <2>1, <2>3, <2>4, <2>5, OnlyJob DEF Choose
<1> QED
  BY <1>1, <1>2 DEF Choose

LEMMA NotReadyKeeps == ASSUME Inv, NEW w \in Workers, NotReady(w) PROVE Inv'
<1>0. job[w] \in Jobs /\ job[w].at = "finish"
  BY RunningJob DEF NotReady
<1>1. CASE Quit(w)
  BY <1>1, QuitKeeps DEF NotReady
<1>2. CASE Goto(w, "fail")
  <2>1. job' = [job EXCEPT ![w] = [job[w] EXCEPT !.at = "fail", !.gen = job[w].gen,
                                                 !.strategy = job[w].strategy]]
    BY <1>0, <1>2 DEF Goto, Jobs, Inv, RowsTyped
  <2>2. job[w].gen \in 0..NoGen /\ job[w].strategy \in Strategies
    BY <1>0 DEF Jobs
  <2> QED
    BY <1>0, <2>1, <2>2, GotoKeeps DEF NotReady
<1> QED
  BY <1>1, <1>2 DEF NotReady

\* One cell changes to a row that promises the same.
LEMMA MildCell ==
  ASSUME RowsTyped, NEW s \in Students, NEW d \in Days, NEW r,
         Cell(s, d, r), row[s][d] # None, r # None, r.reason = row[s][d].reason,
         r.content = row[s][d].content, r.retry = row[s][d].retry, r.at = row[s][d].at,
         Given(r) <=> Given(row[s][d]),
         row[s][d].status = "completed" => r.status = "completed"
  PROVE  /\ Mild
         /\ \A t \in Students, e \in Days :
              row'[t][e] # None => (Given(row'[t][e]) <=> row'[t][e].content # None)
<1> SUFFICES ASSUME NEW t \in Students, NEW e \in Days
             PROVE  /\ row[t][e] = None <=> row'[t][e] = None
                    /\ row[t][e] # None =>
                         /\ row'[t][e].reason = row[t][e].reason
                         /\ row'[t][e].content = row[t][e].content
                         /\ row'[t][e].retry = row[t][e].retry /\ row'[t][e].at = row[t][e].at
                         /\ Given(row'[t][e]) <=> Given(row[t][e])
                         /\ row[t][e].status = "completed" => row'[t][e].status = "completed"
                    /\ row'[t][e] # None => (Given(row'[t][e]) <=> row'[t][e].content # None)
  BY DEF Mild
<1>1. row[t][e] # None => (Given(row[t][e]) <=> row[t][e].content # None)
  BY DEF RowsTyped
<1>2. CASE t = s /\ e = d
  <2>1. row'[t][e] = r
    BY <1>2 DEF Cell
  <2> QED
    BY <1>1, <1>2, <2>1
<1>3. CASE ~(t = s /\ e = d)
  <2>1. row'[t][e] = row[t][e]
    BY <1>3 DEF Cell
  <2> QED
    BY <1>1, <2>1
<1> QED
  BY <1>2, <1>3

LEMMA FailKeeps == ASSUME Inv, NEW w \in Workers, Fail(w) PROVE Inv'
<1>0. /\ job[w].s \in Students /\ job[w].d \in Days
      /\ RowOf(w) # None => RowOf(w) \in Rows
  BY RunningJob DEF Fail
<1>1. CASE ~Holds(w)
  BY <1>1, QuitKeeps DEF Fail
<1>2. CASE Holds(w)
  <2> DEFINE r == [RowOf(w) EXCEPT !.status = "unavailable", !.stale = FALSE]
  <2>1. RowOf(w) \in Rows /\ RowOf(w).status = "preparing" /\ RowOf(w) # None
    BY <1>0, <1>2 DEF Holds, HoldsAny, Preparing
  <2>2. r \in Rows
    BY <2>1 DEF Rows, Statuses
  <2>3. /\ r.status = "unavailable" /\ r.content = RowOf(w).content /\ r.retry = RowOf(w).retry
        /\ r.reason = RowOf(w).reason /\ r.at = RowOf(w).at
    BY <2>1 DEF Rows
  <2>4. Cell(job[w].s, job[w].d, r) /\ row' \in [Students -> [Days -> Rows \cup {None}]]
    <3>1. row' = [row EXCEPT ![job[w].s][job[w].d] = r]
      BY <1>2 DEF Fail, SetRow
    <3> QED
      BY <1>0, <2>2, <3>1, CellUpdate DEF Inv
  <2>5. r # None
    BY <2>2, RowAssumption
  <2>6. Given(r) <=> Given(RowOf(w))
    BY <2>1, <2>3 DEF Given
  <2>7. /\ Mild
        /\ \A s \in Students, d \in Days :
             row'[s][d] # None => (Given(row'[s][d]) <=> row'[s][d].content # None)
    BY <1>0, <2>1, <2>3, <2>4, <2>5, <2>6, MildCell DEF Inv, RowOf
  <2> QED
    BY <2>4, <2>7, MildStep DEF Fail
<1> QED
  BY <1>1, <1>2

LEMMA AgeKeeps == ASSUME Inv, NEW s \in Students, NEW d \in Days, Age(s, d) PROVE Inv'
<1> DEFINE r == [row[s][d] EXCEPT !.stale = TRUE]
<1>1. row[s][d] # None /\ row[s][d] \in Rows
  BY RowTyped DEF Age, Preparing, Inv
<1>2. r \in Rows /\ r # None
  BY <1>1, RowAssumption DEF Rows
<1>3. /\ r.status = row[s][d].status /\ r.content = row[s][d].content
      /\ r.retry = row[s][d].retry /\ r.reason = row[s][d].reason /\ r.at = row[s][d].at
  BY <1>1 DEF Rows
<1>4. row' = [row EXCEPT ![s][d] = r]
  BY DEF Age, Inv, RowsTyped
<1>5. Cell(s, d, r) /\ row' \in [Students -> [Days -> Rows \cup {None}]]
  BY <1>2, <1>4, CellUpdate DEF Inv
<1>6. Given(r) <=> Given(row[s][d])
  BY <1>1, <1>2, <1>3 DEF Given
<1>7. /\ Mild
      /\ \A t \in Students, e \in Days :
           row'[t][e] # None => (Given(row'[t][e]) <=> row'[t][e].content # None)
  BY <1>1, <1>2, <1>3, <1>5, <1>6, MildCell DEF Inv
<1> QED
  BY <1>5, <1>7, MildStep DEF Age

LEMMA AnswerKeeps == ASSUME Inv, NEW s \in Students, NEW d \in Days, Answer(s, d) PROVE Inv'
<1> DEFINE r == [row[s][d] EXCEPT !.status = "completed"]
<1>1. row[s][d] # None /\ row[s][d] \in Rows /\ row[s][d].status = "ready"
  BY RowTyped DEF Answer, Inv
<1>2. r \in Rows /\ r # None
  BY <1>1, RowAssumption DEF Rows, Statuses
<1>3. /\ r.status = "completed" /\ r.content = row[s][d].content
      /\ r.retry = row[s][d].retry /\ r.reason = row[s][d].reason /\ r.at = row[s][d].at
  BY <1>1 DEF Rows
<1>4. row' = [row EXCEPT ![s][d] = r]
  BY DEF Answer, Inv, RowsTyped
<1>5. Cell(s, d, r) /\ row' \in [Students -> [Days -> Rows \cup {None}]]
  BY <1>2, <1>4, CellUpdate DEF Inv
<1>6. Given(r) <=> Given(row[s][d])
  BY <1>1, <1>2, <1>3 DEF Given
<1>7. /\ Mild
      /\ \A t \in Students, e \in Days :
           row'[t][e] # None => (Given(row'[t][e]) <=> row'[t][e].content # None)
  BY <1>1, <1>2, <1>3, <1>5, <1>6, MildCell DEF Inv
<1> QED
  BY <1>5, <1>7, MildStep DEF Answer

LEMMA DatedTyped == ASSUME RowsTyped, NEW s \in Students PROVE Dated(s) \in Nat
<1>1. IsFiniteSet(Days) /\ IsFiniteSet(practice[s])
  BY DailyAssumption, FS_Interval DEF Days, RowsTyped
<1>2. {d \in Days : row[s][d] # None} \in SUBSET Days
  OBVIOUS
<1>3. IsFiniteSet({d \in Days : row[s][d] # None})
  BY <1>1, <1>2, FS_Subset
<1> QED
  BY <1>1, <1>3, FS_CardinalityType DEF Dated

\* What is claimed has not been given: a row that is ready holds its question.
LEMMA NotGivenClaim ==
  ASSUME Inv, NEW w \in Workers, Claim(w) PROVE ~Given(row[job[w].s][job[w].d])
<1>1. job[w].s \in Students /\ job[w].d \in Days
  BY RunningJob DEF Claim
<1>2. RowOf(w) # None => (Given(RowOf(w)) <=> RowOf(w).content # None)
  BY <1>1 DEF Inv, RowsTyped, RowOf
<1>3. Claimable(RowOf(w))
  BY DEF Claim
<1> QED
  BY <1>2, <1>3 DEF Claimable, ClaimableFailed, Preparing, Given, RowOf

\* Claim starts the row over: a later claim, with no question yet.
LEMMA ClaimKeeps == ASSUME Inv, NEW w \in Workers, Claim(w) PROVE Inv'
<1> DEFINE s == job[w].s
           d == job[w].d
           old == RowOf(w) # None
           n == IF old THEN RowOf(w).retry + 1 ELSE 0
           m == IF old THEN RowOf(w).at ELSE Dated(s)
           r == [status |-> "preparing", content |-> None, retry |-> n,
                 reason |-> job[w].strategy, stale |-> FALSE, at |-> m]
           j == [job[w] EXCEPT !.at = "choose", !.gen = n]
<1>0. /\ job[w] \in Jobs /\ job[w].at = "reserve" /\ s \in Students /\ d \in Days
      /\ RowOf(w) # None => RowOf(w) \in Rows /\ RowOf(w).retry \in 0..RetryBound
      /\ BackgroundOk(w, job[w])
  BY RunningJob DEF Claim
<1>1. n <= RetryBound /\ n \in 0..RetryBound /\ n \in 0..NoGen /\ RetryBound \in Nat
  BY <1>0, DailyAssumption DEF Claim, NoGen
<1>2. job[w].strategy \in Strategies /\ job[w].strategy \in Effective(d)
  BY <1>0 DEF Jobs, Claim
<1>3. r \in Rows /\ r # None
  <2>1. r \in Rows
    <3>1. m \in Nat
      BY <1>0, DatedTyped DEF Inv, Rows
    <3> HIDE DEF m
    <3> QED
      BY <1>1, <1>2, <3>1 DEF Rows, Statuses, Reasons, Strategies
  <2> QED
    BY <2>1, RowAssumption
<1>4. Cell(s, d, r) /\ row' \in [Students -> [Days -> Rows \cup {None}]]
  <2>1. row' = [row EXCEPT ![s][d] = r]
    BY DEF Claim, SetRow
  <2> QED
    BY <1>0, <1>3, <2>1, CellUpdate DEF Inv
<1>5. j \in Jobs
  BY <1>0, <1>1 DEF Jobs
<1>6. /\ job' = [job EXCEPT ![w] = j] /\ job \in [Workers -> Jobs]
      /\ j.at = "choose" /\ j.gen = n /\ j.s = s /\ j.d = d /\ j.kind = job[w].kind
      /\ j.strategy = job[w].strategy
  <2>1. job' = [job EXCEPT ![w].at = "choose", ![w].gen = n]
    BY DEF Claim
  <2> QED
    BY <1>0, <2>1 DEF Jobs, Inv, RowsTyped
<1>7. reclaims \in [Students -> [Days -> Nat]] /\ reclaims' \in [Students -> [Days -> Nat]]
  BY <1>0 DEF Claim, Inv, RowsTyped
<1>8. RowsTyped'
  <2>1. job' \in [Workers -> Jobs]
    BY <1>5, <1>6
  <2>2. \A t \in Students, e \in Days :
          row'[t][e] # None => (Given(row'[t][e]) <=> row'[t][e].content # None)
    <3>1. ~Given(r) /\ r.content = None
      BY DEF Given
    <3> QED
      BY <1>4, <3>1 DEF Cell, Inv, RowsTyped
  <2> QED
    BY <1>4, <1>7, <2>1, <2>2 DEF Claim, Inv, RowsTyped, schedule
<1>9. RowsGrow
  <2> SUFFICES ASSUME NEW t \in Students, NEW e \in Days, row[t][e] # None
               PROVE  /\ row'[t][e] # None
                      /\ \/ /\ row'[t][e].retry = row[t][e].retry
                            /\ StrategyOf(row'[t][e]) = StrategyOf(row[t][e])
                         \/ row'[t][e].retry > row[t][e].retry
    BY DEF RowsGrow
  <2>1. CASE t = s /\ e = d
    <3>1. row'[t][e] = r /\ row[t][e] = RowOf(w)
      BY <1>4, <2>1 DEF Cell, RowOf
    <3> QED
      BY <1>0, <1>1, <1>3, <3>1
  <2>2. CASE ~(t = s /\ e = d)
    BY <1>4, <2>2 DEF Cell
  <2> QED
    BY <2>1, <2>2
<1>10. JobFits'
  <2> SUFFICES ASSUME NEW v \in Workers PROVE JobOk(v, job[v])'
    BY DEF JobFits
  <2>1. CASE v = w
    <3>1. row'[s][d] = r /\ job'[v] = j
      BY <1>0, <1>4, <1>6, <2>1 DEF Cell
    <3>2. StrategyOf(r) = job[w].strategy
      BY <1>2 DEF StrategyOf, Strategies
    <3>3. r.retry = n /\ n <= n
      BY <1>1
    <3>4. row'[j.s][j.d] = r /\ row'[j.s][j.d] # None /\ j.s \in Students
      BY <1>0, <1>3, <1>6, <3>1
    <3>5. j.gen = r.retry /\ StrategyOf(r) = j.strategy /\ j.at = "choose"
      BY <1>6, <3>2
    <3> HIDE DEF j, r, n
    <3> QED
      BY <1>6, <3>1, <3>3, <3>4, <3>5 DEF JobOk
  <2>2. CASE v # w
    <3>1. job'[v] = job[v] /\ JobOk(v, job[v])
      BY <1>6, <2>2 DEF Inv, JobFits
    <3> QED
      BY <3>1, <1>8, <1>9, OthersFit DEF Inv
  <2> QED
    BY <2>1, <2>2
<1>11. \A t \in Students, e \in Days :
         reclaims'[t][e] = IF old /\ w \in Background /\ t = s /\ e = d
                           THEN reclaims[t][e] + 1 ELSE reclaims[t][e]
  BY <1>0, <1>7 DEF Claim
<1>12. BackgroundFits'
  <2> SUFFICES ASSUME NEW v \in Workers, v \in Background PROVE BackgroundOk(v, job[v])'
    BY DEF BackgroundFits, BackgroundOk
  <2>1. BackgroundOk(v, job[v]) /\ job[v] \in Jobs
    BY <1>6 DEF Inv, BackgroundFits
  <2>2. Background \subseteq Workers
    BY DEF Workers
  <2>3. \A u \in Workers : job'[u].s = job[u].s /\ (job'[u].at # "idle" <=> job[u].at # "idle")
    BY <1>0, <1>6
  <2>4. \A u \in Background \ {v} :
          job'[u].at # "idle" /\ job'[v].at # "idle" => job'[u].s # job'[v].s
    BY <2>1, <2>2, <2>3 DEF BackgroundOk
  <2>5. CASE v = w
    BY <1>6, <2>1, <2>4, <2>5 DEF BackgroundOk
  <2>6. CASE v # w
    <3>1. job'[v] = job[v]
      BY <1>6, <2>6
    <3>2. ASSUME job[v].at \in {"context", "select", "reserve"}
          PROVE  reclaims'[job[v].s][job[v].d] < MaxRetries
      <4>1. job[v].s \in Students /\ job[v].d \in Days
        BY <2>1, <3>2 DEF Inv, JobFits, JobOk, Jobs
      <4>2. ~(w \in Background /\ job[v].s = s)
        BY <1>0, <2>1, <2>6, <3>2 DEF BackgroundOk
      <4>3. reclaims'[job[v].s][job[v].d] = reclaims[job[v].s][job[v].d]
        BY <1>11, <4>1, <4>2
      <4> QED
        BY <2>1, <3>2, <4>3 DEF BackgroundOk
    <3> QED
      BY <2>1, <2>4, <3>1, <3>2 DEF BackgroundOk
  <2> QED
    BY <2>5, <2>6
<1>13. ReclaimsFit' /\ ReclaimsBounded'
  <2> SUFFICES ASSUME NEW t \in Students, NEW e \in Days
               PROVE  /\ row'[t][e] = None => reclaims'[t][e] = 0
                      /\ row'[t][e] # None => reclaims'[t][e] <= row'[t][e].retry
                      /\ reclaims'[t][e] <= MaxRetries
    BY DEF ReclaimsFit, ReclaimsBounded
  <2>1. /\ row[t][e] = None => reclaims[t][e] = 0
        /\ row[t][e] # None => reclaims[t][e] <= row[t][e].retry
        /\ reclaims[t][e] <= MaxRetries /\ reclaims[t][e] \in Nat /\ MaxRetries \in Nat
    BY <1>7, DailyAssumption DEF Inv, ReclaimsFit, ReclaimsBounded
  <2>2. CASE t = s /\ e = d
    <3>1. row'[t][e] = r /\ r.retry = n /\ row[t][e] = RowOf(w)
      BY <1>4, <2>2 DEF Cell, RowOf
    <3>2. CASE old
      <4>1. RowOf(w).retry \in Nat
        BY <1>0, <1>1, <3>2
      <4>2. w \in Background => reclaims[t][e] < MaxRetries
        BY <1>0, <2>2 DEF BackgroundOk
      <4> QED
        BY <1>3, <1>11, <2>1, <2>2, <3>1, <3>2, <4>1, <4>2
    <3>3. CASE ~old
      BY <1>3, <1>11, <2>1, <2>2, <3>1, <3>3
    <3> QED
      BY <3>2, <3>3
  <2>3. CASE ~(t = s /\ e = d)
    BY <1>4, <1>11, <2>1, <2>3 DEF Cell
  <2> QED
    BY <2>2, <2>3
<1>14. RowsAgree'
  <2>1. ~Given(r)
    BY DEF Given
  <2>2. UniformDayAgrees' /\ NoRepeatedQuestion'
    <3>1. \A t \in Students, e \in Days : Given(row'[t][e]) => row'[t][e] = row[t][e]
      BY <1>4, <2>1 DEF Cell
    <3>2. selection' = selection /\ practice' = practice
      BY DEF Claim, schedule
    <3>3. ~Given(row[s][d])
      BY NotGivenClaim DEF Inv
    <3>4. GivenKept
      <4>1. ASSUME NEW t \in Students, NEW e \in Days, Given(row[t][e]) PROVE row'[t][e] = row[t][e]
        BY <1>4, <3>3, <4>1 DEF Cell
      <4> QED
        BY <3>2, <4>1 DEF GivenKept
    <3>5. NoRepeatedQuestion'
      <4> SUFFICES ASSUME NEW t \in Students, NEW e \in Days, NEW f \in Days PROVE NotAgain(t, e, f)'
        BY DEF NoRepeatedQuestion, NotAgain
      <4>1. NotAgain(t, e, f)
        BY DEF Inv, RowsAgree, NoRepeatedQuestion, NotAgain
      <4>2. ASSUME Given(row'[t][e]), Given(row'[t][f]) PROVE NotAgain(t, e, f)'
        BY <1>8, <3>1, <3>4, <4>1, <4>2, OldDaysKeep DEF Inv
      <4> QED
        BY <4>2 DEF NotAgain
    <3> QED
      BY <3>1, <3>2, <3>5 DEF Inv, RowsAgree, UniformDayAgrees
  <2>3. OneStrategyPerDay'
    <3>1. \A t \in RowsOn(d) : StrategyOf(row[t][d]) = job[w].strategy
      <4>1. \A t, u \in RowsOn(d) : StrategyOf(row[t][d]) = StrategyOf(row[u][d])
        BY <1>0 DEF Inv, RowsAgree, OneStrategyPerDay
      <4>2. ASSUME RowsOn(d) # {}
            PROVE  \E u \in RowsOn(d) : job[w].strategy = StrategyOf(row[u][d])
        BY <1>2, <4>2 DEF Effective
      <4> QED
        BY <4>1, <4>2
    <3>2. StrategyOf(r) = job[w].strategy
      BY <1>2 DEF StrategyOf, Strategies
    <3>3. \A t \in Students : row'[t][d] # None => StrategyOf(row'[t][d]) = job[w].strategy
      <4> SUFFICES ASSUME NEW t \in Students, row'[t][d] # None
                   PROVE  StrategyOf(row'[t][d]) = job[w].strategy
        OBVIOUS
      <4>1. CASE t = s
        <5>1. row'[t][d] = r
          BY <1>0, <1>4, <4>1 DEF Cell
        <5> QED
          BY <3>2, <5>1
      <4>2. CASE t # s
        <5>1. row'[t][d] = row[t][d]
          BY <1>0, <1>4, <4>2 DEF Cell
        <5> QED
          BY <3>1, <5>1 DEF RowsOn
      <4> QED
        BY <4>1, <4>2
    <3>4. \A e \in Days \ {d}, t \in Students : row'[t][e] = row[t][e]
      BY <1>4 DEF Cell
    <3> SUFFICES ASSUME NEW e \in Days, NEW t \in Students, NEW u \in Students,
                        row'[t][e] # None, row'[u][e] # None
                 PROVE  StrategyOf(row'[t][e]) = StrategyOf(row'[u][e])
      BY DEF OneStrategyPerDay, RowsOn
    <3>5. CASE e = d
      BY <3>3, <3>5
    <3>6. CASE e # d
      BY <3>4, <3>6 DEF Inv, RowsAgree, OneStrategyPerDay, RowsOn
    <3> QED
      BY <3>5, <3>6
  <2> QED
    BY <2>2, <2>3 DEF RowsAgree
<1> QED
  BY <1>8, <1>10, <1>12, <1>13, <1>14 DEF Inv

\* Ready gives the question: the row is still the claim of the job.
LEMMA ReadyKeeps == ASSUME Inv, NEW w \in Workers, Ready(w) PROVE Inv'
<1> DEFINE s == job[w].s
           d == job[w].d
           r == ReadyRow(w)
<1>0. /\ job[w] \in Jobs /\ job[w].at = "finish" /\ s \in Students /\ d \in Days
      /\ JobOk(w, job[w])
  BY RunningJob DEF Ready
<1>1. /\ RowOf(w) \in Rows /\ RowOf(w) # None /\ RowOf(w).status = "preparing"
      /\ RowOf(w).retry = job[w].gen /\ RowOf(w) = row[s][d]
  BY <1>0, RunningJob DEF Ready, Holds, HoldsAny, Preparing, RowOf
<1>2. /\ job[w].choice \in Contents /\ job[w].choice # None /\ job[w].reason \in Reasons
      /\ StrategyOf(RowOf(w)) = job[w].strategy
      /\ job[w].strategy = "uniform" <=> job[w].reason = "uniform"
  <2>1. job[w].choice \in Contents /\ job[w].reason \in Reasons
        /\ (job[w].strategy = "uniform" <=> job[w].reason = "uniform")
    BY <1>0 DEF JobOk, Jobs
  <2>2. StrategyOf(RowOf(w)) = job[w].strategy
    BY <1>0, <1>1 DEF JobOk
  <2>3. None \notin Contents
    BY DailyAssumption
  <2> QED
    BY <2>1, <2>2, <2>3
<1>3. /\ r \in Rows /\ r # None
      /\ r.status = "ready" /\ r.content = job[w].choice /\ r.reason = job[w].reason
      /\ r.retry = RowOf(w).retry /\ r.at = RowOf(w).at
  <2>1. r \in Rows
    BY <1>1, <1>2 DEF ReadyRow, Rows, Statuses
  <2> QED
    BY <1>1, <2>1, RowAssumption DEF ReadyRow, Rows
<1>4. Cell(s, d, r) /\ row' \in [Students -> [Days -> Rows \cup {None}]]
  <2>1. row' = [row EXCEPT ![s][d] = r]
    BY DEF Ready, SetRow
  <2> QED
    BY <1>0, <1>3, <2>1, CellUpdate DEF Inv
<1>5. StrategyOf(r) = StrategyOf(row[s][d])
  BY <1>1, <1>2, <1>3 DEF StrategyOf
<1>6. Given(r) /\ ~Given(row[s][d])
  BY <1>1, <1>3 DEF Given
<1>7. RowsTyped'
  <2>1. job' \in [Workers -> Jobs]
    BY QuitTyped DEF Ready, Inv
  <2>2. \A t \in Students, e \in Days :
          row'[t][e] # None => (Given(row'[t][e]) <=> row'[t][e].content # None)
    <3>1. Given(r) <=> r.content # None
      BY <1>2, <1>3, <1>6
    <3>2. \A t \in Students, e \in Days :
            row[t][e] # None => (Given(row[t][e]) <=> row[t][e].content # None)
      BY DEF Inv, RowsTyped
    <3> QED
      BY <1>4, <3>1, <3>2 DEF Cell
  <2> QED
    BY <1>4, <2>1, <2>2 DEF Ready, Inv, RowsTyped, schedule
<1>8. RowsGrow
  BY <1>1, <1>3, <1>4, <1>5 DEF RowsGrow, Cell
<1>9. /\ job' = [job EXCEPT ![w] = IdleJob(w)] /\ job \in [Workers -> Jobs]
      /\ reclaims' = reclaims /\ selection' = selection
  BY DEF Ready, Quit, Inv, RowsTyped, schedule
<1>10. JobFits'
  <2> SUFFICES ASSUME NEW v \in Workers PROVE JobOk(v, job[v])'
    BY DEF JobFits
  <2>1. CASE v = w
    BY <1>9, <2>1 DEF JobOk, IdleJob
  <2>2. CASE v # w
    <3>1. job'[v] = job[v] /\ JobOk(v, job[v])
      BY <1>9, <2>2 DEF Inv, JobFits
    <3> QED
      BY <3>1, <1>7, <1>8, OthersFit DEF Inv
  <2> QED
    BY <2>1, <2>2
<1>11. BackgroundFits'
  BY <1>9, IdleOk, OthersInBackground DEF Inv
<1>12. ReclaimsFit' /\ ReclaimsBounded'
  <2>1. ReclaimsFit'
    BY <1>1, <1>3, <1>4, <1>9 DEF Cell, Inv, ReclaimsFit
  <2> QED
    BY <2>1, <1>9 DEF Inv, ReclaimsBounded
<1>13. RowsAgree'
  <2>1. OneStrategyPerDay'
    <3>1. \A t \in Students, e \in Days : row'[t][e] # None =>
            row[t][e] # None /\ StrategyOf(row'[t][e]) = StrategyOf(row[t][e])
      BY <1>1, <1>4, <1>5 DEF Cell
    <3> QED
      BY <3>1 DEF Inv, RowsAgree, OneStrategyPerDay, RowsOn
  <2>2. UniformDayAgrees'
    <3>1. r.reason = "uniform" => selection[d] = r.content
      <4>1. r.reason = "uniform" => RowOf(w).reason = "uniform"
        BY <1>2, <1>3 DEF StrategyOf
      <4> QED
        BY <1>3, <4>1 DEF Ready
    <3> QED
      BY <1>4, <1>9, <3>1 DEF Cell, Inv, RowsAgree, UniformDayAgrees
  <2>3. NoRepeatedQuestion'
    <3>1. GivenKept /\ practice' = practice
      <4>1. ASSUME NEW t \in Students, NEW e \in Days, Given(row[t][e]) PROVE row'[t][e] = row[t][e]
        BY <1>4, <1>6, <4>1 DEF Cell
      <4> QED
        BY <4>1 DEF GivenKept, Ready
    <3>2. ASSUME NEW x \in Students, NEW y \in Days, x = s, y = d, NEW e \in Days \ {y},
                 Given(row[x][e]), row[x][e].content = r.content, r.reason # "repeat"
          PROVE  Newer(x, Days \ {y}, row[x][e].at)' >= HistoryLimit
      <4>1. job[w].choice \notin Recent(x, Days \ {y})
        BY <1>3, <3>2 DEF Ready, Repeats
      <4>2. PICK n : n = row[x][e].at
        OBVIOUS
      <4>3. ~(Newer(x, Days \ {y}, n) < HistoryLimit)
        BY <1>3, <3>2, <4>1, <4>2 DEF Recent, GivenOn
      <4>4. /\ Newer(x, Days \ {y}, n) \in Nat /\ Newer(x, Days \ {y}, n)' \in Nat
            /\ Newer(x, Days \ {y}, n)' >= Newer(x, Days \ {y}, n)
        BY <1>7, <3>1, NewerGrows DEF Inv
      <4>5. row'[x][e].at = n
        BY <1>4, <3>2, <4>2 DEF Cell
      <4> QED
        BY <4>3, <4>4, <4>5, DailyAssumption
    <3> SUFFICES ASSUME NEW t \in Students, NEW e \in Days, NEW f \in Days PROVE NotAgain(t, e, f)'
      BY DEF NoRepeatedQuestion, NotAgain
    <3>3. CASE t = s /\ e = d
      <4>1. row'[t][e] = r /\ (f # e => row'[t][f] = row[t][f])
        BY <1>4, <3>3 DEF Cell
      <4>2. CASE f = e
        BY <4>2 DEF NotAgain
      <4>3. CASE f # e /\ Given(row[s][f]) /\ row[s][f].content = r.content /\ r.reason # "repeat"
        BY <3>2, <3>3, <4>1, <4>3 DEF NotAgain
      <4>4. CASE f # e /\ ~(Given(row[s][f]) /\ row[s][f].content = r.content /\ r.reason # "repeat")
        BY <3>3, <4>1, <4>4 DEF NotAgain
      <4> QED
        BY <4>2, <4>3, <4>4
    <3>4. CASE t = s /\ f = d
      <4>1. row'[t][f] = r /\ (f # e => row'[t][e] = row[t][e])
        BY <1>4, <3>4 DEF Cell
      <4>2. CASE f = e
        BY <4>2 DEF NotAgain
      <4>3. CASE f # e /\ Given(row[s][e]) /\ row[s][e].content = r.content /\ r.reason # "repeat"
        BY <3>2, <3>4, <4>1, <4>3 DEF NotAgain
      <4>4. CASE f # e /\ ~(Given(row[s][e]) /\ row[s][e].content = r.content /\ r.reason # "repeat")
        BY <3>4, <4>1, <4>4 DEF NotAgain
      <4> QED
        BY <4>2, <4>3, <4>4
    <3>5. CASE ~(t = s /\ e = d) /\ ~(t = s /\ f = d)
      <4>1. row'[t][f] = row[t][f] /\ row'[t][e] = row[t][e]
        BY <1>4, <3>5 DEF Cell
      <4>2. NotAgain(t, e, f)
        BY DEF Inv, RowsAgree, NoRepeatedQuestion, NotAgain
      <4>3. CASE Given(row[t][e]) /\ Given(row[t][f])
        BY <1>7, <3>1, <4>1, <4>2, <4>3, OldDaysKeep DEF Inv
      <4>4. CASE ~(Given(row[t][e]) /\ Given(row[t][f]))
        BY <4>1, <4>4 DEF NotAgain
      <4> QED
        BY <4>3, <4>4
    <3> QED
      BY <3>3, <3>4, <3>5
  <2> QED
    BY <2>1, <2>2, <2>3 DEF RowsAgree
<1> QED
  BY <1>7, <1>10, <1>11, <1>12, <1>13 DEF Inv

-----------------------------------------------------------------------------
(* Time and the teacher.                                                    *)

\* Steps that leave rows, jobs and reservations alone.
LEMMA ScheduleStep ==
  ASSUME Inv, RowsTyped', RowsAgree', UNCHANGED <<row, job, reclaims>> PROVE Inv'
<1>1. JobFits' /\ BackgroundFits'
  BY DEF Inv, JobFits, JobOk, BackgroundFits, BackgroundOk
<1>2. ReclaimsFit' /\ ReclaimsBounded'
  BY DEF Inv, ReclaimsFit, ReclaimsBounded
<1> QED
  BY <1>1, <1>2 DEF Inv

LEMMA MidnightKeeps == ASSUME Inv, Midnight PROVE Inv'
<1>1. RowsTyped'
  BY DailyAssumption DEF Midnight, Inv, RowsTyped, Days, schedule
<1>2. RowsAgree'
  BY <1>1, SameRowsAreMild, MildKeepsAgreement DEF Midnight, Inv, schedule
<1> QED
  BY <1>1, <1>2, ScheduleStep DEF Midnight

LEMMA SetStrategyKeeps == ASSUME Inv, SetStrategy PROVE Inv'
<1>1. RowsTyped'
  BY DEF SetStrategy, Inv, RowsTyped
<1>2. RowsAgree'
  BY <1>1, SameRowsAreMild, MildKeepsAgreement DEF SetStrategy, Inv
<1>3. UNCHANGED <<row, job, reclaims>>
  BY DEF SetStrategy
<1> QED
  BY <1>1, <1>2, <1>3, ScheduleStep

LEMMA OpenScheduleKeeps == ASSUME Inv, NEW e \in Editors, OpenSchedule(e) PROVE Inv'
<1>1. [IdleSave EXCEPT !.at = "open", !.base = version] \in Saves
  <2>1. version \in 0..SaveBound /\ 0 \in 0..SaveBound /\ 0 \in 0..(LastDay + 1)
    BY DailyAssumption DEF Inv, RowsTyped
  <2>2. IdleSave \in Saves
    BY <2>1 DEF IdleSave, Saves
  <2> QED
    BY <2>1, <2>2 DEF Saves
<1>2. RowsTyped'
  BY <1>1 DEF OpenSchedule, Inv, RowsTyped
<1>3. RowsAgree'
  BY <1>2, SameRowsAreMild, MildKeepsAgreement DEF OpenSchedule, Inv
<1> QED
  BY <1>2, <1>3, ScheduleStep DEF OpenSchedule

LEMMA BeginSaveKeeps == ASSUME Inv, NEW e \in Editors, BeginSave(e) PROVE Inv'
<1>1. PICK k \in Effective(today) :
        save' = [save EXCEPT ![e].at = "saving", ![e].seen = version,
          ![e].start = IF RowsOn(today) # {} /\ k = "personalized" THEN today + 1 ELSE today]
  BY DEF BeginSave
<1> DEFINE start == IF RowsOn(today) # {} /\ k = "personalized" THEN today + 1 ELSE today
<1>2. save[e] \in Saves /\ version \in 0..SaveBound /\ start \in 0..(LastDay + 1)
  BY DailyAssumption DEF Inv, RowsTyped, Days
<1>3. [save[e] EXCEPT !.at = "saving", !.seen = version, !.start = start] \in Saves
  BY <1>2 DEF Saves
<1>4. save' \in [Editors -> Saves]
  BY <1>1, <1>3 DEF Inv, RowsTyped
<1>5. RowsTyped'
  BY <1>4 DEF BeginSave, Inv, RowsTyped
<1>6. RowsAgree'
  BY <1>5, SameRowsAreMild, MildKeepsAgreement DEF BeginSave, Inv
<1> QED
  BY <1>5, <1>6, ScheduleStep DEF BeginSave

\* A committed plan keeps the content of every day that has rows.
LEMMA CommitSaveKeeps == ASSUME Inv, NEW e \in Editors, CommitSave(e) PROVE Inv'
<1> DEFINE from == save[e].start
<1>1. /\ version' \in 0..SaveBound /\ selection' \in [Days -> Contents \cup {None}]
      /\ \A d \in Days : RowsOn(d) # {} => selection'[d] = selection[d]
  <2>1. CASE UNCHANGED <<version, selection>>
    BY <2>1 DEF Inv, RowsTyped
  <2>2. CASE /\ version < SaveBound /\ version' = version + 1
             /\ \E p \in Plans(from) :
                  /\ Acceptable(p, from)
                  /\ selection' = [d \in Days |-> IF d \in DOMAIN p THEN p[d] ELSE selection[d]]
    <3> PICK p \in Plans(from) :
               /\ Acceptable(p, from)
               /\ selection' = [d \in Days |-> IF d \in DOMAIN p THEN p[d] ELSE selection[d]]
      BY <2>2
    <3>1. p \in [{d \in Days : d >= from} -> Contents \cup {None}]
      BY DEF Plans
    <3>2. version' \in 0..SaveBound
      BY <2>2, DailyAssumption DEF Inv, RowsTyped
    <3>3. selection' \in [Days -> Contents \cup {None}]
      BY <3>1 DEF Inv, RowsTyped
    <3>4. ASSUME NEW d \in Days, RowsOn(d) # {} PROVE selection'[d] = selection[d]
      BY <3>1, <3>4 DEF Acceptable, Locked
    <3> QED
      BY <3>2, <3>3, <3>4
  <2> QED
    BY <2>1, <2>2 DEF CommitSave
<1>2. RowsTyped'
  <2>1. IdleSave \in Saves
    BY DailyAssumption DEF IdleSave, Saves
  <2> QED
    BY <1>1, <2>1 DEF CommitSave, Inv, RowsTyped
<1>3. RowsAgree'
  <2>1. row' = row
    BY DEF CommitSave
  <2>2. UniformDayAgrees'
    <3>1. \A s \in Students, d \in Days : Given(row[s][d]) => RowsOn(d) # {}
      BY DEF Given, RowsOn
    <3> QED
      BY <1>1, <2>1, <3>1 DEF Inv, RowsAgree, UniformDayAgrees
  <2>3. NoRepeatedQuestion'
    <3>1. practice' = practice
      BY DEF CommitSave
    <3> QED
      BY <2>1, <3>1 DEF Inv, RowsAgree, NoRepeatedQuestion, Newer
  <2> QED
    BY <2>1, <2>2, <2>3 DEF Inv, RowsAgree, OneStrategyPerDay, RowsOn
<1> QED
  BY <1>2, <1>3, ScheduleStep DEF CommitSave

LEMMA PractiseKeeps == ASSUME Inv, NEW s \in Students, NEW c \in Contents, Practise(s, c) PROVE Inv'
<1> DEFINE x == [content |-> c, at |-> Dated(s)]
<1>1. /\ practice \in [Students -> SUBSET Submissions] /\ x \in Submissions
      /\ practice' = [practice EXCEPT ![s] = @ \cup {x}]
  BY DatedTyped DEF Practise, Inv, RowsTyped, Submissions
<1> HIDE DEF x
<1>2. \A t \in Students : IsFiniteSet(practice'[t]) /\ practice[t] \subseteq practice'[t]
  <2> SUFFICES ASSUME NEW t \in Students
               PROVE  IsFiniteSet(practice'[t]) /\ practice[t] \subseteq practice'[t]
    OBVIOUS
  <2>1. IsFiniteSet(practice[t]) /\ IsFiniteSet(practice[t] \cup {x})
    BY FS_AddElement DEF Inv, RowsTyped
  <2>2. practice'[t] = IF t = s THEN practice[t] \cup {x} ELSE practice[t]
    BY <1>1
  <2> QED
    BY <2>1, <2>2
<1>3. RowsTyped'
  <2>1. practice' \in [Students -> SUBSET Submissions]
    BY <1>1
  <2> QED
    BY <1>2, <2>1 DEF Practise, Inv, RowsTyped, schedule
<1>4. row' = row /\ selection' = selection
  BY DEF Practise, schedule
<1>5. GivenKept
  BY <1>2, <1>4 DEF GivenKept
<1>6. NoRepeatedQuestion'
  <2> SUFFICES ASSUME NEW t \in Students, NEW e \in Days, NEW f \in Days PROVE NotAgain(t, e, f)'
    BY DEF NoRepeatedQuestion, NotAgain
  <2>1. NotAgain(t, e, f)
    BY DEF Inv, RowsAgree, NoRepeatedQuestion, NotAgain
  <2>2. CASE Given(row[t][e]) /\ Given(row[t][f])
    BY <1>3, <1>4, <1>5, <2>1, <2>2, OldDaysKeep DEF Inv
  <2>3. CASE ~(Given(row[t][e]) /\ Given(row[t][f]))
    BY <1>4, <2>3 DEF NotAgain
  <2> QED
    BY <2>2, <2>3
<1>7. RowsAgree'
  BY <1>4, <1>6 DEF Inv, RowsAgree, OneStrategyPerDay, UniformDayAgrees, RowsOn
<1> QED
  BY <1>3, <1>7, ScheduleStep DEF Practise

-----------------------------------------------------------------------------
(* Every step, and the theorems.                                            *)

LEMMA RowsNextInv == Inv /\ BatchFits /\ RowsNext => Inv'
<1> SUFFICES ASSUME Inv, BatchFits, RowsNext PROVE Inv'
  OBVIOUS
<1>1. ASSUME NEW w \in Workers, NEW s \in Students, NEW d \in Days, Start(w, s, d) PROVE Inv'
  BY <1>1, StartKeeps
<1>2. ASSUME NEW w \in Workers, Step(w) PROVE Inv'
  BY <1>2, ReadKeeps, ContextKeeps, SelectKeeps, StrategyChangedKeeps, QuitKeeps, ClaimKeeps,
     ChooseKeeps, ReadyKeeps, NotReadyKeeps, FailKeeps DEF Step, Reserve, NotClaimed, Finish
<1>3. ASSUME NEW w \in Workers, Abandon(w) PROVE Inv'
  BY <1>3, QuitKeeps DEF Abandon
<1>4. ASSUME NEW s \in Students, NEW d \in Days, Age(s, d) \/ Answer(s, d) PROVE Inv'
  BY <1>4, AgeKeeps, AnswerKeeps
<1>5. ASSUME NEW s \in Students, NEW c \in Contents, Practise(s, c) PROVE Inv'
  BY <1>5, PractiseKeeps
<1>6. CASE Midnight \/ SetStrategy
  BY <1>6, MidnightKeeps, SetStrategyKeeps
<1>7. ASSUME NEW e \in Editors, OpenSchedule(e) \/ BeginSave(e) \/ CommitSave(e) PROVE Inv'
  BY <1>7, OpenScheduleKeeps, BeginSaveKeeps, CommitSaveKeeps
<1> QED
  BY <1>1, <1>2, <1>3, <1>4, <1>5, <1>6, <1>7 DEF RowsNext

\* The rows and jobs stand still while a run of the worker begins or gives up.
LEMMA RunsKeepRows == ASSUME Inv, BeginBatch \/ ListFails \/ UNCHANGED vars PROVE Inv'
<1>1. UNCHANGED <<today, row, job, reclaims, practice, strategy, version, selection, save>>
  BY DEF BeginBatch, ListFails, schedule, vars
<1>2. RowsTyped'
  BY <1>1 DEF Inv, RowsTyped
<1>3. RowsAgree'
  BY <1>1, <1>2, SameRowsAreMild, MildKeepsAgreement DEF Inv
<1> QED
  BY <1>1, <1>2, <1>3, ScheduleStep

LEMMA BatchKeeps ==
  ASSUME Inv, batch \in Batches, BatchFits,
         BatchFollows \/ BeginBatch \/ ListFails \/ UNCHANGED vars
  PROVE  batch' \in Batches /\ BatchFits'
<1>1. today \in Days
  BY DEF Inv, RowsTyped
<1>2. CASE BatchFollows
  <2> DEFINE L == {job'[w].s : w \in {v \in Background : job'[v].at # "idle"}}
             E == {w \in Background : job[w].at # "idle" /\ job'[w].at = "idle"}
  <2>1. PICK asks \in IF E = {} THEN {FALSE} ELSE UNION {Asks(row'[job[w].s][job[w].d]) : w \in E} :
          batch' = [batch EXCEPT !.left = @ \ L, !.retry = @ \/ asks]
    BY <1>2 DEF BatchFollows
  <2>2. (batch.retry \/ asks) \in BOOLEAN
    OBVIOUS
  <2>3. /\ batch'.left = batch.left \ L /\ batch' \in Batches
    BY <2>1, <2>2 DEF Batches
  <2> QED
    BY <2>3 DEF BatchFits
<1>3. CASE BeginBatch \/ ListFails
  <2>1. batch' \in Batches
    <3>1. CASE BeginBatch
      BY <1>1, <3>1 DEF BeginBatch, Batches
    <3>2. CASE ListFails
      BY <3>2 DEF ListFails, Batches
    <3> QED
      BY <1>3, <3>1, <3>2
  <2>2. \A w \in Background : job'[w].at = "idle"
    BY <1>3 DEF BeginBatch, ListFails, BatchRests
  <2> QED
    BY <2>1, <2>2 DEF BatchFits
<1>4. CASE UNCHANGED vars
  BY <1>4 DEF vars, BatchFits
<1> QED
  BY <1>2, <1>3, <1>4

IInv == Inv /\ batch \in Batches /\ BatchFits

LEMMA InitIInv == Init => IInv
<1> SUFFICES ASSUME Init PROVE IInv
  OBVIOUS
<1>1. batch \in Batches /\ 0 \in Days
  BY DailyAssumption DEF Init, Batches, Days
<1>2. \A w \in Background : job[w].at = "idle"
  BY DEF Init, IdleJob, Workers
<1> QED
  BY <1>1, <1>2, InitInv DEF IInv, BatchFits

LEMMA NextInv == IInv /\ [Next]_vars => IInv'
<1> SUFFICES ASSUME IInv, [Next]_vars PROVE IInv'
  OBVIOUS
<1>1. Inv'
  BY RowsNextInv, RunsKeepRows DEF IInv, Next
<1>2. batch' \in Batches /\ BatchFits'
  BY BatchKeeps DEF IInv, Next
<1> QED
  BY <1>1, <1>2 DEF IInv

LEMMA Invariance == Spec => []IInv
BY InitIInv, NextInv, PTL DEF Spec

\* Rows, schedule and jobs keep their shapes; a row holds a question exactly
\* when one is given (the check of daily_question_assignments).
THEOREM DailyTypeCorrect == Spec => []TypeOK
<1>1. IInv => TypeOK
  BY DEF IInv, Inv, TypeOK
<1> QED
  BY <1>1, Invariance, PTL

\* Every row of a class and day was reserved under one strategy
\* (ReservePreparation), whatever the teacher switches meanwhile.
THEOREM DailyOneStrategy == Spec => []OneStrategyPerDay
<1>1. IInv => OneStrategyPerDay
  BY DEF IInv, Inv, RowsAgree
<1> QED
  BY <1>1, Invariance, PTL

\* A uniform question given is the one the schedule shows for its day
\* (FinishPreparation and the locked days of ReplaceClassUniformSchedule).
THEOREM DailyUniformAgrees == Spec => []UniformDayAgrees
<1>1. IInv => UniformDayAgrees
  BY DEF IInv, Inv, RowsAgree
<1> QED
  BY <1>1, Invariance, PTL

\* Two days of a student hold one question only by the repeat fallback, or when
\* HistoryLimit other questions and submissions are newer than one of them
\* (FinishPreparation under the student's lock).
THEOREM DailyNoRepeat == Spec => []NoRepeatedQuestion
<1>1. IInv => NoRepeatedQuestion
  BY DEF IInv, Inv, RowsAgree
<1> QED
  BY <1>1, Invariance, PTL

\* All of these, and the bound on takeovers, hold together.
THEOREM DailyRowsHold == Spec => []RowsHold
<1>1. IInv => RowsHold
  BY DEF IInv, Inv, RowsHold
<1> QED
  BY <1>1, Invariance, PTL

\* The worker takes a row over at most MaxRetries times (prepareDate), however
\* many reservations its student's visits make in between.
THEOREM DailyReclaimsBounded == Spec => []ReclaimsBounded
<1>1. IInv => ReclaimsBounded
  BY DEF IInv, Inv
<1> QED
  BY <1>1, Invariance, PTL

\* The steps that write rows, and what each writes in its one cell.
LEMMA RowSteps ==
  ASSUME Inv, Next, row' # row
  PROVE  \/ \E w \in Workers : Claim(w) \/ Ready(w) \/ (Fail(w) /\ Holds(w))
         \/ \E s \in Students, d \in Days : Age(s, d) \/ Answer(s, d)
<1>1. ASSUME NEW w \in Workers, NEW s \in Students, NEW d \in Days, Start(w, s, d)
      PROVE  row' = row
  BY <1>1 DEF Start
<1>2. ASSUME NEW w \in Workers, Step(w), ~Claim(w), ~Ready(w), ~(Fail(w) /\ Holds(w))
      PROVE  row' = row
  <2>1. Fail(w) => row' = row
    BY <1>2 DEF Fail
  <2> QED
    BY <1>2, <2>1 DEF Step, Read, Context, Select, Reserve, StrategyChanged, NotClaimed, Choose,
                      Finish, NotReady
<1>3. ASSUME NEW w \in Workers, Abandon(w) PROVE row' = row
  BY <1>3 DEF Abandon
<1>4. ASSUME NEW e \in Editors, OpenSchedule(e) \/ BeginSave(e) \/ CommitSave(e) PROVE row' = row
  BY <1>4 DEF OpenSchedule, BeginSave, CommitSave
<1>5. Midnight \/ SetStrategy \/ BeginBatch \/ ListFails => row' = row
  BY DEF Midnight, SetStrategy, BeginBatch, ListFails
<1>6. ASSUME NEW s \in Students, NEW c \in Contents, Practise(s, c) PROVE row' = row
  BY <1>6 DEF Practise
<1> QED
  BY <1>1, <1>2, <1>3, <1>4, <1>5, <1>6 DEF Next, RowsNext

LEMMA PreparationWrites ==
  ASSUME Inv, NEW w \in Workers, Claim(w) \/ Ready(w) \/ (Fail(w) /\ Holds(w)),
         NEW s \in Students, NEW d \in Days, row'[s][d] # row[s][d]
  PROVE  /\ s = job[w].s /\ d = job[w].d /\ ~Given(row[s][d])
         /\ Ready(w) \/ Fail(w) => job[w].gen = row[s][d].retry
         /\ Claim(w) => Preparing(row'[s][d])
<1>0. job[w].s \in Students /\ job[w].d \in Days
  BY RunningJob DEF Claim, Ready, Fail
<1>1. PICK r : row' = [row EXCEPT ![job[w].s][job[w].d] = r]
        /\ (Claim(w) => r # None /\ r.status = "preparing")
  <2>1. CASE Claim(w)
    <3> DEFINE n == IF RowOf(w) # None THEN RowOf(w).retry + 1 ELSE 0
               m == IF RowOf(w) # None THEN RowOf(w).at ELSE Dated(job[w].s)
               r == [status |-> "preparing", content |-> None, retry |-> n,
                     reason |-> job[w].strategy, stale |-> FALSE, at |-> m]
    <3>1. row' = [row EXCEPT ![job[w].s][job[w].d] = r]
      BY <2>1 DEF Claim, SetRow
    <3>2. r \in Rows
      <4>1. /\ job[w] \in Jobs /\ job[w].s \in Students
            /\ RowOf(w) # None => RowOf(w) \in Rows /\ RowOf(w).retry \in 0..RetryBound
            /\ n <= RetryBound
        <5>1. job[w].at # "idle"
          BY <2>1 DEF Claim
        <5> QED
          BY <2>1, <5>1, RunningJob DEF Claim
      <4>2. n \in 0..RetryBound
        BY <4>1, DailyAssumption
      <4>3. job[w].strategy \in Strategies
        BY <4>1 DEF Jobs
      <4>4. m \in Nat
        BY <4>1, DatedTyped DEF Inv, Rows
      <4> HIDE DEF m, n
      <4> QED
        BY <4>2, <4>3, <4>4 DEF Rows, Statuses, Reasons, Strategies
    <3>3. r # None /\ r.status = "preparing"
      BY <3>2, RowAssumption
    <3> HIDE DEF r
    <3> QED
      BY <3>1, <3>3
  <2>2. CASE Ready(w)
    <3>1. ~Claim(w)
      BY <2>2 DEF Ready, Claim
    <3> QED
      BY <2>2, <3>1 DEF Ready, SetRow
  <2>3. CASE Fail(w) /\ Holds(w)
    <3>1. ~Claim(w)
      BY <2>3 DEF Fail, Claim
    <3> QED
      BY <2>3, <3>1 DEF Fail, SetRow
  <2> QED
    BY <2>1, <2>2, <2>3
<1>2. row \in [Students -> [Days -> Rows \cup {None}]]
  BY DEF Inv, RowsTyped
<1>3. s = job[w].s /\ d = job[w].d /\ row'[s][d] = r
  BY <1>0, <1>1, <1>2
<1>4. row[s][d] = RowOf(w)
  BY <1>3 DEF RowOf
<1>5. CASE Claim(w)
  <2>1. ~Given(row[s][d])
    BY <1>3, <1>5, NotGivenClaim
  <2>2. ~(Ready(w) \/ Fail(w))
    BY <1>5 DEF Claim, Ready, Fail
  <2> QED
    BY <1>1, <1>3, <1>5, <2>1, <2>2 DEF Preparing
<1>6. CASE Ready(w) \/ (Fail(w) /\ Holds(w))
  <2>1. ~Claim(w) /\ Holds(w)
    BY <1>6 DEF Claim, Ready, Fail
  <2> QED
    BY <1>3, <1>4, <2>1 DEF Holds, HoldsAny, Preparing, Given
<1> QED
  BY <1>5, <1>6

\* The cell that ageing or an answer writes.
LEMMA CellWrites ==
  ASSUME Inv, NEW t \in Students, NEW e \in Days, Age(t, e) \/ Answer(t, e),
         NEW s \in Students, NEW d \in Days, row'[s][d] # row[s][d]
  PROVE  /\ row[s][d] # None /\ row'[s][d] # None /\ s = t /\ d = e
         /\ row'[s][d].content = row[s][d].content
         /\ Age(t, e) => ~Given(row[s][d]) /\ row'[s][d].status = "preparing"
         /\ Answer(t, e) => row[s][d].status = "ready" /\ row'[s][d].status = "completed"
<1>1. row[t][e] # None /\ row[t][e] \in Rows /\ row \in [Students -> [Days -> Rows \cup {None}]]
  BY RowTyped DEF Age, Answer, Preparing, Inv, RowsTyped
<1>2. CASE Age(t, e)
  <2> DEFINE r == [row[t][e] EXCEPT !.stale = TRUE]
  <2>1. r \in Rows /\ r.status = row[t][e].status /\ r.content = row[t][e].content
    BY <1>1 DEF Rows
  <2>2. s = t /\ d = e /\ row'[s][d] = r
    BY <1>1, <1>2 DEF Age
  <2>3. row[t][e].status = "preparing" /\ ~Answer(t, e)
    BY <1>2 DEF Age, Answer, Preparing
  <2> QED
    BY <1>1, <2>1, <2>2, <2>3, RowAssumption DEF Given
<1>3. CASE Answer(t, e)
  <2> DEFINE r == [row[t][e] EXCEPT !.status = "completed"]
  <2>1. r \in Rows /\ r.status = "completed" /\ r.content = row[t][e].content
    BY <1>1 DEF Rows, Statuses
  <2>2. s = t /\ d = e /\ row'[s][d] = r
    BY <1>1, <1>3 DEF Answer
  <2>3. row[t][e].status = "ready" /\ ~Age(t, e)
    BY <1>3 DEF Age, Answer, Preparing
  <2> QED
    BY <1>1, <2>1, <2>2, <2>3, RowAssumption
<1> QED
  BY <1>2, <1>3

\* A question once given is not replaced, nor an answer undone, by an overtaken
\* preparation, a late visit or a new schedule (ReservePreparation,
\* FinishPreparation, FailPreparation).
THEOREM DailyGivenStays == Spec => GivenStays
<1>1. IInv /\ [Next]_vars =>
        [\A s \in Students, d \in Days : Given(row[s][d]) =>
           /\ Given(row'[s][d]) /\ row[s][d].content = row'[s][d].content
           /\ row[s][d].status = "completed" => row'[s][d].status = "completed"]_vars
  <2> SUFFICES ASSUME Inv, Next, NEW s \in Students, NEW d \in Days, Given(row[s][d]),
                      row'[s][d] # row[s][d]
               PROVE  /\ Given(row'[s][d]) /\ row[s][d].content = row'[s][d].content
                      /\ row[s][d].status = "completed" => row'[s][d].status = "completed"
    BY DEF Given, IInv
  <2>1. PICK t \in Students, e \in Days : Age(t, e) \/ Answer(t, e)
    BY RowSteps, PreparationWrites
  <2> QED
    BY <2>1, CellWrites DEF Given
<1> QED
  BY <1>1, Invariance, PTL DEF Spec, GivenStays

\* The one who ends a preparation holds its latest reservation
\* (generation_token in FinishPreparation and FailPreparation).
THEOREM DailyHolderSettles == Spec => HolderSettles
<1>1. IInv /\ [Next]_vars =>
        [\A s \in Students, d \in Days :
           Preparing(row[s][d]) /\ ~Preparing(row'[s][d]) =>
             \E w \in Workers : /\ job[w].at \in {"finish", "fail"} /\ job[w].s = s
                                /\ job[w].d = d /\ job[w].gen = row[s][d].retry]_vars
  <2> SUFFICES ASSUME Inv, Next, NEW s \in Students, NEW d \in Days,
                      Preparing(row[s][d]), ~Preparing(row'[s][d])
               PROVE  \E w \in Workers : /\ job[w].at \in {"finish", "fail"} /\ job[w].s = s
                                         /\ job[w].d = d /\ job[w].gen = row[s][d].retry
    BY DEF IInv
  <2>1. row'[s][d] # row[s][d]
    OBVIOUS
  <2>2. CASE \E w \in Workers : Claim(w) \/ Ready(w) \/ (Fail(w) /\ Holds(w))
    <3> PICK w \in Workers : Claim(w) \/ Ready(w) \/ (Fail(w) /\ Holds(w))
      BY <2>2
    <3>1. s = job[w].s /\ d = job[w].d /\ ~Claim(w)
      BY <2>1, PreparationWrites
    <3>2. job[w].gen = row[s][d].retry /\ job[w].at \in {"finish", "fail"}
      BY <2>1, <3>1, PreparationWrites DEF Ready, Fail
    <3> QED
      BY <3>1, <3>2
  <2>3. CASE \E t \in Students, e \in Days : Age(t, e) \/ Answer(t, e)
    BY <2>1, <2>3, CellWrites DEF Preparing
  <2> QED
    BY <2>1, <2>2, <2>3, RowSteps
<1> QED
  BY <1>1, Invariance, PTL DEF Spec, HolderSettles

=============================================================================
