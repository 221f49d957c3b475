---------------------------- MODULE AnswerGrading ----------------------------
(***************************************************************************)
(* Whether an answer is right: internal/application/exercise/service.go    *)
(* from the text of an answer to the verdict that is recorded, the local   *)
(* comparison of internal/application/mathsolver, the recognition of an    *)
(* answer on a photograph, and the same pipeline where it checks what a    *)
(* language model has written: a generated question before it is stored, a *)
(* worked solution before it is shown.                                     *)
(*                                                                         *)
(* One question and one piece of work at a time.  A model's answer is any  *)
(* of its shapes.  Texts are compared after the removal of blanks and case,*)
(* so they are given without.                                              *)
(***************************************************************************)
EXTENDS Integers

CONSTANTS
  Letters,        \* of the options, in their order
  Formulas,       \* other texts of an option, and expressions
  MaxExponent     \* the comparator's limit on an exponent

VARIABLES
  asked,    \* the stored question
  work,     \* the request under way
  outcome   \* the last verdict, or solution, that a student was given

gradingVars == <<asked, work, outcome>>

Texts == {Letters[i] : i \in DOMAIN Letters} \cup Formulas
OptionLists == {o \in [DOMAIN Letters -> Texts] : \A i, j \in DOMAIN o : i # j => o[i] # o[j]}

\* A number as it is written: digits with a point and a power of ten, over another.
Scalar(digits, places, exponent) == [digits |-> digits, places |-> places, exponent |-> exponent]
One == Scalar(1, 0, 0)
Fraction(above, below) == [above |-> above, below |-> below]
Written ==
  {Fraction(s, One) : s \in {Scalar(5, 1, 0), Scalar(5, 0, -1), Scalar(50, 2, 0), Scalar(5, 0, 0),
                             Scalar(-5, 1, 0), Scalar(5, 0, -(MaxExponent + 1))}}
    \cup {Fraction(One, Scalar(2, 0, 0)), Fraction(One, Scalar(0, 0, 0))}

Zero == <<0, 1>>
Exactly == [absolute |-> Zero, relative |-> Zero]
NoQuestion == [kind |-> "none", origin |-> "none", options |-> <<>>, answer |-> "none", meant |-> 0,
               tolerance |-> Exactly, attempts |-> {}, body |-> "none"]
Idle == [phase |-> "idle", purpose |-> "none", attempt |-> 0, avoid |-> FALSE, draft |-> NoQuestion,
         answer |-> "none", checked |-> {}]
NoOutcome == [verdict |-> "none", answer |-> "none", by |-> "none", sure |-> FALSE]

GradingInit == asked = NoQuestion /\ work = Idle /\ outcome = NoOutcome

AtRest == work.phase = "idle"
Asked == asked.kind # "none"

-----------------------------------------------------------------------------
(* The options of a choice.                                                *)

Found(option) == [found |-> TRUE, option |-> option]
NotFound == [found |-> FALSE, option |-> "none"]

MatchingOption(options, text) ==
  IF \E i \in DOMAIN options : options[i] = text THEN Found(text) ELSE NotFound

OptionFromLabel(options, text) ==
  IF \E i \in DOMAIN options : Letters[i] = text
    THEN Found(options[CHOOSE i \in DOMAIN options : Letters[i] = text]) ELSE NotFound

FirstFound(one, other) == IF one.found THEN one ELSE other

\* canonicalQuestionOption, for a teacher's form
CanonicalQuestionOption(options, text) ==
  FirstFound(OptionFromLabel(options, text), MatchingOption(options, text))

CanonicalCorrectOption(question, text) ==
  IF question.origin = "teacher"
    THEN CanonicalQuestionOption(question.options, text)
    ELSE FirstFound(MatchingOption(question.options, text), OptionFromLabel(question.options, text))

CanonicalStudentOption(options, text) ==
  FirstFound(MatchingOption(options, text), OptionFromLabel(options, text))

Check(decision, confidence, failure, by) ==
  [decision |-> decision, confidence |-> confidence, failure |-> failure, by |-> by]

InvalidMultipleChoiceReference(question) ==
  question.kind = "choice" /\ ~CanonicalCorrectOption(question, question.answer).found

DeterministicMultipleChoice(question, text) ==
  LET picked == CanonicalStudentOption(question.options, text)
  IN  IF InvalidMultipleChoiceReference(question) THEN Check("indeterminate", "low", "invalid_input", "choice")
      ELSE IF picked.found /\ picked.option = CanonicalCorrectOption(question, question.answer).option
             THEN Check("correct", "high", "none", "choice")
             ELSE Check("incorrect", "high", "none", "choice")

-----------------------------------------------------------------------------
(* The comparator.  A rational number is a pair <<numerator, denominator>>. *)

Power[n \in Nat] == IF n = 0 THEN 1 ELSE 10 * Power[n - 1]
ScalePowerOfTen(value, exponent) ==
  IF exponent >= 0 THEN <<value[1] * Power[exponent], value[2]>> ELSE <<value[1], value[2] * Power[-exponent]>>

ParseBoundedExponent(s) == s.exponent \in -MaxExponent..MaxExponent
ParseDecimal(s) == ScalePowerOfTen(<<s.digits, Power[s.places]>>, s.exponent)

\* A zero below, or an exponent beyond the limit, is not a number that can be compared.
Parseable(n) == ParseBoundedExponent(n.above) /\ ParseBoundedExponent(n.below) /\ ParseDecimal(n.below)[1] # 0
ParseNumber(n) ==
  LET above == ParseDecimal(n.above)
      below == ParseDecimal(n.below)
  IN  <<above[1] * below[2], above[2] * below[1]>>
ParseTolerance(t) == t[1] >= 0

Magnitude(i) == IF i < 0 THEN -i ELSE i
AtMost(p, q) == p[1] * q[2] <= q[1] * p[2]

\* The difference is within the larger of the two tolerances.
WithinTolerance(student, reference, tolerance) ==
  LET difference == <<Magnitude(student[1] * reference[2] - reference[1] * student[2]), student[2] * reference[2]>>
      relative == <<tolerance.relative[1] * Magnitude(reference[1]), tolerance.relative[2] * reference[2]>>
  IN  AtMost(difference, tolerance.absolute) \/ AtMost(difference, relative)

CompareNumeric(student, reference, tolerance) ==
  IF ~Parseable(student) \/ ~Parseable(reference) THEN Check("indeterminate", "low", "numeric_parse_failed", "local")
  ELSE IF ~ParseTolerance(tolerance.absolute) \/ ~ParseTolerance(tolerance.relative) THEN Check("indeterminate", "low", "invalid_tolerance", "local")
  ELSE IF WithinTolerance(ParseNumber(student), ParseNumber(reference), tolerance)
         THEN Check("correct", "high", "none", "local")
         ELSE Check("incorrect", "high", "none", "local")

\* Two forms of an expression may still be equal.
CompareExactExpression(student, reference) ==
  IF student = reference THEN Check("correct", "high", "none", "local")
                         ELSE Check("indeterminate", "low", "none", "local")

LocalCheck(question, text) ==
  CASE question.kind = "choice" -> DeterministicMultipleChoice(question, text)
    [] question.kind = "numeric" -> CompareNumeric(text, question.answer, question.tolerance)
    [] OTHER -> CompareExactExpression(text, question.answer)

-----------------------------------------------------------------------------
(* What a solver answers.                                                  *)

Confidences == {"low", "high", "out of range"}
SolverJSON ==
  [decision : {"missing", "correct", "incorrect", "indeterminate", "other"},
   isCorrect : {"missing", "yes", "no"}, confidence : Confidences, evidence : BOOLEAN]

ReadDecision(json) ==
  IF json.decision # "missing" THEN json.decision
  ELSE IF json.isCorrect = "missing" THEN "other"
  ELSE IF json.confidence = "low" THEN "indeterminate"
  ELSE IF json.isCorrect = "yes" THEN "correct" ELSE "incorrect"

Usable(json) ==
  /\ json.confidence # "out of range" /\ ReadDecision(json) # "other"
  /\ json.decision = "indeterminate" => json.confidence = "low"
  /\ json.decision \in {"correct", "incorrect"} /\ json.confidence = "high" => json.evidence

ParseAnswerCheck(json) ==
  IF json.confidence = "low" THEN Check("indeterminate", "low", "none", "solver")
                             ELSE Check(ReadDecision(json), "high", "none", "solver")

\* normalizeAnswerCheckResult: no decision without confidence, no confidence without one
NormalizeAnswerCheck(check) ==
  CASE check.confidence = "out of range" -> [check EXCEPT !.decision = "indeterminate", !.confidence = "low"]
    [] check.decision \in {"correct", "incorrect"} /\ check.confidence = "low" ->
         [check EXCEPT !.decision = "indeterminate"]
    [] check.decision = "indeterminate" /\ check.confidence = "high" ->
         [check EXCEPT !.failure = "solver_invalid_response"]
    [] OTHER -> check

SolverFailures == {"solver_unavailable", "solver_timeout", "canceled", "solver_invalid_response"}

\* SolverAnswerChecker.CheckExerciseAnswer after the local comparison: it keeps a decision,
\* and an indecision when the solver fails.
SolverChecks(fallback) ==
  IF fallback.decision # "indeterminate" THEN {fallback}
  ELSE {[fallback EXCEPT !.failure = f] : f \in SolverFailures}
         \cup {NormalizeAnswerCheck(ParseAnswerCheck(json)) : json \in {j \in SolverJSON : Usable(j)}}

CheckExerciseAnswer(question, text) ==
  IF question.kind = "choice" THEN {LocalCheck(question, text)}
                              ELSE SolverChecks(NormalizeAnswerCheck(LocalCheck(question, text)))

\* verifySolutionAnswer: a local failure is final here
VerifySolutionAnswer(question, text) ==
  LET local == NormalizeAnswerCheck(LocalCheck(question, text))
  IN  IF local.decision # "indeterminate" \/ local.failure # "none" THEN {local}
                                                                  ELSE CheckExerciseAnswer(question, text)

\* parseSolutionVerificationJSON wants every field, and evidence
VerifySteps ==
  {NormalizeAnswerCheck(ParseAnswerCheck(json)) :
     json \in {j \in SolverJSON : Usable(j) /\ j.decision # "missing" /\ j.evidence}}

AnswerTexts(kind) == CASE kind = "choice" -> Texts [] kind = "numeric" -> Written [] OTHER -> Formulas

-----------------------------------------------------------------------------
(* A teacher's question.                                                   *)

PositionOf(options, option) == CHOOSE i \in DOMAIN options : options[i] = option

\* The answer a teacher gives is stored as the text of an option.
SaveChoice(options, text) ==
  LET option == CanonicalQuestionOption(options, text)
  IN  /\ AtRest /\ option.found
      /\ asked' = [NoQuestion EXCEPT !.kind = "choice", !.origin = "teacher", !.options = options,
                                     !.answer = option.option, !.meant = PositionOf(options, option.option)]
      /\ outcome' = NoOutcome /\ UNCHANGED work

SaveShortAnswer(kind, answer, tolerance) ==
  /\ AtRest
  /\ asked' = [NoQuestion EXCEPT !.kind = kind, !.origin = "teacher", !.answer = answer, !.tolerance = tolerance]
  /\ outcome' = NoOutcome /\ UNCHANGED work

\* normalizeMultipleChoiceUpdate: publishing, or editing without a new answer, reads the
\* stored text as if it came from the form.
PublishChoice ==
  /\ AtRest /\ asked.kind = "choice" /\ asked.origin = "teacher"
  /\ CanonicalQuestionOption(asked.options, asked.answer).found
  /\ asked' = [asked EXCEPT !.answer = CanonicalQuestionOption(asked.options, asked.answer).option]
  /\ outcome' = NoOutcome /\ UNCHANGED work

-----------------------------------------------------------------------------
(* An answer.                                                              *)

\* An answer without text is a photograph.
Submit(photograph) ==
  /\ AtRest /\ Asked /\ ~InvalidMultipleChoiceReference(asked)
  /\ work' = [Idle EXCEPT !.phase = IF photograph THEN "recognize" ELSE "grade", !.purpose = "submission"]
  /\ UNCHANGED <<asked, outcome>>

AnswerOCRJSON == [status : {"ok", "unreadable", "other"}, empty : BOOLEAN, confidence : Confidences]

\* A status that goes with the presence of an answer, and a confidence in its range.
ParseAnswerOCR(json) ==
  json.confidence # "out of range" /\ json.status \in {"ok", "unreadable"} /\ (json.status = "ok") = ~json.empty

\* Of what can be parsed, a confident answer is kept.
Recognized(json) == ParseAnswerOCR(json) /\ json.status = "ok" /\ json.confidence = "high"

RecognizeAnswer(json) ==
  /\ work.phase = "recognize"
  /\ work' = IF Recognized(json) THEN [work EXCEPT !.phase = "grade"] ELSE Idle
  /\ UNCHANGED <<asked, outcome>>

Records(check) == check.decision # "indeterminate"

\* An indeterminate answer is replied to, or refused when there was a failure; no trace is kept.
Grade(text) ==
  /\ work.phase = "grade"
  /\ \E check \in CheckExerciseAnswer(asked, text) :
       outcome' = IF Records(NormalizeAnswerCheck(check))
                    THEN [verdict |-> check.decision, answer |-> text, by |-> check.by, sure |-> check.confidence = "high"]
                    ELSE outcome
  /\ work' = Idle /\ UNCHANGED asked

-----------------------------------------------------------------------------
(* A generated question, and a solution.                                   *)

GenerationAttempts(avoid) == IF avoid THEN 3 ELSE 2

GenerateExercise(avoid) ==
  /\ AtRest /\ ~Asked
  /\ work' = [Idle EXCEPT !.phase = "write", !.purpose = "question", !.attempt = 1, !.avoid = avoid]
  /\ UNCHANGED <<asked, outcome>>

\* With the reason of the failure, or no more.
AnotherAttempt ==
  IF work.attempt < GenerationAttempts(work.avoid)
    THEN [Idle EXCEPT !.phase = "write", !.purpose = "question", !.attempt = work.attempt + 1, !.avoid = work.avoid]
    ELSE Idle

Draft(kind, options, answer, body) ==
  [NoQuestion EXCEPT !.kind = kind, !.origin = "generated", !.options = options, !.answer = answer, !.body = body]

\* parseGeneratedQuestionJSON and validGeneratedQuestion; then IsDuplicate
ValidGeneratedQuestion(draft) ==
  /\ draft.kind = "choice" => \E i \in DOMAIN draft.options : draft.options[i] = draft.answer
  /\ work.avoid => draft.body = "new"

WithMeaning(draft) ==
  IF draft.kind = "choice" THEN [draft EXCEPT !.meant = PositionOf(draft.options, draft.answer)] ELSE draft

DraftArrives(draft) ==
  /\ work.phase = "write"
  /\ work' = IF ValidGeneratedQuestion(draft)
               THEN [work EXCEPT !.phase = "solve", !.draft = WithMeaning(draft)]
               ELSE AnotherAttempt
  /\ UNCHANGED <<asked, outcome>>

\* Text that is not JSON is another attempt; a model that cannot be reached ends the request.
DraftFails ==
  /\ work.phase = "write" /\ work' \in {AnotherAttempt, Idle} /\ UNCHANGED <<asked, outcome>>

\* GetSolution for a question without stored steps: the same checks, once.
GetSolution ==
  /\ AtRest /\ Asked /\ ~InvalidMultipleChoiceReference(asked)
  /\ work' = [Idle EXCEPT !.phase = "solve", !.purpose = "solution", !.attempt = 1, !.draft = asked]
  /\ UNCHANGED <<asked, outcome>>

\* A content error is worth another attempt, a failure of the service ends the request.
Rejected == IF work.purpose = "question" THEN AnotherAttempt ELSE Idle

\* normalizeSolutionResult lets a solution through only when it is sure of itself.
Solved(status, confidence, evidence) == status = "solved" /\ confidence = "high" /\ evidence
Solve(text, status, confidence, evidence) ==
  /\ work.phase = "solve"
  /\ work' = IF Solved(status, confidence, evidence)
               THEN [work EXCEPT !.phase = "match", !.answer = text, !.checked = @ \cup {<<work.attempt, "solved">>}]
             ELSE IF status = "indeterminate" /\ confidence = "low" THEN Rejected ELSE Idle
  /\ UNCHANGED <<asked, outcome>>

Match ==
  /\ work.phase = "match"
  /\ \E check \in VerifySolutionAnswer(work.draft, work.answer) :
       work' = IF NormalizeAnswerCheck(check).decision = "correct"
                 THEN [work EXCEPT !.phase = "steps", !.checked = @ \cup {<<work.attempt, "agrees">>}]
                 ELSE Rejected
  /\ UNCHANGED <<asked, outcome>>

CheckSteps ==
  /\ work.phase = "steps"
  /\ \/ \E check \in VerifySteps :
          work' = IF check.decision = "correct"
                    THEN [work EXCEPT !.phase = "store", !.checked = @ \cup {<<work.attempt, "steps">>}]
                    ELSE Rejected
     \/ work' = Idle
  /\ UNCHANGED <<asked, outcome>>

\* The solver's answer replaces the draft's where it names an option.
VerifiedAnswer(draft, text) ==
  LET option == CanonicalStudentOption(draft.options, text)
  IN  IF draft.kind = "choice" /\ option.found THEN option.option ELSE draft.answer

StoreOrShow ==
  /\ work.phase = "store"
  /\ IF work.purpose = "question"
       THEN /\ asked' = [work.draft EXCEPT !.answer = VerifiedAnswer(work.draft, work.answer), !.attempts = work.checked]
            /\ UNCHANGED outcome
       ELSE /\ outcome' = [verdict |-> "solution", answer |-> work.answer, by |-> "solver", sure |-> TRUE]
            /\ UNCHANGED asked
  /\ work' = Idle

Tolerances == {Exactly, [Exactly EXCEPT !.absolute = <<1, 2>>], [Exactly EXCEPT !.relative = <<9, 1>>],
               [Exactly EXCEPT !.absolute = <<-1, 1>>]}

GradingNext ==
  \/ \E options \in OptionLists, text \in Texts : SaveChoice(options, text)
  \/ \E n \in Written, t \in Tolerances : SaveShortAnswer("numeric", n, t)
  \/ \E f \in Formulas : SaveShortAnswer("expression", f, Exactly)
  \/ PublishChoice
  \/ \E photograph \in BOOLEAN : Submit(photograph)
  \/ \E json \in AnswerOCRJSON : RecognizeAnswer(json)
  \/ \E text \in AnswerTexts(asked.kind) : Grade(text)
  \/ \E avoid \in BOOLEAN : GenerateExercise(avoid)
  \/ \E b \in {"new", "seen"} :
       \/ \E o \in OptionLists, t \in Texts : DraftArrives(Draft("choice", o, t, b))
       \/ \E n \in Written : DraftArrives(Draft("numeric", <<>>, n, b))
  \/ DraftFails
  \/ GetSolution
  \/ \E text \in AnswerTexts(work.draft.kind), status \in {"solved", "indeterminate"}, c \in Confidences, e \in BOOLEAN :
       Solve(text, status, c, e)
  \/ Match \/ CheckSteps \/ StoreOrShow

-----------------------------------------------------------------------------
(* What should hold.                                                       *)

\* No option is the letter of another one.
Unambiguous(options) == \A i, j \in DOMAIN options : options[i] = Letters[j] => i = j

\* The value of a number, in 10^-4ths of a unit and halves (bound: Written needs no more).
ValueOf(n) == ((n.above.digits * Power[4 + n.above.exponent - n.above.places]) * 2) \div n.below.digits

SameNumber(one, other) ==
  Parseable(one) /\ Parseable(other) /\ ValueOf(one) = ValueOf(other)

\* A verdict is sure, and is the right one where the question allows to tell: the option
\* that was meant, in a question whose letters cannot be taken for texts or that the
\* program wrote itself; the number that was meant, however it is written.
VerdictsAreRight ==
  /\ outcome.verdict # "none" => outcome.sure
  /\ outcome.verdict \in {"correct", "incorrect"} =>
       CASE asked.kind = "choice" /\ (asked.origin = "generated" \/ Unambiguous(asked.options)) ->
              (outcome.verdict = "correct")
                <=> outcome.answer \in {asked.options[asked.meant]} \cup
                      (IF MatchingOption(asked.options, outcome.answer).found THEN {} ELSE {Letters[asked.meant]})
         [] asked.kind = "numeric" /\ asked.tolerance = Exactly /\ outcome.by = "local" ->
              (outcome.verdict = "correct") <=> SameNumber(outcome.answer, asked.answer)
         [] asked.kind = "expression" -> outcome.verdict = "incorrect" => outcome.by = "solver"
         [] OTHER -> TRUE

\* A generated question is stored only with a solution that was found, agreed with its
\* answer and was confirmed step by step in the same attempt, and means what it meant.
GeneratedIsVerified ==
  asked.origin = "generated" =>
    /\ \E n \in 1..3 : asked.attempts = {n} \X {"solved", "agrees", "steps"}
    /\ asked.kind = "choice" => asked.answer = asked.options[asked.meant]

GradingHolds == VerdictsAreRight /\ GeneratedIsVerified
=============================================================================
