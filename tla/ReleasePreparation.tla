------------------------- MODULE ReleasePreparation -------------------------
(***************************************************************************)
(* A release on its way to the users: reviewed, built and installed by its *)
(* maintainers (SourceReview) and evaluated for its release                *)
(* (ReleaseEvaluation).  The two work on different files and meet only in  *)
(* the digest of a candidate, which to the evaluation is just a value.     *)
(***************************************************************************)
EXTENDS SourceReview, Sequences

CONSTANTS
    Initial, Bars, Datasets, Codes, Releases, Scores, Gates, Declared, Outcomes, Misreports,
    MaxChanges, MaxRuns, MaxVerdicts, MaxPins

VARIABLES
    repo, run, packet, origin, verdicts, reviewed, published, misreported,
    qualification, evaluation, judged, changes, runs, judgings, pinnings

\* The qualification file has a gate for the answers; a marker is no verdict.
ASSUME EvaluationAssumption ==
    /\ Gates \in Seq(STRING) /\ \E i \in DOMAIN Gates : Gates[i] = "answers"
    /\ None \notin BOOLEAN

Evaluation == INSTANCE ReleaseEvaluation

evaluationVars == <<repo, run, packet, origin, verdicts, reviewed, published, misreported,
                    qualification, evaluation, judged, changes, runs, judgings, pinnings>>

PreparationInit == Init /\ Evaluation!Init
PreparationNext ==
    \/ Next /\ UNCHANGED evaluationVars
    \/ Evaluation!Next /\ UNCHANGED vars
PreparationSpec == PreparationInit /\ [][PreparationNext]_<<vars, evaluationVars>>

\* What passes strictly was judged right, measured to satisfy the quality bar and of a
\* build of its id, unless a report was made up (release_evaluation.py,
\* candidate_answer_evidence.py, final_answer_evaluation.py).
PassedAsJudged == Evaluation!PassedAsJudged

\* The pinned build bears that id (candidate_release_evidence.py), while at most one
\* change is made; that the judged answers are of that very build, or that they exist
\* whatever people report, is not ensured.
PassedUnderItsName == Evaluation!PassedUnderItsName
PassedAsBuilt == Evaluation!PassedAsBuilt
PassedAsReported == Evaluation!PassedAsReported
=============================================================================
