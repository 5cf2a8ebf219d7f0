-------------------------- MODULE ReleaseEvaluation --------------------------
(***************************************************************************)
(* How a release comes to pass strictly: a live run answers the cases of   *)
(* the evaluation set from the installed release, people judge the answers *)
(* it wrote down, a replay of the same answers scores them with these      *)
(* verdicts (final_answer_evaluation.py).  These reports are private:      *)
(* maintainers write public aggregates of them by hand, pin the aggregates *)
(* in the release qualification (release_qualification.py), and the        *)
(* release evaluation reads the aggregates again (release_evaluation.py,   *)
(* candidate_release_evidence.py, candidate_answer_evidence.py).           *)
(*                                                                         *)
(* Each of these is a command that reads files one by one while the        *)
(* quality bar, the evaluation set, the code and the candidate may change. *)
(* A digest stands for what was hashed; the cases are one, with one        *)
(* measured score and one thing for people to judge.  A build of a release *)
(* has an id, which is given on the command line, the documents that the   *)
(* answers cite, and a manifest, whose digest stands for all of it: two    *)
(* builds may bear one id.                                                 *)
(***************************************************************************)
EXTENDS Naturals, Sequences, Functions

CONSTANTS
    None,
    Initial,   \* what may be in force at first
    Bars,      \* quality bars: the least score, for one id and version
    Datasets, Codes,
    Releases,  \* builds of a release: [id, cited, manifest]
    Scores,    \* what a run may measure
    Gates,     \* the order of the gates: "answers" and others
    Declared,  \* what maintainers may declare: a status for each gate
    Outcomes,  \* what the evidence of another gate may come to
    Misreports, \* reports that people may write without a program's report of it
    MaxChanges, MaxRuns, MaxVerdicts, MaxPins \* bounds

VARIABLES
    repo,      \* what is in force: [bar, dataset, code, release]
    run,       \* a live run or a replay in progress
    packet,    \* the answers, written down for people to judge
    origin,    \* the report of a live run
    verdicts,  \* what people judged
    reviewed,  \* the report of a replay
    published, \* the public aggregates: [origin, reviewed]
    misreported, \* history: the reports that people made up
    qualification, \* the declared statuses, the decision, and the pinned evidence
    evaluation, \* a release evaluation in progress, or its outcome
    judged,    \* history: the executions that people judged to be right
    changes, runs, judgings, pinnings \* how many there were

evidence == <<packet, origin, verdicts, reviewed>>
aggregates == <<published, misreported>>
bounds == <<changes, runs, judgings, pinnings>>
vars == <<repo, run, evidence, aggregates, qualification, evaluation, judged, bounds>>

Blocking == {"blocked", "failed", "not_implemented", "not_run", "not_verified", "pending"}
Severity == [passed |-> 0, pending |-> 1, not_run |-> 2, not_verified |-> 2,
             not_implemented |-> 3, failed |-> 4, blocked |-> 4]

(***************************************************************************)
(* External: the maintainers change what is in force.                      *)
(***************************************************************************)
Change ==
    /\ changes < MaxChanges /\ changes' = changes + 1
    /\ \/ \E b \in Bars : repo' = [repo EXCEPT !.bar = b]
       \/ \E d \in Datasets : repo' = [repo EXCEPT !.dataset = d]
       \/ \E c \in Codes : repo' = [repo EXCEPT !.code = c]
       \/ \E r \in Releases : repo' = [repo EXCEPT !.release = r]
    /\ repo' # repo
    /\ UNCHANGED <<run, evidence, aggregates, qualification, evaluation, judged,
                   runs, judgings, pinnings>>

(***************************************************************************)
(* A run of the evaluation.  It loads the bar and the set before it      *)
(* scores, and hashes the bar's file when it ends.                         *)
(***************************************************************************)
Idle == run = None /\ runs < MaxRuns
Starts(mode, execution) ==
    /\ run' = [mode |-> mode, bar |-> repo.bar, dataset |-> repo.dataset, execution |-> execution,
               verdicts |-> verdicts, hashed |-> None]
    /\ runs' = runs + 1

BeginLive ==
    /\ Idle
    /\ \E score \in Scores :
          Starts("live", [number |-> runs, score |-> score, release |-> repo.release,
                          dataset |-> repo.dataset])
    /\ UNCHANGED <<repo, evidence, aggregates, qualification, evaluation, judged,
                   changes, judgings, pinnings>>

WritePacket ==
    /\ run # None /\ run.mode = "live"
    /\ packet' = [dataset |-> run.dataset, execution |-> run.execution]
    /\ run' = [run EXCEPT !.mode = "live written", !.hashed = repo.bar]
    /\ UNCHANGED <<repo, origin, verdicts, reviewed, aggregates, qualification,
                   evaluation, judged, bounds>>

Satisfies(execution, bar) == execution.score >= bar

\* What people did not judge does not pass.
CasePasses(execution, verdict, bar) == verdict = TRUE /\ Satisfies(execution, bar)

Report(mode, hashed, bar, verdict) ==
    [mode |-> mode, dataset |-> run.dataset, bar |-> hashed, threshold |-> bar,
     execution |-> run.execution, verdict |-> verdict,
     strict |-> CasePasses(run.execution, verdict, bar)]

\* Nobody has judged what a live run has just answered.
WriteLiveReport ==
    /\ run # None /\ run.mode = "live written"
    /\ origin' = Report("live", run.hashed, run.bar, None)
    /\ run' = None
    /\ UNCHANGED <<repo, packet, verdicts, reviewed, aggregates, qualification,
                   evaluation, judged, bounds>>

\* External: a person judges what the packet says, and names what was judged.
Judge ==
    /\ packet # None /\ judgings < MaxVerdicts /\ judgings' = judgings + 1
    /\ \E right \in BOOLEAN :
          /\ verdicts' = [dataset |-> packet.dataset, execution |-> packet.execution, right |-> right]
          /\ judged' = IF right THEN judged \cup {packet.execution} ELSE judged
    /\ UNCHANGED <<repo, run, packet, origin, reviewed, aggregates, qualification,
                   evaluation, changes, runs, pinnings>>

\* A replay takes the report and the packet of one live run, of the set and the
\* bar in force, and of the candidate it is given: of its id, and with the documents
\* that the answers cite as the candidate has them.  What they do not cite, a
\* rebuild under the same id may have changed.
ReportReplayable == origin.dataset = repo.dataset /\ origin.bar = repo.bar
PacketReplayable ==
    packet.dataset = repo.dataset /\ origin.execution = packet.execution
OfCandidate ==
    /\ packet.execution.release.id = repo.release.id
    /\ packet.execution.release.cited = repo.release.cited
\* The verdicts are read first, and the bar and the set again when it scores.
BeginReplay ==
    /\ Idle /\ origin # None /\ packet # None
    /\ ReportReplayable /\ PacketReplayable /\ OfCandidate
    /\ Starts("replay read", packet.execution)
    /\ UNCHANGED <<repo, evidence, aggregates, qualification, evaluation, judged,
                   changes, judgings, pinnings>>
LoadBar ==
    /\ run # None /\ run.mode = "replay read"
    /\ run' = [run EXCEPT !.mode = "replay", !.bar = repo.bar, !.dataset = repo.dataset]
    /\ UNCHANGED <<repo, evidence, aggregates, qualification, evaluation, judged, bounds>>

\* What people judged must be of this set, and of these very answers.
OfThisSet(bundle) == bundle.dataset = run.dataset
\* Mutant: a verdict about the same case of another run counts.
VerdictBindsCase(verdict, execution) == verdict.execution.dataset = execution.dataset
VerdictBinds(verdict, execution) == verdict.execution = execution

FinishReplay ==
    /\ run # None /\ run.mode = "replay"
    /\ run.verdicts # None =>
          OfThisSet(run.verdicts) /\ VerdictBinds(run.verdicts, run.execution)
    /\ reviewed' = Report("replay", repo.bar, run.bar,
                          IF run.verdicts = None THEN None ELSE run.verdicts.right)
    /\ run' = None
    /\ UNCHANGED <<repo, packet, origin, verdicts, aggregates, qualification,
                   evaluation, judged, bounds>>
RunFails ==
    /\ run # None /\ run' = None
    /\ UNCHANGED <<repo, evidence, aggregates, qualification, evaluation, judged, bounds>>

(***************************************************************************)
(* External: people write the public aggregates of the two reports.  What  *)
(* the release evaluation asks of them goes beyond what the reports say:   *)
(* which code gave the answers, and that it did not change meanwhile.      *)
(* Nothing compares an aggregate with its report or its claim of the code  *)
(* with the run, so that claim is any, and a report may be made up.  That  *)
(* the code changed during the capture is as good as a claim of another.   *)
(***************************************************************************)
Aggregate(report, implementation) == [report |-> report, implementation |-> implementation]
Publish ==
    /\ \/ /\ origin # None
          /\ \E claim \in Codes :
                published' = [published EXCEPT !.origin = Aggregate(origin, claim)]
       \/ /\ reviewed # None
          /\ published' = [published EXCEPT !.reviewed = Aggregate(reviewed, None)]
    /\ UNCHANGED <<repo, run, evidence, misreported, qualification, evaluation, judged, bounds>>

\* Also the report of a live run, where no candidate is pinned.
Misreport ==
    /\ \E report \in Misreports :
          /\ misreported' = misreported \cup {report}
          /\ \/ /\ \E claim \in Codes :
                      published' = [published EXCEPT !.origin = Aggregate(report, claim)]
                /\ UNCHANGED origin
             \/ /\ published' = [published EXCEPT !.reviewed = Aggregate(report, None)]
                /\ UNCHANGED origin
             \/ origin' = report /\ UNCHANGED published
    /\ UNCHANGED <<repo, run, packet, verdicts, reviewed, qualification, evaluation,
                   judged, bounds>>

(***************************************************************************)
(* The qualification: maintainers declare a status for each gate, pin the  *)
(* evidence, and decide.                                                   *)
(***************************************************************************)
Blockers(declared) == {g \in Range(Gates) : declared[g] \in Blocking}
\* A decision that its own blockers contradict is refused when it is loaded.
Loads(q) == q.released <=> Blockers(q.declared) = {}

PinEvidence ==
    /\ pinnings < MaxPins /\ pinnings' = pinnings + 1
    /\ \E declared \in Declared, pinned \in BOOLEAN :
          /\ pinned => published.origin # None /\ published.reviewed # None
          /\ qualification' = [declared |-> declared, released |-> Blockers(declared) = {},
                 candidate |-> IF pinned
                               THEN [release |-> repo.release, origin |-> published.origin,
                                     reviewed |-> published.reviewed]
                               ELSE None]
    /\ UNCHANGED <<repo, run, evidence, aggregates, evaluation, judged,
                   changes, runs, judgings>>

(***************************************************************************)
(* The release evaluation.  It loads the qualification and the bar, checks *)
(* that the pinned files are there as they were pinned, and then reads     *)
(* each gate's evidence again.                                             *)
(***************************************************************************)
BeginEvaluation ==
    /\ evaluation = None /\ qualification # None /\ Loads(qualification)
    /\ evaluation' = [step |-> "candidate", qualification |-> qualification, bar |-> repo.bar,
                      failed |-> FALSE, gate |-> 1, blocked |-> FALSE,
                      release |-> None, named |-> None]
    /\ UNCHANGED <<repo, run, evidence, aggregates, qualification, judged, bounds>>

CandidateValid(pins) ==
    /\ pins.release = repo.release
    /\ pins.origin = published.origin /\ pins.reviewed = published.reviewed
CheckCandidate ==
    /\ evaluation # None /\ evaluation.step = "candidate"
    /\ LET pins == evaluation.qualification.candidate IN
       evaluation' = [evaluation EXCEPT !.step = "gates", !.release = repo.release,
                                        !.failed = pins # None /\ ~CandidateValid(pins)]
    /\ UNCHANGED <<repo, run, evidence, aggregates, qualification, judged, bounds>>

\* The aggregates are read again and must be those that were pinned: of the set and
\* the bar in force, of the id in the manifest that is there, scored with the
\* thresholds of that bar, differing in nothing but the verdict, and claiming the
\* code in force.  Nothing compares the build they are of with the pinned one.
AnswersBound(pins, bar) ==
    LET captured == pins.origin.report
        judgement == pins.reviewed.report
    IN  /\ published.reviewed = pins.reviewed /\ published.origin = pins.origin
        /\ bar = repo.bar
        /\ \A r \in {judgement, captured} :
              /\ r.dataset = repo.dataset /\ r.bar = repo.bar
              /\ r.execution.release.id = repo.release.id
        /\ judgement.mode = "replay" /\ captured.mode = "live"
        /\ judgement.execution = captured.execution
        /\ pins.origin.implementation = repo.code
        /\ judgement.threshold = repo.bar
        /\ Satisfies(judgement.execution, repo.bar)
        /\ judgement.strict

\* Without a candidate the report must be of a live run.
AnswersPass(report, candidate, bar) ==
    /\ report.dataset = repo.dataset /\ report.bar = repo.bar /\ report.strict
    /\ IF candidate = None THEN report.mode = "live" ELSE AnswersBound(candidate, bar)

AnswersStatus ==
    LET candidate == evaluation.qualification.candidate
        report == IF candidate = None THEN origin
                  ELSE IF published.reviewed = None THEN None ELSE published.reviewed.report
    IN  IF report = None THEN "not_run"
        ELSE IF AnswersPass(report, candidate, evaluation.bar) THEN "passed" ELSE "failed"

\* The evidence of another gate is not bound to the candidate here: it may come to
\* anything, or be what was declared.
Evaluated(gate) ==
    IF gate = "answers" THEN {AnswersStatus}
    ELSE Outcomes \cup {evaluation.qualification.declared[gate]}

\* What is evaluated can make a declared status worse, never better.
Rank(status) == IF status \in DOMAIN Severity THEN Severity[status] ELSE 4
Stricter(declared, evaluated) ==
    IF evaluated \in {"failed", "not_run"} THEN evaluated
    ELSE IF Rank(declared) >= Rank(evaluated) THEN declared ELSE evaluated

EvaluateGate ==
    /\ evaluation # None /\ evaluation.step = "gates" /\ evaluation.gate <= Len(Gates)
    /\ \E evaluated \in Evaluated(Gates[evaluation.gate]) :
          LET declared == evaluation.qualification.declared[Gates[evaluation.gate]]
              status == IF evaluation.failed THEN "failed" ELSE Stricter(declared, evaluated)
          IN  evaluation' = [evaluation EXCEPT
                    !.gate = @ + 1, !.blocked = @ \/ status \in Blocking,
                    !.named = IF Gates[evaluation.gate] = "answers" THEN repo.release.id ELSE @]
    /\ UNCHANGED <<repo, run, evidence, aggregates, qualification, judged, bounds>>

StrictPassed == ~evaluation.failed /\ evaluation.qualification.released /\ ~evaluation.blocked
Conclude ==
    /\ evaluation # None /\ evaluation.step = "gates" /\ evaluation.gate > Len(Gates)
    /\ evaluation' = [evaluation EXCEPT !.step = IF StrictPassed THEN "passed" ELSE "blocked"]
    /\ UNCHANGED <<repo, run, evidence, aggregates, qualification, judged, bounds>>
EndEvaluation ==
    /\ evaluation # None /\ evaluation' = None
    /\ UNCHANGED <<repo, run, evidence, aggregates, qualification, judged, bounds>>

Init ==
    /\ repo \in Initial
    /\ run = None /\ packet = None /\ origin = None /\ verdicts = None /\ reviewed = None
    /\ published = [origin |-> None, reviewed |-> None] /\ misreported = {}
    /\ qualification = None /\ evaluation = None /\ judged = {}
    /\ changes = 0 /\ runs = 0 /\ judgings = 0 /\ pinnings = 0

Next ==
    \/ Change \/ BeginLive \/ WritePacket \/ WriteLiveReport \/ Judge
    \/ BeginReplay \/ LoadBar \/ FinishReplay \/ RunFails
    \/ Publish \/ Misreport
    \/ PinEvidence \/ BeginEvaluation \/ CheckCandidate \/ EvaluateGate \/ Conclude \/ EndEvaluation

Spec == Init /\ [][Next]_vars

(***************************************************************************)
(* Properties.                                                             *)
(***************************************************************************)
\* A release passes strictly only on answers that people judged right, of a live
\* run whose measured score satisfies the quality bar that the evaluation loaded,
\* over a build of the id that the candidate's manifest bears when its answers are
\* evaluated - however the bar, the set, the code or the candidate was changed and
\* whatever was rerun, judged or published in between, unless a report was made up.
PassedAsJudged ==
    evaluation # None /\ evaluation.step = "passed" /\ misreported = {} =>
        \E e \in judged : /\ e.release.id = evaluation.named
                          /\ e.score >= evaluation.bar

\* The candidate whose pinned manifest was verified bears that id too: this holds
\* while at most one change is made.
PassedUnderItsName ==
    evaluation # None /\ evaluation.step = "passed" /\ misreported = {} =>
        evaluation.named = evaluation.release.id

\* The answers are of that very build (candidate_answer_evidence.py:60-61).  Not so: a
\* build of the same id will do, see README.
PassedAsBuilt ==
    evaluation # None /\ evaluation.step = "passed" /\ misreported = {} =>
        \E e \in judged : e.release = evaluation.release

\* There are such answers, whatever people report.  Not so: nobody compares an
\* aggregate with its report (candidate_answer_evidence.py:34), see README.
PassedAsReported ==
    evaluation # None /\ evaluation.step = "passed" =>
        \E e \in judged : e.score >= evaluation.bar
=============================================================================
