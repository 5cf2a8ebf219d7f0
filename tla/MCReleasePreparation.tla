------------------------ MODULE MCReleasePreparation ------------------------
EXTENDS ReleasePreparation, TLC
CONSTANTS b1, b2, c1, d1
Symmetry == Permutations({b1, b2})

\* A build, two rebuilds under its id of which one leaves alone what the answers cite,
\* and a build of another id.
MCBuild == [id |-> "kr1", cited |-> "as read", manifest |-> 1]
MCReleases == {MCBuild, [MCBuild EXCEPT !.manifest = 2],
               [MCBuild EXCEPT !.cited = "reworded", !.manifest = 3],
               [MCBuild EXCEPT !.id = "kr2", !.manifest = 4]}
MCInitial == {[bar |-> bar, dataset |-> d1, code |-> c1, release |-> MCBuild] : bar \in Bars}

\* A reviewed replay that never was.
MCMisreports ==
    {[mode |-> "replay", dataset |-> d1, bar |-> 1, threshold |-> 1, verdict |-> TRUE,
      strict |-> TRUE,
      execution |-> [number |-> 0, score |-> 1, release |-> MCBuild, dataset |-> d1]]}
\* When a report was made up, nothing more is said of what passes.
NothingMadeUp == misreported = {}

\* Each of the two parts is explored on its own, the review from one repository: they
\* share no state.  After the last pinning nobody runs or judges: what that leads to can
\* only be published in place of what was pinned, and without it what passes would have
\* been judged by fewer.
Pinned == pinnings > 0 /\ pinnings = MaxPins
PinnedLast == Pinned => UNCHANGED <<run, runs, judgings>>
MCNext ==
    \/ changes + runs + pinnings = 0 /\ repo.bar = 1 /\ Next /\ UNCHANGED evaluationVars
    \/ fetches = 0 /\ Evaluation!Next /\ PinnedLast /\ UNCHANGED vars
MCSpec == PreparationInit /\ [][MCNext]_<<vars, evaluationVars>>
\* With two builds at most.  A build that has begun shares no state with the review:
\* every behaviour has one with the same builds, installations and approvals in which
\* the review's steps come first and its commands then end, the bundle is discarded
\* and, when no build is to come, the completed review is retracted.
ReviewSettled ==
    /\ fetch = None /\ command = None /\ machine = None
    /\ builds = MaxBuilds => completed = None
ReviewGoesFirst ==
    IF UNCHANGED <<fetch, machine, decisions, command, completed, seen, fetches, decided, edits>>
    THEN builds' = builds /\ UNCHANGED evaluationVars => ReviewSettled
    ELSE \/ builds < MaxBuilds /\ registry = None /\ \A b \in Builders :
               builder[b] # None => builder[b].step = "registry"
         \/ builds = MaxBuilds /\ completed' = None

\* Then how the review came about no longer matters.  Nor does it matter what an
\* evaluation has read once a gate has failed it, nor anything else when the last
\* qualification says of itself that it is not released: it passes no more.  After the
\* last pinning, a run in progress, the packet and the verdicts are read no more.
Doomed == evaluation # None /\ (evaluation.failed \/ evaluation.blocked)
EvaluationView ==
    IF Pinned /\ ~qualification.released THEN <<evaluation>>
    ELSE <<repo, origin, reviewed, published, qualification,
           IF Doomed THEN evaluation.step ELSE evaluation, judged, changes, pinnings,
           IF Pinned THEN <<>> ELSE <<run, packet, verdicts, runs, judgings>>>>
View ==
    IF builds = MaxBuilds
    THEN <<fetch = None, command = None, machine = None, completed = None, seen,
           builder, registry, release, install, dataDir, installs>>
    ELSE <<vars, EvaluationView>>

MCAddresses == {[final |-> "registry", observed |-> FALSE, answered |-> TRUE],
                [final |-> "moved", observed |-> TRUE, answered |-> TRUE],
                [final |-> "moved", observed |-> TRUE, answered |-> FALSE]}
Ruling(people, material, staffing, address, ok, time, human) ==
    [fallback |-> human,
     sources |-> [s \in Sources |->
        [reviewers |-> people, material |-> material, staffing |-> staffing, address |-> address,
         curated |-> TRUE, approved |-> ok, eligible |-> ok, reviewed |-> time]]]
MCRulings == {
    Ruling({"ann", "bo"}, TRUE, "separated", "approve-current", TRUE, 1, FALSE),
    Ruling({"ann", "bo"}, TRUE, "separated", "approve-current", TRUE, 0, FALSE),
    Ruling({"ann"}, TRUE, "fallback", "approve-replacement", TRUE, 1, TRUE),
    Ruling({"ann"}, TRUE, "separated", "approve-current", TRUE, 1, TRUE),
    Ruling({"ann"}, FALSE, "single", "approve-current", FALSE, 1, FALSE)}

MCGates == <<"answers", "suite">>
Passed == [answers |-> "passed", suite |-> "passed"]
MCDeclared == {Passed, [Passed EXCEPT !.suite = "pending"]}
=============================================================================
