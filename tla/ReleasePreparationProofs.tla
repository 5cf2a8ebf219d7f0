----------------------- MODULE ReleasePreparationProofs -----------------------
(* What the preparation of a release guarantees: of what is installed and of  *)
(* a candidate, for any sources, texts, decisions, builders and numbers of    *)
(* edits; and of what passes strictly, for any quality bars, evaluation sets, *)
(* gates and numbers of runs.                                                 *)
EXTENDS ReleasePreparation, TLAPS

(***************************************************************************)
(* The invariant.                                                          *)
(***************************************************************************)
\* Every source of a release is as people have read and approved it, who have
\* written down what is in S.
ApprovedIn(candidate, S) ==
    \A s \in Sources : \E r \in S :
        /\ r.source = s /\ r.pages = candidate.sources[s].pages /\ Approved(r.by)
        /\ r.by.material => \/ Cardinality(r.by.reviewers) >= 2
                            \/ r.fallback /\ r.by.staffing = "fallback"

\* Decisions are what people wrote down.
WrittenIn(human, S) ==
    \A s \in Sources :
        [source |-> s, pages |-> human.sources[s].pages, by |-> human.sources[s].judgment,
         fallback |-> human.fallback] \in S

\* The records of the commands in progress.
Shapes ==
    /\ command # None =>
          command = [step |-> command.step, manifest |-> command.manifest,
                     decisions |-> command.decisions,
                     copy |-> [files |-> command.copy.files, manifest |-> command.copy.manifest]]
    /\ completed # None =>
          completed = [files |-> completed.files, manifest |-> completed.manifest,
                       decisions |-> completed.decisions, review |-> completed.review]
    /\ builder = [b \in Builders |-> builder[b]]
    /\ \A b \in Builders : builder[b] # None =>
          builder[b] = [step |-> builder[b].step, of |-> builder[b].of]
    /\ install # None => install = [step |-> install.step, pinned |-> install.pinned]

\* Every file of decisions, and every copy of it, was written by people; a
\* completed review is as ready as its decisions say.
DecisionsWritten ==
    /\ decisions # None => WrittenIn(decisions, seen)
    /\ command # None /\ command.decisions # None => WrittenIn(command.decisions, seen)
    /\ command # None /\ (command.step # "decisions" \/ command.copy.files # None) =>
          command.decisions # None
    /\ completed # None =>
          /\ WrittenIn(completed.decisions, seen)
          /\ completed.review = CompletedReview(completed.review.manifest, completed.decisions)

ReleasesApproved ==
    /\ \A b \in Builders : builder[b] # None => ApprovedIn(builder[b].of, seen)
    /\ release \notin {None, Claimed} => ApprovedIn(release, seen)
    /\ install # None => ApprovedIn(install.pinned, seen)
    /\ dataDir # None => ApprovedIn(dataDir, seen)

Qualified ==
    /\ install # None /\ install.step = "install" => Retrievable(install.pinned)
    /\ dataDir # None => Retrievable(dataDir)

IInv == Shapes /\ DecisionsWritten /\ ReleasesApproved /\ Qualified

\* What was written down stays written down.
LEMMA StillWritten ==
    ASSUME NEW S, NEW T, S \subseteq T, NEW x
    PROVE  /\ ApprovedIn(x, S) => ApprovedIn(x, T)
           /\ WrittenIn(x, S) => WrittenIn(x, T)
BY DEF ApprovedIn, WrittenIn

\* The heart of the matter: a completed review of which a release may be built
\* holds the pages that people read, approved by as many as they must be.
LEMMA BuildableIsApproved ==
    ASSUME NEW bundle, NEW created, NEW number, NEW S,
           WrittenIn(bundle.decisions, S),
           bundle.review = CompletedReview(bundle.review.manifest, bundle.decisions),
           Buildable(bundle, created)
    PROVE  ApprovedIn(Release(number, bundle), S)
<1> DEFINE human == bundle.decisions
<1> SUFFICES ASSUME NEW s \in Sources
             PROVE  \E r \in S :
                 /\ r.source = s /\ r.pages = Release(number, bundle).sources[s].pages
                 /\ Approved(r.by)
                 /\ r.by.material => \/ Cardinality(r.by.reviewers) >= 2
                                     \/ r.fallback /\ r.by.staffing = "fallback"
  BY DEF ApprovedIn
<1>1. Release(number, bundle).sources[s].pages = bundle.files[s]
  BY DEF Release, ReviewedSource
<1>2. bundle.review.decisions = human /\ bundle.review.ready
  BY DEF Buildable
<1>3. Approved(human.sources[s].judgment)
  <2>1. bundle.review.ready = \A t \in Sources : Approved(human.sources[t].judgment)
    <3> DEFINE m == bundle.review.manifest
    <3>1. CompletedReview(m, human).ready = \A t \in Sources : Approved(human.sources[t].judgment)
      BY DEF CompletedReview
    <3>2. bundle.review = CompletedReview(m, human)
      OBVIOUS
    <3> HIDE DEF m
    <3> QED BY <3>1, <3>2
  <2> QED BY <1>2, <2>1
<1>4. bundle.files[s] = human.sources[s].pages
  <2>1. SourceReviewed(bundle.files[s], bundle.review.manifest.sources[s], human.sources[s],
                       bundle.review.manifest.retrieved, human.fallback)
    <3>1. ReviewValid(bundle.files, bundle.review.manifest, bundle.review.decisions)
      BY DEF Buildable
    <3> QED BY <1>2, <3>1 DEF ReviewValid
  <2> QED BY <2>1 DEF SourceReviewed, ArtifactsMatch
<1>5. StaffedForRegistry(human.sources[s].judgment, human.fallback)
  BY <1>2 DEF Buildable, RegistryQualified, EntryEligible
<1> DEFINE r == [source |-> s, pages |-> human.sources[s].pages,
                 by |-> human.sources[s].judgment, fallback |-> human.fallback]
<1>6. r \in S
  BY DEF WrittenIn
<1>7. r.by.material => \/ Cardinality(r.by.reviewers) >= 2
                       \/ r.fallback /\ r.by.staffing = "fallback"
  BY <1>5 DEF StaffedForRegistry, FallbackFits
<1> QED BY <1>1, <1>3, <1>4, <1>6, <1>7

LEMMA InitHolds == Init => IInv
BY DEF Init, IInv, Shapes, DecisionsWritten, ReleasesApproved, Qualified

-----------------------------------------------------------------------------
(* One lemma for each command. *)

\* The machine bundle is nobody's decision.
LEMMA FetchKeeps ==
    ASSUME IInv, BeginFetch \/ FetchPage \/ WriteManifest \/ FetchFails \/ Discard
    PROVE  IInv'
<1>1. UNCHANGED <<decisions, command, completed, builder, release, install, dataDir, seen>>
  BY DEF BeginFetch, FetchPage, WriteManifest, FetchFails, Discard, counts, buildVars,
         installVars
<1> QED BY <1>1 DEF IInv, Shapes, DecisionsWritten, ReleasesApproved, Qualified

LEMMA DecideKeeps == ASSUME IInv, Decide PROVE IInv'
<1>1. PICK ruling \in Rulings :
          /\ decisions' = [over |-> machine.manifest, fallback |-> ruling.fallback,
                           sources |-> [s \in Sources |->
                               [judgment |-> ruling.sources[s], pages |-> machine.files[s]]]]
          /\ seen' = seen \cup
                {[source |-> s, pages |-> machine.files[s], by |-> ruling.sources[s],
                  fallback |-> ruling.fallback] : s \in Sources}
  BY DEF Decide
<1>2. seen \subseteq seen'
  BY <1>1
<1>3. UNCHANGED <<command, completed, builder, release, install, dataDir>>
  BY DEF Decide, buildVars, installVars
<1>4. WrittenIn(decisions', seen')
  BY <1>1 DEF WrittenIn
<1>5. Shapes' /\ Qualified'
  BY <1>3 DEF IInv, Shapes, Qualified
<1>6. DecisionsWritten'
  BY <1>2, <1>3, <1>4, StillWritten DEF IInv, DecisionsWritten
<1>7. ReleasesApproved'
  BY <1>2, <1>3, StillWritten DEF IInv, ReleasesApproved
<1> QED BY <1>5, <1>6, <1>7 DEF IInv

\* An edit reaches the files of a bundle or of a completed review.
LEMMA EditKeeps == ASSUME IInv, Edit \/ Retract \/ Clear PROVE IInv'
<1>1. UNCHANGED <<decisions, command, install, dataDir, seen>>
  BY DEF Edit, Retract, Clear, reviewVars, counts, buildVars, installVars
<1>2. \/ completed' \in {completed, None}
      \/ completed # None /\ \E files : completed' = [completed EXCEPT !.files = files]
  BY DEF Edit, Retract, Clear, reviewVars
<1>3. \/ UNCHANGED <<builder, release>>
      \/ release' = None /\ builder' = [b \in Builders |-> None]
  BY DEF Edit, Retract, Clear, buildVars
<1>4. Shapes'
  BY <1>1, <1>2, <1>3 DEF IInv, Shapes
<1>5. DecisionsWritten'
  BY <1>1, <1>2 DEF IInv, Shapes, DecisionsWritten
<1>6. ReleasesApproved' /\ Qualified'
  BY <1>1, <1>3 DEF IInv, ReleasesApproved, Qualified
<1> QED BY <1>4, <1>5, <1>6 DEF IInv

LEMMA CommandKeeps ==
    ASSUME IInv,
           ReadBundle \/ ReadDecisions \/ Validate \/ Copy \/ Publish \/ CommandFails
    PROVE  IInv'
<1>1. UNCHANGED <<decisions, seen, builder, release, install, dataDir>>
  BY DEF ReadBundle, ReadDecisions, Validate, Copy, Publish, CommandFails, counts,
         buildVars, installVars
<1>2. ReleasesApproved' /\ Qualified'
  BY <1>1 DEF IInv, ReleasesApproved, Qualified
<1>3. Shapes' /\ DecisionsWritten'
  <2>1. CASE ReadBundle
    BY <1>1, <2>1 DEF IInv, Shapes, DecisionsWritten, ReadBundle
  <2>2. CASE ReadDecisions
    <3>1. /\ command # None /\ decisions # None /\ UNCHANGED completed
          /\ command' = [command EXCEPT !.step = "validate", !.decisions = decisions]
      BY <2>2 DEF ReadDecisions
    <3>2. /\ command' = [step |-> "validate", manifest |-> command.manifest,
                         decisions |-> decisions, copy |-> command.copy]
          /\ command.copy = [files |-> command.copy.files, manifest |-> command.copy.manifest]
      <4>1. PICK step, manifest, human, files, copied :
                command = [step |-> step, manifest |-> manifest, decisions |-> human,
                           copy |-> [files |-> files, manifest |-> copied]]
        BY <3>1 DEF IInv, Shapes
      <4> QED BY <3>1, <4>1
    <3>3. Shapes'
      BY <1>1, <3>1, <3>2 DEF IInv, Shapes
    <3>4. DecisionsWritten'
      BY <1>1, <3>1, <3>2 DEF IInv, DecisionsWritten
    <3> QED BY <3>3, <3>4
  <2>3. CASE Validate
    <3>1. command # None /\ command' = [command EXCEPT !.step = "copy"] /\ UNCHANGED completed
      BY <2>3 DEF Validate
    <3>2. /\ command' = [step |-> "copy", manifest |-> command.manifest,
                         decisions |-> command.decisions, copy |-> command.copy]
          /\ command.copy = [files |-> command.copy.files, manifest |-> command.copy.manifest]
      <4>1. PICK step, manifest, human, files, copied :
                command = [step |-> step, manifest |-> manifest, decisions |-> human,
                           copy |-> [files |-> files, manifest |-> copied]]
        BY <3>1 DEF IInv, Shapes
      <4> QED BY <3>1, <4>1
    <3>3. command.decisions # None
      BY <2>3 DEF IInv, DecisionsWritten, Validate
    <3>4. Shapes'
      BY <1>1, <3>1, <3>2 DEF IInv, Shapes
    <3>5. DecisionsWritten'
      BY <1>1, <3>1, <3>2, <3>3 DEF IInv, DecisionsWritten
    <3> QED BY <3>4, <3>5
  <2>4. CASE Copy
    <3>1. PICK part \in {"files", "manifest"} :
              command' = [command EXCEPT !.copy[part] = machine[part]]
      BY <2>4 DEF Copy
    <3>2. command # None /\ command.step = "copy" /\ UNCHANGED completed
      BY <2>4 DEF Copy
    <3>3. /\ command' = [step |-> command'.step, manifest |-> command'.manifest,
                         decisions |-> command'.decisions,
                         copy |-> [files |-> command'.copy.files,
                                   manifest |-> command'.copy.manifest]]
          /\ command'.step = "copy" /\ command'.decisions = command.decisions
      BY <3>1, <3>2 DEF IInv, Shapes
    <3>4. Shapes'
      BY <1>1, <3>2, <3>3 DEF IInv, Shapes
    <3>5. DecisionsWritten'
      BY <1>1, <3>2, <3>3 DEF IInv, DecisionsWritten
    <3> QED BY <3>4, <3>5
  <2>5. CASE Publish
    <3>1. /\ completed' = [files |-> command.copy.files, manifest |-> command.copy.manifest,
                           decisions |-> command.decisions,
                           review |-> CompletedReview(command.manifest, command.decisions)]
          /\ command' = None /\ WrittenIn(command.decisions, seen)
      BY <2>5 DEF IInv, DecisionsWritten, Publish
    <3>2. Shapes'
      BY <1>1, <3>1 DEF IInv, Shapes
    <3>3. completed'.review = CompletedReview(completed'.review.manifest, completed'.decisions)
      BY <3>1 DEF CompletedReview
    <3>4. DecisionsWritten'
      BY <1>1, <3>1, <3>3 DEF IInv, DecisionsWritten
    <3> QED BY <3>2, <3>4
  <2>6. CASE CommandFails
    BY <1>1, <2>6 DEF IInv, Shapes, DecisionsWritten, CommandFails
  <2> QED BY <2>1, <2>2, <2>3, <2>4, <2>5, <2>6
<1> QED BY <1>2, <1>3 DEF IInv

LEMMA BeginBuildKeeps == ASSUME IInv, NEW b \in Builders, BeginBuild(b) PROVE IInv'
<1>1. UNCHANGED <<decisions, command, completed, release, install, dataDir, seen>>
  BY DEF BeginBuild, reviewVars, counts, installVars
<1>2. builder' = [builder EXCEPT ![b] = [step |-> "registry", of |-> Release(builds, completed)]]
  BY DEF BeginBuild
<1>3. ApprovedIn(Release(builds, completed), seen)
  <2>1. PICK created \in Times : Buildable(completed, created)
    BY DEF BeginBuild
  <2>2. completed # None
    BY DEF BeginBuild
  <2> QED BY <2>1, <2>2, BuildableIsApproved DEF IInv, DecisionsWritten
<1>4. Shapes'
  BY <1>1, <1>2 DEF IInv, Shapes
<1>5. ReleasesApproved'
  BY <1>1, <1>2, <1>3 DEF IInv, Shapes, ReleasesApproved
<1>6. DecisionsWritten' /\ Qualified'
  BY <1>1 DEF IInv, DecisionsWritten, Qualified
<1> QED BY <1>4, <1>5, <1>6 DEF IInv

\* The steps of a build that has begun.
BuildStep(b) ==
    \/ ClaimRegistry(b) \/ ClaimRelease(b) \/ WriteRegistry(b) \/ Assemble(b)
    \/ CrossCheck(b) \/ BuildFails(b) \/ Remove(b) \/ Crash(b)

LEMMA BuildKeeps == ASSUME IInv, NEW b \in Builders, BuildStep(b) PROVE IInv'
<1>1. UNCHANGED <<decisions, command, completed, install, dataDir, seen>>
  BY DEF BuildStep, ClaimRegistry, ClaimRelease, WriteRegistry, Assemble, CrossCheck,
         BuildFails, Remove, Crash, Untouched, reviewVars, counts, installVars
<1>2. /\ builder[b] # None
      /\ Ends(b) \/ \E step : Goes(b, step)
      /\ release' \in {release, None, Claimed, builder[b].of}
  BY DEF BuildStep, ClaimRegistry, ClaimRelease, WriteRegistry, Assemble, CrossCheck,
         BuildFails, Remove, Crash, Building, Untouched
<1>3. \/ builder' = [builder EXCEPT ![b] = None]
      \/ \E step : builder' = [builder EXCEPT ![b] = [step |-> step, of |-> builder[b].of]]
  <2>1. CASE Ends(b)
    BY <2>1 DEF Ends
  <2>2. ASSUME NEW step, Goes(b, step)
        PROVE  builder' = [builder EXCEPT ![b] = [step |-> step, of |-> builder[b].of]]
    <3>1. [builder[b] EXCEPT !.step = step] = [step |-> step, of |-> builder[b].of]
      BY <1>2 DEF IInv, Shapes
    <3> QED BY <2>2, <3>1 DEF Goes
  <2> QED BY <1>2, <2>1, <2>2
<1>4. Shapes'
  BY <1>1, <1>3 DEF IInv, Shapes
<1>5. ReleasesApproved'
  BY <1>1, <1>2, <1>3 DEF IInv, Shapes, ReleasesApproved
<1>6. DecisionsWritten' /\ Qualified'
  BY <1>1 DEF IInv, DecisionsWritten, Qualified
<1> QED BY <1>4, <1>5, <1>6 DEF IInv

LEMMA InstallKeeps == ASSUME IInv, Pin \/ Qualify \/ Install \/ InstallFails PROVE IInv'
<1>1. UNCHANGED <<decisions, command, completed, seen, builder, release>>
  BY DEF Pin, Qualify, Install, InstallFails, reviewVars, counts, buildVars
<1>2. DecisionsWritten'
  BY <1>1 DEF IInv, DecisionsWritten
<1>3. Shapes' /\ ReleasesApproved' /\ Qualified'
  <2>1. CASE Pin
    BY <1>1, <2>1 DEF IInv, Shapes, ReleasesApproved, Qualified, Pin
  <2>2. CASE Qualify
    BY <1>1, <2>2 DEF IInv, Shapes, ReleasesApproved, Qualified, Qualify
  <2>3. CASE Install
    BY <1>1, <2>3 DEF IInv, Shapes, ReleasesApproved, Qualified, Install, Installed
  <2>4. CASE InstallFails
    BY <1>1, <2>4 DEF IInv, Shapes, ReleasesApproved, Qualified, InstallFails
  <2> QED BY <2>1, <2>2, <2>3, <2>4
<1> QED BY <1>2, <1>3 DEF IInv

LEMMA NextKeeps == IInv /\ [Next]_vars => IInv'
<1> SUFFICES ASSUME IInv, [Next]_vars PROVE IInv'
  OBVIOUS
<1>1. CASE UNCHANGED vars
  BY <1>1 DEF vars, reviewVars, buildVars, installVars, counts, IInv, Shapes,
              DecisionsWritten, ReleasesApproved, Qualified
<1>2. CASE Next
  BY <1>2, FetchKeeps, DecideKeeps, EditKeeps, CommandKeeps, BeginBuildKeeps, BuildKeeps,
     InstallKeeps DEF Next, BuildStep
<1> QED BY <1>1, <1>2

\* What is installed is what people read and approved as a whole, whichever
\* bundle, decisions or edited file a command met between its reads
\* (source_review.py, production_knowledge_release.py).
THEOREM InstalledIsReviewed == Spec => []InstalledAsReviewed
<1>1. IInv => InstalledAsReviewed
  BY DEF IInv, ReleasesApproved, ApprovedIn, InstalledAsReviewed
<1> QED BY <1>1, InitHolds, NextKeeps, PTL DEF Spec

\* What is installed has passed the qualification (install_and_verify).
THEOREM InstalledIsQualified == Spec => []InstalledAsQualified
<1>1. IInv => InstalledAsQualified
  BY DEF IInv, Qualified, InstalledAsQualified
<1> QED BY <1>1, InitHolds, NextKeeps, PTL DEF Spec

-----------------------------------------------------------------------------
(***************************************************************************)
(* Builds that share their outputs.                                        *)
(***************************************************************************)
\* What marks a path without a release is no release.
MarkersDistinct ==
    /\ None # Claimed
    /\ \A number, human, sources :
          [build |-> number, fallback |-> human, sources |-> sources] \notin {None, Claimed}

In(b, steps) == builder[b] # None /\ builder[b].step \in steps
HoldsRegistry(b) == In(b, {"release", "write", "assemble", "check", "returned"})
HoldsRelease(b) == In(b, {"write", "assemble", "check", "returned", "failed"})

BuilderShapes ==
    /\ builder = [b \in Builders |-> builder[b]]
    /\ \A b \in Builders : builder[b] # None =>
          /\ \E step, of : builder[b] = [step |-> step, of |-> of]
          /\ builder[b].of \notin {None, Claimed}

\* An output is held by one build at a time, and is what its step has made it.
OutputsHeld ==
    /\ \A b, c \in Builders : HoldsRegistry(b) /\ HoldsRegistry(c) => b = c
    /\ \A b, c \in Builders : HoldsRelease(b) /\ HoldsRelease(c) => b = c
    /\ \A b \in Builders :
          /\ In(b, {"release", "write"}) => registry = Claimed
          /\ In(b, {"assemble", "check", "returned"}) => registry = builder[b].of
          /\ In(b, {"write", "assemble"}) => release = Claimed
          /\ In(b, {"check", "returned"}) => release = builder[b].of
          /\ In(b, {"failed"}) => release # None

Outputs == BuilderShapes /\ OutputsHeld

\* Whoever holds an output, it is there.
LEMMA HeldIsThere ==
    ASSUME MarkersDistinct, Outputs, NEW b \in Builders
    PROVE  /\ HoldsRegistry(b) => registry # None
           /\ HoldsRelease(b) => release # None
BY DEF MarkersDistinct, Outputs, BuilderShapes, OutputsHeld, HoldsRegistry, HoldsRelease, In

\* One build is replaced by nothing, or by a build of a release.
LEMMA Replaced ==
    ASSUME BuilderShapes, NEW b \in Builders, NEW x, builder' = [builder EXCEPT ![b] = x],
           x = None \/ \E step, of : /\ x = [step |-> step, of |-> of]
                                    /\ of \notin {None, Claimed}
    PROVE  BuilderShapes'
<1>1. builder' = [c \in Builders |-> IF c = b THEN x ELSE builder[c]]
  BY DEF BuilderShapes
<1>2. \A c \in Builders : builder'[c] = IF c = b THEN x ELSE builder[c]
  BY <1>1
<1>3. builder' = [c \in Builders |-> builder'[c]]
  BY <1>1
<1>4. ASSUME NEW c \in Builders, builder'[c] # None
      PROVE  /\ \E step, of : builder'[c] = [step |-> step, of |-> of]
             /\ builder'[c].of \notin {None, Claimed}
  <2>1. CASE c = b
    <3>1. PICK step, of : x = [step |-> step, of |-> of] /\ of \notin {None, Claimed}
      BY <1>2, <1>4, <2>1
    <3>2. builder'[c] = x /\ x.of = of
      BY <1>2, <2>1, <3>1
    <3> QED BY <3>1, <3>2
  <2>2. CASE c # b
    BY <1>2, <1>4, <2>2 DEF BuilderShapes
  <2> QED BY <2>1, <2>2
<1> QED BY <1>3, <1>4 DEF BuilderShapes

\* What a build's step does to the build itself.
LEMMA StepOf ==
    ASSUME Outputs, NEW b \in Builders, builder[b] # None
    PROVE  /\ \A step : Goes(b, step) =>
                builder' = [builder EXCEPT ![b] = [step |-> step, of |-> builder[b].of]]
           /\ Ends(b) => builder' = [builder EXCEPT ![b] = None]
<1>1. PICK step0, of : builder[b] = [step |-> step0, of |-> of]
  BY DEF Outputs, BuilderShapes
<1>2. \A step : [builder[b] EXCEPT !.step = step] = [step |-> step, of |-> builder[b].of]
  BY <1>1
<1> QED BY <1>2 DEF Goes, Ends

\* A step that leaves the outputs of the others as they are, and its own as its
\* new step has them.
LEMMA StepKeeps ==
    ASSUME MarkersDistinct, Outputs, NEW b \in Builders, BuildStep(b)
    PROVE  Outputs'
<1>1. builder[b] # None /\ builder[b].of \notin {None, Claimed}
  BY DEF BuildStep, ClaimRegistry, ClaimRelease, WriteRegistry, Assemble, CrossCheck,
         BuildFails, Remove, Crash, Building, Outputs, BuilderShapes
<1>2. /\ \A c \in Builders : HoldsRegistry(c) => registry # None
      /\ \A c \in Builders : HoldsRelease(c) => release # None
  BY HeldIsThere
<1>3. BuilderShapes'
  <2>1. \/ builder' = [builder EXCEPT ![b] = None]
        \/ \E step : builder' = [builder EXCEPT ![b] = [step |-> step, of |-> builder[b].of]]
    <3>1. Ends(b) \/ \E step : Goes(b, step)
      BY DEF BuildStep, ClaimRegistry, ClaimRelease, WriteRegistry, Assemble, CrossCheck,
             BuildFails, Remove, Crash
    <3> QED BY <3>1, <1>1, StepOf
  <2> QED BY <1>1, <2>1, Replaced DEF Outputs
<1>4. OutputsHeld'
  <2> USE DEF OutputsHeld, HoldsRegistry, HoldsRelease, In
  <2>0. builder = [c \in Builders |-> builder[c]] /\ OutputsHeld
    BY DEF Outputs, BuilderShapes
  <2>1. CASE ClaimRegistry(b)
    <3>1. CASE /\ registry = None /\ registry' = Claimed /\ release' = release
               /\ builder' = [builder EXCEPT ![b] = [step |-> "release", of |-> builder[b].of]]
      BY <2>0, <3>1, <1>1, <1>2, <2>1 DEF ClaimRegistry, Building
    <3>2. CASE /\ UNCHANGED <<registry, release>> /\ builder' = [builder EXCEPT ![b] = None]
      BY <2>0, <3>2
    <3> QED BY <3>1, <3>2, <2>1, <1>1, StepOf DEF ClaimRegistry, Free
  <2>2. CASE ClaimRelease(b)
    <3>1. In(b, {"release"})
      BY <2>2 DEF ClaimRelease, Building
    <3>2. CASE /\ release = None /\ release' = Claimed /\ registry' = registry
               /\ builder' = [builder EXCEPT ![b] = [step |-> "write", of |-> builder[b].of]]
      BY <2>0, <3>1, <3>2, <1>1, <1>2
    <3>3. CASE /\ registry' = None /\ release' = release
               /\ builder' = [builder EXCEPT ![b] = None]
      BY <2>0, <3>1, <3>3
    <3> QED BY <3>2, <3>3, <2>2, <1>1, StepOf DEF ClaimRelease
  <2>3. CASE WriteRegistry(b)
    <3>1. /\ registry' = builder[b].of /\ release' = release /\ In(b, {"write"})
          /\ builder' = [builder EXCEPT ![b] = [step |-> "assemble", of |-> builder[b].of]]
      BY <2>3, <1>1, StepOf DEF WriteRegistry, Building
    <3> QED BY <2>0, <3>1
  <2>4. CASE Assemble(b)
    <3>1. /\ release' = builder[b].of /\ registry' = registry /\ In(b, {"assemble"})
          /\ builder' = [builder EXCEPT ![b] = [step |-> "check", of |-> builder[b].of]]
      BY <2>4, <1>1, StepOf DEF Assemble, Building
    <3> QED BY <2>0, <3>1, <1>1
  <2>5. CASE CrossCheck(b)
    <3>1. /\ UNCHANGED <<registry, release>> /\ In(b, {"check"})
          /\ builder' = [builder EXCEPT ![b] = [step |-> "returned", of |-> builder[b].of]]
      BY <2>5, <1>1, StepOf DEF CrossCheck, Building
    <3> QED BY <2>0, <3>1
  <2>6. CASE BuildFails(b)
    <3>1. /\ registry' = None /\ release' = release /\ In(b, {"write", "assemble", "check"})
          /\ builder' = [builder EXCEPT ![b] = [step |-> "failed", of |-> builder[b].of]]
      BY <2>6, <1>1, StepOf DEF BuildFails, Building
    <3> QED BY <2>0, <3>1, <1>2
  <2>7. CASE Remove(b)
    <3>1. /\ release' = None /\ registry' = registry /\ In(b, {"failed"})
          /\ builder' = [builder EXCEPT ![b] = None]
      BY <2>7, <1>1, StepOf DEF Remove, Building
    <3> QED BY <2>0, <3>1
  <2>8. CASE Crash(b)
    <3>1. UNCHANGED <<registry, release>> /\ builder' = [builder EXCEPT ![b] = None]
      BY <2>8, <1>1, StepOf DEF Crash
    <3> QED BY <2>0, <3>1
  <2> QED BY <2>1, <2>2, <2>3, <2>4, <2>5, <2>6, <2>7, <2>8 DEF BuildStep
<1> QED BY <1>3, <1>4 DEF Outputs

LEMMA OutputsKeep ==
    ASSUME MarkersDistinct, Outputs, [Next]_vars
    PROVE  Outputs'
<1>1. ASSUME NEW b \in Builders, BeginBuild(b) PROVE Outputs'
  <2>1. builder' = [builder EXCEPT ![b] = [step |-> "registry", of |-> Release(builds, completed)]]
        /\ UNCHANGED <<registry, release>> /\ builder[b] = None
    BY <1>1 DEF BeginBuild
  <2>2. Release(builds, completed) \notin {None, Claimed}
    BY DEF MarkersDistinct, Release
  <2>3. BuilderShapes'
    BY <2>1, <2>2 DEF Outputs, BuilderShapes
  <2>4. OutputsHeld'
    BY <2>1 DEF Outputs, BuilderShapes, OutputsHeld, HoldsRegistry, HoldsRelease, In
  <2> QED BY <2>3, <2>4 DEF Outputs
<1>2. CASE Clear
  <2>1. builder' = [b \in Builders |-> None]
    BY <1>2 DEF Clear
  <2> QED BY <2>1 DEF Outputs, BuilderShapes, OutputsHeld, HoldsRegistry, HoldsRelease, In
<1>3. ASSUME NEW b \in Builders, BuildStep(b) PROVE Outputs'
  BY <1>3, StepKeeps
<1>4. CASE UNCHANGED <<builder, registry, release>>
  BY <1>4 DEF Outputs, BuilderShapes, OutputsHeld, HoldsRegistry, HoldsRelease, In
<1>5. \/ \E b \in Builders : BeginBuild(b) \/ BuildStep(b)
      \/ Clear \/ UNCHANGED <<builder, registry, release>>
  BY DEF Next, BuildStep, vars, BeginFetch, FetchPage, WriteManifest, FetchFails, Decide,
         Edit, Discard, Retract, ReadBundle, ReadDecisions, Validate, Copy, Publish,
         CommandFails, Pin, Qualify, Install, InstallFails, buildVars
<1> QED BY <1>1, <1>2, <1>3, <1>4, <1>5

\* A build that has returned has left a registry and a release, both its own,
\* whatever other builds do at the same paths (_claim_candidate_outputs and the
\* build that follows it).
THEOREM CandidatesAreWhole ==
    ASSUME MarkersDistinct
    PROVE  Spec => []CandidateIsWhole
<1>1. Init => Outputs
  BY DEF Init, Outputs, BuilderShapes, OutputsHeld, HoldsRegistry, HoldsRelease, In
<1>2. Outputs /\ [Next]_vars => Outputs'
  BY OutputsKeep
<1>3. Outputs => CandidateIsWhole
  BY DEF Outputs, OutputsHeld, CandidateIsWhole, Building, In
<1> QED BY <1>1, <1>2, <1>3, PTL DEF Spec

-----------------------------------------------------------------------------
(***************************************************************************)
(* The evaluation of a release.                                            *)
(***************************************************************************)
\* The records of the commands in progress.
EvaluationShapes ==
    /\ run # None =>
          run = [mode |-> run.mode, bar |-> run.bar, dataset |-> run.dataset,
                 execution |-> run.execution, verdicts |-> run.verdicts,
                 hashed |-> run.hashed]
    /\ evaluation # None =>
          /\ evaluation = [step |-> evaluation.step, qualification |-> evaluation.qualification,
                           bar |-> evaluation.bar, failed |-> evaluation.failed,
                           gate |-> evaluation.gate, blocked |-> evaluation.blocked,
                           release |-> evaluation.release, named |-> evaluation.named]
          /\ evaluation.gate \in Nat
          /\ evaluation.step = "candidate" => evaluation.gate = 1

\* A verdict that an answer is right was given by a person, wherever it is
\* read from and however the report with it was published; a live run's own
\* report never passes.
VerdictsGiven ==
    /\ verdicts # None /\ verdicts.right = TRUE => verdicts.execution \in judged
    /\ run # None /\ run.verdicts # None /\ run.verdicts.right = TRUE =>
          run.verdicts.execution \in judged
    /\ reviewed # None /\ reviewed.strict => reviewed.execution \in judged
    /\ published.reviewed # None /\ published.reviewed.report.strict =>
          published.reviewed.report.execution \in judged
    /\ origin # None => ~origin.strict

Pins == evaluation.qualification.candidate
PinnedAnswers == Pins.reviewed.report.execution
PinnedJudged ==
    /\ Pins # None
    /\ PinnedAnswers \in judged
    /\ PinnedAnswers.release.id = evaluation.named
    /\ PinnedAnswers.score >= evaluation.bar

\* The answers' gate has been evaluated, and nothing blocks so far.
Beyond ==
    /\ evaluation # None /\ evaluation.step = "gates"
    /\ ~evaluation.failed /\ ~evaluation.blocked
    /\ \E i \in DOMAIN Gates : Gates[i] = "answers" /\ i < evaluation.gate
Passed == evaluation # None /\ evaluation.step = "passed"

\* Published as it was reported: two aggregates, and none was made up.
PublishedShape ==
    published = [origin |-> published.origin, reviewed |-> published.reviewed]
Faithful == misreported = {}

Judged == VerdictsGiven /\ (Beyond \/ Passed => PinnedJudged)
Evaluated == EvaluationShapes /\ PublishedShape /\ (Faithful => Judged)

LEMMA EvaluatedInit == Evaluation!Init => Evaluated
BY DEF Evaluation!Init, Evaluated, EvaluationShapes, PublishedShape, Judged, VerdictsGiven,
   Beyond, Passed

\* The steps that make reports leave the evaluation alone.
LEMMA ReportsKeep ==
    ASSUME Evaluated,
           \/ Evaluation!BeginLive \/ Evaluation!WritePacket \/ Evaluation!WriteLiveReport
           \/ Evaluation!Judge \/ Evaluation!BeginReplay \/ Evaluation!LoadBar
           \/ Evaluation!FinishReplay \/ Evaluation!RunFails
    PROVE  Evaluated'
<1>1. UNCHANGED <<evaluation, published, misreported>> /\ judged \subseteq judged'
  BY DEF Evaluation!BeginLive, Evaluation!WritePacket, Evaluation!WriteLiveReport,
     Evaluation!Judge, Evaluation!BeginReplay, Evaluation!LoadBar, Evaluation!FinishReplay,
     Evaluation!RunFails, Evaluation!aggregates
<1>2. PublishedShape' /\ (PinnedJudged => PinnedJudged')
  BY <1>1 DEF Evaluated, PublishedShape, PinnedJudged, PinnedAnswers, Pins
<1>3. EvaluationShapes' /\ (VerdictsGiven => VerdictsGiven')
  <2>1. CASE Evaluation!BeginLive \/ Evaluation!BeginReplay
    <3>1. PICK mode, execution : Evaluation!Starts(mode, execution)
      BY <2>1 DEF Evaluation!BeginLive, Evaluation!BeginReplay
    <3>2. UNCHANGED <<verdicts, reviewed, origin, judged>>
      BY <2>1 DEF Evaluation!BeginLive, Evaluation!BeginReplay, Evaluation!evidence
    <3> QED BY <1>1, <3>1, <3>2 DEF Evaluation!Starts, Evaluated, EvaluationShapes, VerdictsGiven
  <2>2. CASE Evaluation!WritePacket \/ Evaluation!LoadBar
    <3>1. /\ UNCHANGED <<verdicts, reviewed, origin, judged>>
          /\ run # None
          /\ \/ run' = [run EXCEPT !.mode = "live written", !.hashed = repo.bar]
             \/ run' = [run EXCEPT !.mode = "replay", !.bar = repo.bar, !.dataset = repo.dataset]
      BY <2>2 DEF Evaluation!WritePacket, Evaluation!LoadBar, Evaluation!evidence
    <3>2. run' = [mode |-> run'.mode, bar |-> run'.bar, dataset |-> run'.dataset,
                  execution |-> run'.execution, verdicts |-> run'.verdicts,
                  hashed |-> run'.hashed]
          /\ run'.verdicts = run.verdicts
      BY <3>1 DEF Evaluated, EvaluationShapes
    <3> QED BY <1>1, <3>1, <3>2 DEF Evaluated, EvaluationShapes, VerdictsGiven
  <2>3. CASE Evaluation!WriteLiveReport
    <3>1. /\ UNCHANGED <<verdicts, reviewed, judged>> /\ run' = None
          /\ origin'.strict = Evaluation!CasePasses(run.execution, None, run.bar)
      BY <2>3 DEF Evaluation!WriteLiveReport, Evaluation!Report
    <3>2. ~origin'.strict
      BY <3>1, EvaluationAssumption DEF Evaluation!CasePasses
    <3> QED BY <1>1, <3>1, <3>2 DEF Evaluated, EvaluationShapes, VerdictsGiven
  <2>4. CASE Evaluation!Judge
    <3>1. PICK right \in BOOLEAN :
              /\ verdicts' = [dataset |-> packet.dataset, execution |-> packet.execution,
                              right |-> right]
              /\ judged' = IF right THEN judged \cup {packet.execution} ELSE judged
      BY <2>4 DEF Evaluation!Judge
    <3>2. UNCHANGED <<run, reviewed, origin>>
      BY <2>4 DEF Evaluation!Judge
    <3>3. verdicts'.right = TRUE => verdicts'.execution \in judged'
      BY <3>1
    <3> QED BY <1>1, <3>2, <3>3 DEF Evaluated, EvaluationShapes, VerdictsGiven
  <2>5. CASE Evaluation!FinishReplay
    <3>1. /\ UNCHANGED <<verdicts, origin, judged>> /\ run # None /\ run' = None
          /\ run.verdicts # None => run.verdicts.execution = run.execution
          /\ reviewed'.execution = run.execution
          /\ reviewed'.strict = Evaluation!CasePasses(run.execution,
                 IF run.verdicts = None THEN None ELSE run.verdicts.right, run.bar)
      BY <2>5 DEF Evaluation!FinishReplay, Evaluation!Report, Evaluation!VerdictBinds
    <3>2. reviewed'.strict => run.verdicts # None /\ run.verdicts.right = TRUE
      BY <3>1, EvaluationAssumption DEF Evaluation!CasePasses
    <3>3. VerdictsGiven /\ reviewed'.strict => reviewed'.execution \in judged'
      BY <3>1, <3>2 DEF VerdictsGiven
    <3> QED BY <1>1, <3>1, <3>3 DEF Evaluated, EvaluationShapes, VerdictsGiven
  <2>6. CASE Evaluation!RunFails
    BY <1>1, <2>6 DEF Evaluation!RunFails, Evaluation!evidence, Evaluated, EvaluationShapes,
       VerdictsGiven
  <2> QED BY <2>1, <2>2, <2>3, <2>4, <2>5, <2>6
<1> QED BY <1>1, <1>2, <1>3 DEF Evaluated, Faithful, Judged, Beyond, Passed

\* The answers' gate passes only when the pinned aggregate is the one that is
\* there, of answers that people judged right and that satisfy the bar that was
\* loaded, and which bears the id in the manifest.
LEMMA AnswersGatePasses ==
    ASSUME Evaluated, Faithful, Evaluation!EvaluateGate, Gates[evaluation.gate] = "answers",
           ~evaluation'.blocked
    PROVE  /\ Pins # None /\ PinnedAnswers \in judged
           /\ PinnedAnswers.release.id = repo.release.id
           /\ PinnedAnswers.score >= evaluation.bar
<1> DEFINE declared == evaluation.qualification.declared["answers"]
           answers == Evaluation!AnswersStatus
           status == IF evaluation.failed THEN "failed" ELSE Evaluation!Stricter(declared, answers)
<1>1. evaluation # None /\ evaluation' = [evaluation EXCEPT
          !.gate = @ + 1, !.blocked = @ \/ status \in Evaluation!Blocking,
          !.named = repo.release.id]
  BY DEF Evaluation!EvaluateGate, Evaluation!Evaluated
<1>2. status \notin Evaluation!Blocking
  <2> HIDE DEF status
  <2> QED BY <1>1 DEF Evaluated, EvaluationShapes
<1>3. answers \notin {"failed", "not_run"}
  BY <1>2 DEF Evaluation!Stricter, Evaluation!Blocking
<1>4. answers \in {"not_run", "passed", "failed"}
  BY DEF Evaluation!AnswersStatus
<1> DEFINE report == IF Pins = None THEN origin
                     ELSE IF published.reviewed = None THEN None ELSE published.reviewed.report
<1>5. report # None /\ Evaluation!AnswersPass(report, Pins, evaluation.bar)
  BY <1>3, <1>4 DEF Evaluation!AnswersStatus, Pins
<1>6. Pins # None
  BY <1>5 DEF Evaluation!AnswersPass, Evaluated, Judged, VerdictsGiven
<1>7. /\ Evaluation!AnswersBound(Pins, evaluation.bar)
      /\ published.reviewed # None /\ published.reviewed.report.strict
  BY <1>5, <1>6 DEF Evaluation!AnswersPass
<1>8. /\ published.reviewed = Pins.reviewed /\ evaluation.bar = repo.bar
      /\ PinnedAnswers.release.id = repo.release.id
      /\ PinnedAnswers.score >= repo.bar
  BY <1>7 DEF Evaluation!AnswersBound, Evaluation!Satisfies, PinnedAnswers
<1> QED BY <1>6, <1>7, <1>8 DEF Evaluated, Judged, VerdictsGiven, PinnedAnswers

\* After the last gate, the answers' gate has been evaluated.
LEMMA BeyondLast ==
    ASSUME Evaluated, evaluation # None, evaluation.step = "gates",
           evaluation.gate > Len(Gates), ~evaluation.failed, ~evaluation.blocked
    PROVE  Beyond
<1>1. PICK i \in DOMAIN Gates : Gates[i] = "answers"
  BY EvaluationAssumption
<1>2. i \in 1 .. Len(Gates) /\ Len(Gates) \in Nat
  BY EvaluationAssumption
<1>3. i < evaluation.gate
  BY <1>2 DEF Evaluated, EvaluationShapes
<1> QED BY <1>1, <1>3 DEF Beyond

\* The aggregates are copied from the reports; a made-up one ends the claim.
LEMMA PublishingKeeps ==
    ASSUME Evaluated, Evaluation!Publish \/ Evaluation!Misreport
    PROVE  Evaluated'
<1>1. UNCHANGED <<run, verdicts, reviewed, evaluation, judged>>
  BY DEF Evaluation!Publish, Evaluation!Misreport, Evaluation!evidence
<1>2. EvaluationShapes' /\ (PinnedJudged => PinnedJudged')
  BY <1>1 DEF Evaluated, EvaluationShapes, PinnedJudged, PinnedAnswers, Pins
<1>3. CASE Evaluation!Publish
  <2>1. UNCHANGED <<origin, misreported>>
    BY <1>3 DEF Evaluation!Publish, Evaluation!evidence
  <2>2. CASE UNCHANGED published.reviewed
    <3>1. PublishedShape'
      BY <1>3 DEF Evaluation!Publish, Evaluated, PublishedShape
    <3>2. VerdictsGiven => VerdictsGiven'
      BY <1>1, <2>1, <2>2 DEF VerdictsGiven
    <3> QED BY <1>1, <1>2, <2>1, <3>1, <3>2 DEF Evaluated, Faithful, Judged, Beyond, Passed
  <2>3. CASE /\ reviewed # None
             /\ published' = [published EXCEPT !.reviewed = Evaluation!Aggregate(reviewed, None)]
    <3>1. PublishedShape' /\ published'.reviewed = Evaluation!Aggregate(reviewed, None)
      BY <2>3 DEF Evaluated, PublishedShape
    <3>2. published'.reviewed.report = reviewed
      BY <3>1 DEF Evaluation!Aggregate
    <3>3. VerdictsGiven => VerdictsGiven'
      BY <1>1, <2>1, <2>3, <3>2 DEF VerdictsGiven
    <3> QED BY <1>1, <1>2, <2>1, <3>1, <3>3 DEF Evaluated, Faithful, Judged, Beyond, Passed
  <2> QED BY <1>3, <2>2, <2>3 DEF Evaluation!Publish, Evaluated, PublishedShape
<1>4. CASE Evaluation!Misreport
  <2>1. ~Faithful' /\ PublishedShape'
    BY <1>4 DEF Evaluation!Misreport, Faithful, Evaluated, PublishedShape
  <2> QED BY <1>2, <2>1 DEF Evaluated
<1> QED BY <1>3, <1>4

LEMMA EvaluatedKeeps ==
    ASSUME Evaluated, [Evaluation!Next]_(Evaluation!vars)
    PROVE  Evaluated'
<1>1. CASE \/ Evaluation!BeginLive \/ Evaluation!WritePacket \/ Evaluation!WriteLiveReport
           \/ Evaluation!Judge \/ Evaluation!BeginReplay \/ Evaluation!LoadBar
           \/ Evaluation!FinishReplay \/ Evaluation!RunFails
  BY <1>1, ReportsKeep
<1>2. CASE Evaluation!Publish \/ Evaluation!Misreport
  BY <1>2, PublishingKeeps
<1>3. CASE Evaluation!Change \/ Evaluation!PinEvidence \/ UNCHANGED Evaluation!vars
  BY <1>3 DEF Evaluation!Change, Evaluation!PinEvidence, Evaluation!vars, Evaluation!evidence,
     Evaluation!aggregates, Evaluated, EvaluationShapes, PublishedShape, Faithful, Judged,
     VerdictsGiven, Beyond, Passed, PinnedJudged, PinnedAnswers, Pins
<1> SUFFICES ASSUME \/ Evaluation!BeginEvaluation \/ Evaluation!EndEvaluation
                    \/ Evaluation!CheckCandidate \/ Evaluation!EvaluateGate \/ Evaluation!Conclude
             PROVE  Evaluated'
  BY <1>1, <1>2, <1>3 DEF Evaluation!Next
<1>4. UNCHANGED <<run, verdicts, origin, reviewed, published, misreported, judged>>
  BY DEF Evaluation!BeginEvaluation, Evaluation!EndEvaluation, Evaluation!CheckCandidate,
     Evaluation!EvaluateGate, Evaluation!Conclude, Evaluation!evidence, Evaluation!aggregates
<1>5. PublishedShape' /\ (VerdictsGiven => VerdictsGiven') /\ (Faithful' => Faithful)
  BY <1>4 DEF Evaluated, PublishedShape, VerdictsGiven, Faithful
<1>6. CASE Evaluation!BeginEvaluation \/ Evaluation!EndEvaluation
  <2>1. EvaluationShapes' /\ ~Beyond' /\ ~Passed'
    BY <1>4, <1>6, EvaluationAssumption
       DEF Evaluation!BeginEvaluation, Evaluation!EndEvaluation, Evaluated, EvaluationShapes,
       Beyond, Passed
  <2> QED BY <1>5, <2>1 DEF Evaluated, Judged
<1>7. CASE Evaluation!CheckCandidate
  <2> DEFINE refused == Pins # None /\ ~Evaluation!CandidateValid(Pins)
  <2>1. /\ evaluation # None /\ evaluation.step = "candidate"
        /\ evaluation' = [evaluation EXCEPT !.step = "gates", !.release = repo.release,
                                            !.failed = refused]
    BY <1>7 DEF Evaluation!CheckCandidate, Pins
  <2>2. evaluation.gate = 1
    BY <2>1 DEF Evaluated, EvaluationShapes
  <2>3. ~Beyond'
    <3>1. DOMAIN Gates = 1 .. Len(Gates) /\ Len(Gates) \in Nat
      BY EvaluationAssumption
    <3>2. evaluation'.gate = 1
      BY <2>1, <2>2 DEF Evaluated, EvaluationShapes
    <3> QED BY <3>1, <3>2 DEF Beyond
  <2>4. EvaluationShapes' /\ ~Passed'
    <3> HIDE DEF refused
    <3> QED BY <1>4, <2>1, <2>2 DEF Evaluated, EvaluationShapes, Passed
  <2> QED BY <1>5, <2>3, <2>4 DEF Evaluated, Judged
<1>8. CASE Evaluation!EvaluateGate
  <2> DEFINE answers == Gates[evaluation.gate] = "answers"
  <2>1. PICK blocked \in BOOLEAN :
            /\ evaluation # None /\ evaluation.step = "gates" /\ evaluation.gate <= Len(Gates)
            /\ evaluation' = [evaluation EXCEPT
                  !.gate = @ + 1, !.blocked = @ \/ blocked,
                  !.named = IF answers THEN repo.release.id ELSE @]
    BY <1>8 DEF Evaluation!EvaluateGate
  <2>2. /\ evaluation'.step = evaluation.step /\ evaluation'.gate = evaluation.gate + 1
        /\ evaluation'.qualification = evaluation.qualification
        /\ evaluation'.bar = evaluation.bar /\ evaluation'.failed = evaluation.failed
        /\ evaluation'.release = evaluation.release
        /\ evaluation'.blocked = (evaluation.blocked \/ blocked)
        /\ evaluation'.named = IF answers THEN repo.release.id ELSE evaluation.named
    BY <2>1 DEF Evaluated, EvaluationShapes
  <2>3. EvaluationShapes' /\ ~Passed'
    <3>1. evaluation' = [step |-> evaluation.step, qualification |-> evaluation.qualification,
                         bar |-> evaluation.bar, failed |-> evaluation.failed,
                         gate |-> evaluation.gate + 1,
                         blocked |-> evaluation.blocked \/ blocked,
                         release |-> evaluation.release,
                         named |-> IF answers THEN repo.release.id ELSE evaluation.named]
      BY <2>1 DEF Evaluated, EvaluationShapes
    <3>2. evaluation' = [step |-> evaluation'.step, qualification |-> evaluation'.qualification,
                         bar |-> evaluation'.bar, failed |-> evaluation'.failed,
                         gate |-> evaluation'.gate, blocked |-> evaluation'.blocked,
                         release |-> evaluation'.release, named |-> evaluation'.named]
      BY <2>2, <3>1, Zenon
    <3>3. evaluation'.gate \in Nat /\ evaluation'.step = "gates"
      BY <2>1, <2>2 DEF Evaluated, EvaluationShapes
    <3> QED BY <1>4, <3>2, <3>3 DEF Evaluated, EvaluationShapes, Passed
  <2>4. ASSUME Faithful, Beyond' PROVE PinnedJudged'
    <3>1. ~evaluation'.blocked /\ ~evaluation.blocked /\ ~evaluation.failed
      BY <2>2, <2>4 DEF Beyond
    <3>2. CASE answers
      BY <1>4, <1>8, <2>2, <2>4, <3>1, <3>2, AnswersGatePasses
         DEF PinnedJudged, PinnedAnswers, Pins
    <3>3. CASE ~answers
      <4>1. PICK i \in DOMAIN Gates : Gates[i] = "answers" /\ i < evaluation.gate + 1
        BY <2>2, <2>4 DEF Beyond
      <4>2. i \in Nat /\ evaluation.gate \in Nat
        BY <2>1, EvaluationAssumption DEF Evaluated, EvaluationShapes
      <4>3. i < evaluation.gate
        BY <3>3, <4>1, <4>2
      <4>4. PinnedJudged
        BY <2>1, <2>4, <3>1, <4>1, <4>3 DEF Beyond, Evaluated, Judged
      <4> QED BY <1>4, <2>2, <3>3, <4>4 DEF PinnedJudged, PinnedAnswers, Pins
    <3> QED BY <3>2, <3>3
  <2> QED BY <1>5, <2>3, <2>4 DEF Evaluated, Judged
<1>9. CASE Evaluation!Conclude
  <2> DEFINE step == IF Evaluation!StrictPassed THEN "passed" ELSE "blocked"
  <2>1. /\ evaluation # None /\ evaluation.step = "gates" /\ evaluation.gate > Len(Gates)
        /\ evaluation' = [evaluation EXCEPT !.step = step]
    BY <1>9 DEF Evaluation!Conclude
  <2>2. Evaluation!StrictPassed => Beyond
    BY <2>1, BeyondLast DEF Evaluation!StrictPassed
  <2>3. /\ EvaluationShapes' /\ ~Beyond'
        /\ Passed' => Evaluation!StrictPassed
        /\ evaluation'.qualification = evaluation.qualification
        /\ evaluation'.bar = evaluation.bar /\ evaluation'.named = evaluation.named
    BY <1>4, <2>1 DEF Evaluated, EvaluationShapes, Beyond, Passed
  <2> QED BY <1>4, <1>5, <2>2, <2>3 DEF Evaluated, Judged, PinnedJudged, PinnedAnswers, Pins
<1> QED BY <1>6, <1>7, <1>8, <1>9

(***************************************************************************)
(* Which candidate it was: while at most one change is made.               *)
(***************************************************************************)
OfCandidateNow(execution) == execution.release = repo.release

\* As long as nothing was changed, everything is about one candidate.
OneCandidate ==
    changes = 0 =>
        /\ run # None => OfCandidateNow(run.execution)
        /\ packet # None => OfCandidateNow(packet.execution)
        /\ reviewed # None => OfCandidateNow(reviewed.execution)
        /\ published.reviewed # None => OfCandidateNow(published.reviewed.report.execution)
        /\ qualification # None /\ qualification.candidate # None =>
              OfCandidateNow(qualification.candidate.reviewed.report.execution)
        /\ evaluation # None /\ Pins # None => OfCandidateNow(PinnedAnswers)

\* The candidate that was checked is the one that is there, or was when the
\* answers that are pinned were given.
CandidateTraced ==
    evaluation # None /\ evaluation.step = "gates" /\ Pins # None =>
        \/ evaluation.release = repo.release
        \/ changes # 0 /\ PinnedAnswers.release = evaluation.release
Named == evaluation.named = evaluation.release.id

Traceable == OneCandidate /\ CandidateTraced /\ (Beyond \/ Passed => Named)
Traced == changes \in Nat /\ (Faithful => Traceable)

LEMMA TracedInit == Evaluation!Init => Traced
BY DEF Evaluation!Init, Traced, Traceable, OneCandidate, CandidateTraced, Beyond, Passed

\* The one change that may be made leaves what was recorded before it to the
\* candidate that was there before it.
LEMMA ChangeTraced ==
    ASSUME MaxChanges \in 0 .. 1, Traced, Evaluation!Change
    PROVE  Traced'
<1>1. /\ changes = 0 /\ changes' = 1
      /\ UNCHANGED <<evaluation, misreported>>
  BY DEF Evaluation!Change, Evaluation!aggregates, Traced
<1>2. OneCandidate' /\ changes' \in Nat
  BY <1>1 DEF OneCandidate
<1>3. Traceable => CandidateTraced'
  BY <1>1 DEF Traceable, OneCandidate, CandidateTraced, Pins, PinnedAnswers, OfCandidateNow
<1> QED BY <1>1, <1>2, <1>3 DEF Traced, Traceable, Faithful, Beyond, Passed, Named

\* What is recorded of the answers is copied, never made up.
LEMMA RecordsTraced ==
    ASSUME Evaluated, Traced, Faithful',
           \/ Evaluation!BeginLive \/ Evaluation!WritePacket \/ Evaluation!WriteLiveReport
           \/ Evaluation!Judge \/ Evaluation!BeginReplay \/ Evaluation!LoadBar
           \/ Evaluation!FinishReplay \/ Evaluation!RunFails \/ Evaluation!PinEvidence
           \/ Evaluation!Publish \/ Evaluation!Misreport
    PROVE  Traced'
<1>1. UNCHANGED <<evaluation, repo, changes>> /\ Faithful /\ Traceable
  BY DEF Evaluation!BeginLive, Evaluation!WritePacket, Evaluation!WriteLiveReport,
     Evaluation!Judge, Evaluation!BeginReplay, Evaluation!LoadBar, Evaluation!FinishReplay,
     Evaluation!RunFails, Evaluation!PinEvidence, Evaluation!Publish, Evaluation!Misreport,
     Evaluation!bounds, Evaluation!aggregates, Faithful, Traced
<1>2. CandidateTraced' /\ (Beyond' \/ Passed' => Named')
  BY <1>1 DEF Traceable, CandidateTraced, Beyond, Passed, Pins, PinnedAnswers, Named
<1>3. ASSUME changes = 0 PROVE OneCandidate'
  <2>1. /\ run # None => OfCandidateNow(run.execution)
        /\ packet # None => OfCandidateNow(packet.execution)
        /\ reviewed # None => OfCandidateNow(reviewed.execution)
        /\ published.reviewed # None => OfCandidateNow(published.reviewed.report.execution)
        /\ qualification # None /\ qualification.candidate # None =>
              OfCandidateNow(qualification.candidate.reviewed.report.execution)
        /\ evaluation # None /\ Pins # None => OfCandidateNow(PinnedAnswers)
    BY <1>1, <1>3 DEF Traceable, OneCandidate
  <2>2. evaluation' # None /\ Pins' # None => OfCandidateNow(PinnedAnswers)'
    BY <1>1, <2>1 DEF Pins, PinnedAnswers, OfCandidateNow
  <2>3. CASE Evaluation!BeginLive
    <3>1. PICK score \in Scores :
              run'.execution = [number |-> runs, score |-> score, release |-> repo.release,
                                dataset |-> repo.dataset]
      BY <2>3 DEF Evaluation!BeginLive, Evaluation!Starts
    <3>2. UNCHANGED <<packet, reviewed, published, qualification>>
      BY <2>3 DEF Evaluation!BeginLive, Evaluation!evidence, Evaluation!aggregates
    <3> QED BY <1>1, <2>1, <2>2, <3>1, <3>2 DEF OneCandidate, OfCandidateNow
  <2>4. CASE Evaluation!BeginReplay
    <3>1. run'.execution = packet.execution /\ packet # None
      BY <2>4 DEF Evaluation!BeginReplay, Evaluation!Starts
    <3>2. UNCHANGED <<packet, reviewed, published, qualification>>
      BY <2>4 DEF Evaluation!BeginReplay, Evaluation!evidence, Evaluation!aggregates
    <3> QED BY <1>1, <2>1, <2>2, <3>1, <3>2 DEF OneCandidate, OfCandidateNow
  <2>5. CASE Evaluation!WritePacket \/ Evaluation!LoadBar
    <3>1. run # None /\ run'.execution = run.execution
      BY <2>5 DEF Evaluation!WritePacket, Evaluation!LoadBar, Evaluated, EvaluationShapes
    <3>2. /\ \/ packet' = packet
             \/ packet' = [dataset |-> run.dataset, execution |-> run.execution]
          /\ UNCHANGED <<reviewed, published, qualification>>
      BY <2>5 DEF Evaluation!WritePacket, Evaluation!LoadBar, Evaluation!evidence, Evaluation!aggregates
    <3> QED BY <1>1, <2>1, <2>2, <3>1, <3>2 DEF OneCandidate, OfCandidateNow
  <2>6. CASE Evaluation!FinishReplay
    <3>1. /\ run # None /\ run' = None /\ reviewed'.execution = run.execution
          /\ UNCHANGED <<packet, published, qualification>>
      BY <2>6 DEF Evaluation!FinishReplay, Evaluation!Report, Evaluation!aggregates
    <3> QED BY <1>1, <2>1, <2>2, <3>1 DEF OneCandidate, OfCandidateNow
  <2>7. CASE Evaluation!PinEvidence
    <3>1. PICK declared \in Declared, pinned \in BOOLEAN :
              /\ pinned => published.reviewed # None
              /\ qualification' =
                    [declared |-> declared, released |-> Evaluation!Blockers(declared) = {},
                     candidate |-> IF pinned
                                   THEN [release |-> repo.release, origin |-> published.origin,
                                         reviewed |-> published.reviewed]
                                   ELSE None]
              /\ UNCHANGED <<run, packet, reviewed, published>>
      BY <2>7 DEF Evaluation!PinEvidence, Evaluation!evidence, Evaluation!aggregates
    <3>2. qualification'.candidate # None =>
              published.reviewed # None /\ qualification'.candidate.reviewed = published.reviewed
      BY <3>1
    <3> QED BY <1>1, <2>1, <2>2, <3>1, <3>2 DEF OneCandidate, OfCandidateNow
  <2>8. CASE Evaluation!WriteLiveReport \/ Evaluation!Judge \/ Evaluation!RunFails
    <3>1. /\ run' = run \/ run' = None
          /\ UNCHANGED <<packet, reviewed, published, qualification>>
      BY <2>8 DEF Evaluation!WriteLiveReport, Evaluation!Judge, Evaluation!RunFails,
         Evaluation!evidence, Evaluation!aggregates
    <3> QED BY <1>1, <2>1, <2>2, <3>1 DEF OneCandidate, OfCandidateNow
  <2>9. CASE Evaluation!Publish
    <3>1. UNCHANGED <<run, packet, reviewed, qualification>>
      BY <2>9 DEF Evaluation!Publish, Evaluation!evidence
    <3>2. \/ UNCHANGED published.reviewed
          \/ reviewed # None /\ published'.reviewed.report = reviewed
      BY <2>9 DEF Evaluation!Publish, Evaluation!Aggregate, Evaluated, PublishedShape
    <3> QED BY <1>1, <2>1, <2>2, <3>1, <3>2 DEF OneCandidate, OfCandidateNow
  <2>10. ~Evaluation!Misreport
    BY DEF Evaluation!Misreport, Faithful
  <2> QED BY <2>3, <2>4, <2>5, <2>6, <2>7, <2>8, <2>9, <2>10
<1> QED BY <1>1, <1>2, <1>3 DEF Traced, Traceable, OneCandidate

LEMMA EvaluationTraced ==
    ASSUME Evaluated, Traced, Faithful,
           \/ Evaluation!BeginEvaluation \/ Evaluation!CheckCandidate
           \/ Evaluation!EvaluateGate \/ Evaluation!Conclude \/ Evaluation!EndEvaluation
    PROVE  Traced'
<1>1. UNCHANGED <<repo, run, packet, reviewed, published, qualification, changes>> /\ Traceable
  BY DEF Evaluation!BeginEvaluation, Evaluation!CheckCandidate, Evaluation!EvaluateGate,
     Evaluation!Conclude, Evaluation!EndEvaluation, Evaluation!evidence, Evaluation!bounds,
     Evaluation!aggregates, Traced
<1>2. CASE Evaluation!BeginEvaluation
  <2>1. /\ evaluation'.step = "candidate" /\ qualification # None
        /\ evaluation'.qualification = qualification
    BY <1>2 DEF Evaluation!BeginEvaluation
  <2>2. OneCandidate'
    BY <1>1, <2>1 DEF Traceable, OneCandidate, Pins, PinnedAnswers, OfCandidateNow
  <2> QED BY <1>1, <2>1, <2>2 DEF Traced, Traceable, CandidateTraced, Beyond, Passed
<1>3. CASE Evaluation!CheckCandidate
  <2>1. /\ evaluation # None /\ evaluation.step = "candidate"
        /\ evaluation'.step = "gates" /\ evaluation'.release = repo.release
        /\ evaluation'.qualification = evaluation.qualification /\ evaluation'.gate = 1
    BY <1>3 DEF Evaluation!CheckCandidate, Evaluated, EvaluationShapes
  <2>2. OneCandidate' /\ CandidateTraced'
    BY <1>1, <2>1
       DEF Traceable, OneCandidate, CandidateTraced, Pins, PinnedAnswers, OfCandidateNow
  <2>3. ~Beyond' /\ ~Passed'
    <3>1. DOMAIN Gates = 1 .. Len(Gates) /\ Len(Gates) \in Nat
      BY EvaluationAssumption
    <3> QED BY <2>1, <3>1 DEF Beyond, Passed
  <2> QED BY <1>1, <2>2, <2>3 DEF Traced, Traceable
<1>4. CASE Evaluation!EvaluateGate
  <2> DEFINE answers == Gates[evaluation.gate] = "answers"
  <2>1. PICK blocked \in BOOLEAN :
            /\ evaluation # None /\ evaluation.step = "gates"
            /\ evaluation' = [evaluation EXCEPT
                  !.gate = @ + 1, !.blocked = @ \/ blocked,
                  !.named = IF answers THEN repo.release.id ELSE @]
    BY <1>4 DEF Evaluation!EvaluateGate
  <2>2. /\ evaluation'.step = "gates" /\ evaluation'.gate = evaluation.gate + 1
        /\ evaluation'.qualification = evaluation.qualification
        /\ evaluation'.failed = evaluation.failed
        /\ evaluation'.blocked = (evaluation.blocked \/ blocked)
        /\ evaluation'.named = IF answers THEN repo.release.id ELSE evaluation.named
    BY <2>1 DEF Evaluated, EvaluationShapes
  <2>3. evaluation'.release = evaluation.release
    BY <2>1 DEF Evaluated, EvaluationShapes
  <2>4. OneCandidate' /\ CandidateTraced' /\ ~Passed'
    BY <1>1, <2>1, <2>2, <2>3
       DEF Traceable, OneCandidate, CandidateTraced, Pins, PinnedAnswers, OfCandidateNow, Passed
  <2>5. ASSUME Beyond' PROVE Named'
    <3>1. ~evaluation'.blocked /\ ~evaluation.blocked /\ ~evaluation.failed
      BY <2>2, <2>5 DEF Beyond
    <3>2. CASE answers
      <4>1. Pins # None /\ PinnedAnswers.release.id = repo.release.id
        BY <1>4, <3>1, <3>2, AnswersGatePasses
      <4> QED BY <1>1, <2>1, <2>2, <2>3, <3>2, <4>1 DEF Traceable, CandidateTraced, Named
    <3>3. CASE ~answers
      <4>1. PICK i \in DOMAIN Gates : Gates[i] = "answers" /\ i < evaluation.gate + 1
        BY <2>2, <2>5 DEF Beyond
      <4>2. i \in Nat /\ evaluation.gate \in Nat
        BY <2>1, EvaluationAssumption DEF Evaluated, EvaluationShapes
      <4>3. i < evaluation.gate
        BY <3>3, <4>1, <4>2
      <4> QED BY <1>1, <2>1, <2>2, <2>3, <3>1, <3>3, <4>1, <4>3 DEF Beyond, Traceable, Named
    <3> QED BY <3>2, <3>3
  <2> QED BY <1>1, <2>4, <2>5 DEF Traced, Traceable
<1>5. CASE Evaluation!Conclude
  <2> DEFINE step == IF Evaluation!StrictPassed THEN "passed" ELSE "blocked"
  <2>1. /\ evaluation # None /\ evaluation.step = "gates" /\ evaluation.gate > Len(Gates)
        /\ evaluation' = [evaluation EXCEPT !.step = step]
    BY <1>5 DEF Evaluation!Conclude
  <2>2. /\ evaluation'.qualification = evaluation.qualification
        /\ evaluation'.release = evaluation.release /\ evaluation'.named = evaluation.named
        /\ evaluation'.step = step
    BY <2>1 DEF Evaluated, EvaluationShapes
  <2>3. Passed' => Beyond
    BY <2>1, <2>2, BeyondLast DEF Passed, Evaluation!StrictPassed
  <2> QED BY <1>1, <2>1, <2>2, <2>3
          DEF Traced, Traceable, OneCandidate, CandidateTraced, Pins, PinnedAnswers, OfCandidateNow,
          Named, Beyond
<1>6. CASE Evaluation!EndEvaluation
  <2>1. evaluation' = None
    BY <1>6 DEF Evaluation!EndEvaluation
  <2>2. OneCandidate'
    BY <1>1, <2>1 DEF Traceable, OneCandidate, OfCandidateNow
  <2> QED BY <1>1, <2>1, <2>2 DEF Traced, Traceable, CandidateTraced, Beyond, Passed
<1> QED BY <1>2, <1>3, <1>4, <1>5, <1>6

LEMMA TracedKeeps ==
    ASSUME MaxChanges \in 0 .. 1, Evaluated, Traced, [Evaluation!Next]_(Evaluation!vars)
    PROVE  Traced'
<1>1. CASE UNCHANGED Evaluation!vars
  BY <1>1 DEF Evaluation!vars, Evaluation!evidence, Evaluation!aggregates, Evaluation!bounds,
     Traced, Traceable, Faithful, OneCandidate, CandidateTraced, Named, OfCandidateNow, Beyond,
     Passed, Pins, PinnedAnswers
<1>2. CASE Evaluation!Change
  BY <1>2, ChangeTraced
<1>3. CASE \/ Evaluation!BeginLive \/ Evaluation!WritePacket \/ Evaluation!WriteLiveReport
           \/ Evaluation!Judge \/ Evaluation!BeginReplay \/ Evaluation!LoadBar
           \/ Evaluation!FinishReplay \/ Evaluation!RunFails \/ Evaluation!PinEvidence
           \/ Evaluation!Publish \/ Evaluation!Misreport
  <2>1. changes' \in Nat
    BY <1>3 DEF Evaluation!BeginLive, Evaluation!WritePacket, Evaluation!WriteLiveReport,
       Evaluation!Judge, Evaluation!BeginReplay, Evaluation!LoadBar, Evaluation!FinishReplay,
       Evaluation!RunFails, Evaluation!PinEvidence, Evaluation!Publish, Evaluation!Misreport,
       Evaluation!bounds, Traced
  <2> QED BY <1>3, <2>1, RecordsTraced DEF Traced
<1>4. CASE \/ Evaluation!BeginEvaluation \/ Evaluation!CheckCandidate
           \/ Evaluation!EvaluateGate \/ Evaluation!Conclude \/ Evaluation!EndEvaluation
  <2>1. changes' \in Nat /\ (Faithful' => Faithful)
    BY <1>4 DEF Evaluation!BeginEvaluation, Evaluation!CheckCandidate, Evaluation!EvaluateGate,
       Evaluation!Conclude, Evaluation!EndEvaluation, Evaluation!bounds, Evaluation!aggregates,
       Traced, Faithful
  <2> QED BY <1>4, <2>1, EvaluationTraced DEF Traced
<1> QED BY <1>1, <1>2, <1>3, <1>4 DEF Evaluation!Next

(***************************************************************************)
(* The two parts together.                                                 *)
(***************************************************************************)
\* A step of one part is no step of the other: the preparation is a review, and
\* an evaluation, whatever the other one does in between.
THEOREM PartsUndisturbed == PreparationSpec => Spec /\ Evaluation!Spec
<1>1. PreparationInit => Init /\ Evaluation!Init
  BY DEF PreparationInit
<1>2. [PreparationNext]_<<vars, evaluationVars>> =>
          [Next]_vars /\ [Evaluation!Next]_(Evaluation!vars)
  BY DEF PreparationNext, evaluationVars, Evaluation!vars, Evaluation!evidence,
     Evaluation!bounds, Evaluation!aggregates
<1> QED BY <1>1, <1>2, PTL DEF PreparationSpec, Spec, Evaluation!Spec

\* Of a release that comes to its users with an evaluation going on, every
\* source is as people have approved it (source_review.py, bundled_release.py).
THEOREM PreparedAsReviewed == PreparationSpec => []InstalledAsReviewed
BY PartsUndisturbed, InstalledIsReviewed, PTL

\* It has passed the qualification (install_and_verify).
THEOREM PreparedAsQualified == PreparationSpec => []InstalledAsQualified
BY PartsUndisturbed, InstalledIsQualified, PTL

\* And no build has mixed its candidate with that of another one.
THEOREM PreparedWhole ==
    ASSUME MarkersDistinct
    PROVE  PreparationSpec => []CandidateIsWhole
BY PartsUndisturbed, CandidatesAreWhole, PTL

-----------------------------------------------------------------------------
\* What passes strictly has answers that people judged right, that measured to
\* satisfy the bar of the evaluation and that are of a build of the id which the
\* candidate's manifest bears at the gate of the answers, however often the bar,
\* the set, the code or the candidate was changed and the answers were rerun,
\* judged and published, provided that the aggregates are copies of the reports
\* (release_evaluation.py, candidate_answer_evidence.py).  Nothing else ties the
\* answers to the build that passes.
THEOREM PassedWasJudged == PreparationSpec => []PassedAsJudged
<1>1. Evaluated /\ [Evaluation!Next]_(Evaluation!vars) => Evaluated'
  BY EvaluatedKeeps
<1>2. Evaluated => PassedAsJudged
  BY DEF Evaluated, Faithful, Judged, Passed, PinnedJudged, PassedAsJudged,
     Evaluation!PassedAsJudged
<1> QED BY <1>1, <1>2, EvaluatedInit, PartsUndisturbed, PTL DEF Evaluation!Spec

\* And this id is that of the candidate whose manifest was found to be the pinned
\* one, when at most one change is made: the manifest is read again at the gate of
\* the answers, and a second change can bring back the id that they are of
\* (candidate_answer_evidence.py).
THEOREM PassedIsNamed ==
    ASSUME MaxChanges \in 0 .. 1
    PROVE  PreparationSpec => []PassedUnderItsName
<1>1. Evaluated /\ Traced /\ [Evaluation!Next]_(Evaluation!vars) => (Evaluated /\ Traced)'
  BY EvaluatedKeeps, TracedKeeps
<1>2. Evaluated /\ Traced => PassedUnderItsName
  BY DEF Traced, Traceable, Faithful, Passed, Named, PassedUnderItsName,
     Evaluation!PassedUnderItsName
<1> QED BY <1>1, <1>2, EvaluatedInit, TracedInit, PartsUndisturbed, PTL DEF Evaluation!Spec
=============================================================================
