---------------------------- MODULE SourceReview ----------------------------
(***************************************************************************)
(* How the pages of the official sources become a candidate release:       *)
(* a machine fetches them into a bundle, people decide about what they     *)
(* read in it, a command binds their decisions to the bundle               *)
(* (source_review.py), others build a registry and a release of what was   *)
(* approved (production_knowledge_release.py, source_registry.py), and the *)
(* release is qualified and installed.                                     *)
(*                                                                         *)
(* Bundles, decisions and releases are files that people keep, edit and    *)
(* replace while the commands read them, each file on its own.  A digest   *)
(* stands for what was hashed, and a text for a page or its extraction.    *)
(***************************************************************************)
EXTENDS Naturals, FiniteSets

CONSTANTS
    None,
    Claimed,    \* an output that is there and empty
    Sources,
    Texts,      \* what a page may say
    Addresses,  \* [final, observed, answered]: where a page was found, whether the
                \* answer of the registry's address was kept as evidence, and whether
                \* it was the official site that answered and not a local server
    Rulings,    \* [sources, fallback]: what people may decide about the sources, and
                \* whether one maintainer may review alone
    Times,      \* the times that people and commands write down
    Builders,   \* processes that build a candidate to the same paths
    Findable,   \* the texts that answer the fixed qualification questions
    MaxFetches, MaxDecisions, MaxEdits, MaxBuilds, MaxInstalls \* bounds

VARIABLES
    fetch,     \* the command that writes the machine bundle
    machine,   \* the machine bundle: its files and its manifest
    decisions, \* the file of the human decisions
    command,   \* the command that writes the completed review
    completed, \* the completed review: the bundle's files, the decisions, the result
    builder,   \* the builds of a candidate
    registry, release, \* the paths they write to
    install,   \* the qualification and installation of a candidate
    dataDir,   \* the release that is installed
    seen,      \* history: what people have read and approved
    fetches, decided, edits, builds, installs \* how many there were

reviewVars == <<fetch, machine, decisions, command, completed>>
buildVars == <<builder, registry, release, builds>>
installVars == <<install, dataDir, installs>>
counts == <<seen, fetches, decided, edits>>
vars == <<reviewVars, buildVars, installVars, counts>>

(***************************************************************************)
(* The machine bundle: a directory that did not exist, one file after the  *)
(* other, and the manifest last.  An unanswered page ends the command and  *)
(* leaves the directory.                                                   *)
(***************************************************************************)
NoFiles == [s \in Sources |-> None]

BeginFetch ==
    /\ fetch = None /\ machine = None /\ fetches < MaxFetches
    /\ \E t \in Times : fetch' = [retrieved |-> t, sources |-> NoFiles]
    /\ machine' = [files |-> NoFiles, manifest |-> None]
    /\ fetches' = fetches + 1
    /\ UNCHANGED <<decisions, command, completed, seen, decided, edits, buildVars, installVars>>

FetchPage ==
    /\ fetch # None /\ machine # None
    /\ \E s \in Sources, text \in Texts, address \in Addresses :
          LET page == [snapshot |-> text, extract |-> text] IN
          /\ fetch.sources[s] = None
          /\ fetch' = [fetch EXCEPT !.sources[s] = [pages |-> page, address |-> address]]
          /\ machine' = [machine EXCEPT !.files[s] = page]
    /\ UNCHANGED <<decisions, command, completed, counts, buildVars, installVars>>

WriteManifest ==
    /\ fetch # None /\ machine # None
    /\ \A s \in Sources : fetch.sources[s] # None
    /\ machine' = [machine EXCEPT !.manifest = fetch]
    /\ fetch' = None
    /\ UNCHANGED <<decisions, command, completed, counts, buildVars, installVars>>

FetchFails ==
    /\ fetch # None /\ fetch' = None
    /\ UNCHANGED <<machine, decisions, command, completed, counts, buildVars, installVars>>

(***************************************************************************)
(* External: people read the bundle and write down their decisions, with   *)
(* the digests of what they read; maintainers edit a file, and clear away  *)
(* a bundle, a completed review or a candidate for the next one.           *)
(***************************************************************************)
Decide ==
    /\ decided < MaxDecisions /\ machine # None /\ machine.manifest # None
    /\ \E ruling \in Rulings :
          /\ decisions' = [over |-> machine.manifest, fallback |-> ruling.fallback,
                           sources |-> [s \in Sources |->
                               [judgment |-> ruling.sources[s], pages |-> machine.files[s]]]]
          /\ seen' = seen \cup
                {[source |-> s, pages |-> machine.files[s], by |-> ruling.sources[s],
                  fallback |-> ruling.fallback] : s \in Sources}
    /\ decided' = decided + 1
    /\ UNCHANGED <<fetch, machine, command, completed, fetches, edits, buildVars, installVars>>

Edited(files) ==
    {[files EXCEPT ![s].extract = text] : s \in {s \in Sources : files[s] # None}, text \in Texts}
Edit ==
    /\ edits < MaxEdits /\ edits' = edits + 1
    /\ \/ /\ machine # None
          /\ \E files \in Edited(machine.files) : machine' = [machine EXCEPT !.files = files]
          /\ UNCHANGED completed
       \/ /\ completed # None
          /\ \E files \in Edited(completed.files) : completed' = [completed EXCEPT !.files = files]
          /\ UNCHANGED machine
    /\ UNCHANGED <<fetch, decisions, command, seen, fetches, decided, buildVars, installVars>>

Discard ==
    /\ fetch = None /\ machine # None /\ machine' = None
    /\ UNCHANGED <<fetch, decisions, command, completed, counts, buildVars, installVars>>
Retract ==
    /\ completed # None /\ completed' = None
    /\ UNCHANGED <<fetch, machine, decisions, command, counts, buildVars, installVars>>
Clear ==
    /\ <<registry, release>> # <<None, None>>
    /\ \A b \in Builders : builder[b] # None => builder[b].step = "returned"
    /\ registry' = None /\ release' = None
    /\ builder' = [b \in Builders |-> None]
    /\ UNCHANGED <<reviewVars, builds, counts, installVars>>

(***************************************************************************)
(* What makes a review valid.                                              *)
(***************************************************************************)
\* Mutant: the file is there, whatever it says.
ArtifactsPresent(pages, recorded) == pages # None
ArtifactsMatch(pages, recorded) == pages = recorded

\* An approved address is where the page was found: the registry's own, or
\* another one with the evidence of what the registry's answers.
AddressResolved(judgment, address) ==
    \/ judgment.address = "reject"
    \/ judgment.address = "approve-current" /\ address.final = "registry"
    \/ /\ judgment.address = "approve-replacement"
       /\ address.final # "registry" /\ address.observed

StaffedForReview(judgment, fallback) ==
    judgment.material => Cardinality(judgment.reviewers) >= 2 \/ fallback

Approved(judgment) ==
    judgment.curated /\ judgment.approved /\ judgment.address # "reject" /\ judgment.eligible

SourceReviewed(pages, recorded, decision, retrieved, fallback) ==
    LET judgment == decision.judgment IN
    /\ ArtifactsMatch(pages, recorded.pages)
    /\ decision.pages = recorded.pages
    /\ retrieved <= judgment.reviewed
    /\ AddressResolved(judgment, recorded.address)
    /\ StaffedForReview(judgment, fallback)
    /\ judgment.eligible => Approved(judgment)

ReviewValid(files, manifest, human) ==
    /\ human.over = manifest
    /\ \A s \in Sources : SourceReviewed(files[s], manifest.sources[s], human.sources[s],
                                         manifest.retrieved, human.fallback)

\* The completed review states what it was made of, and whether a release may be
\* built of it.
CompletedReview(manifest, human) ==
    [manifest |-> manifest, decisions |-> human,
     ready |-> \A s \in Sources : Approved(human.sources[s].judgment)]

(***************************************************************************)
(* The completed review: the manifest and the decisions are read once, the *)
(* pages are read and compared, then the directory is copied and put in    *)
(* place with the decisions that were read.                                *)
(***************************************************************************)
ReadBundle ==
    /\ command = None /\ completed = None /\ machine # None /\ machine.manifest # None
    /\ command' = [step |-> "decisions", manifest |-> machine.manifest, decisions |-> None,
                   copy |-> [files |-> None, manifest |-> None]]
    /\ UNCHANGED <<fetch, machine, decisions, completed, counts, buildVars, installVars>>
ReadDecisions ==
    /\ command # None /\ command.step = "decisions" /\ decisions # None
    /\ command' = [command EXCEPT !.step = "validate", !.decisions = decisions]
    /\ UNCHANGED <<fetch, machine, decisions, completed, counts, buildVars, installVars>>
\* Every page is compared with its digest when it is read, and not kept.
Validate ==
    /\ command # None /\ command.step = "validate" /\ machine # None
    /\ ReviewValid(machine.files, command.manifest, command.decisions)
    /\ command' = [command EXCEPT !.step = "copy"]
    /\ UNCHANGED <<fetch, machine, decisions, completed, counts, buildVars, installVars>>
Copy ==
    /\ command # None /\ command.step = "copy" /\ machine # None
    /\ \E part \in {"files", "manifest"} :
          /\ command.copy[part] = None
          /\ command' = [command EXCEPT !.copy[part] = machine[part]]
    /\ UNCHANGED <<fetch, machine, decisions, completed, counts, buildVars, installVars>>
Publish ==
    /\ command # None /\ command.copy.files # None /\ completed = None
    /\ completed' = [files |-> command.copy.files, manifest |-> command.copy.manifest,
                     decisions |-> command.decisions,
                     review |-> CompletedReview(command.manifest, command.decisions)]
    /\ command' = None
    /\ UNCHANGED <<fetch, machine, decisions, counts, buildVars, installVars>>
CommandFails ==
    /\ command # None /\ command' = None
    /\ UNCHANGED <<fetch, machine, decisions, completed, counts, buildVars, installVars>>

(***************************************************************************)
(* The build of a candidate.                                               *)
(***************************************************************************)
\* The registry's own rule: a declared staffing that fits the source, and the
\* fallback only where it is declared for a material source.
FallbackFits(judgment, fallback) == judgment.staffing = "fallback" => judgment.material /\ fallback
StaffedForRegistry(judgment, fallback) ==
    /\ FallbackFits(judgment, fallback)
    /\ judgment.material => Cardinality(judgment.reviewers) >= 2 \/ judgment.staffing = "fallback"
Monitored(address) == address.answered
EntryEligible(judgment, address, fallback) ==
    judgment.curated /\ Monitored(address) /\ StaffedForRegistry(judgment, fallback)
RegistryQualified(review) ==
    \A s \in Sources : EntryEligible(review.decisions.sources[s].judgment,
                                     review.manifest.sources[s].address, review.decisions.fallback)

\* What was validated is what is released: the bytes are kept.
ReviewedSource(bundle, s) ==
    [pages |-> bundle.files[s], address |-> bundle.manifest.sources[s].address.final,
     judgment |-> bundle.decisions.sources[s].judgment]
Release(number, bundle) ==
    [build |-> number, fallback |-> bundle.decisions.fallback,
     sources |-> [s \in Sources |-> ReviewedSource(bundle, s)]]

ReviewedBy(judgment, created) == judgment.reviewed <= created

\* The review is read and validated again from its own files.
Buildable(bundle, created) ==
    LET review == bundle.review IN
    /\ bundle.manifest = review.manifest /\ bundle.decisions = review.decisions
    /\ review.ready
    /\ ReviewValid(bundle.files, review.manifest, review.decisions)
    /\ \A s \in Sources : ReviewedBy(review.decisions.sources[s].judgment, created)
    /\ RegistryQualified(review)

BeginBuild(b) ==
    /\ builder[b] = None /\ builds < MaxBuilds /\ completed # None
    /\ \E created \in Times : Buildable(completed, created)
    /\ builder' = [builder EXCEPT ![b] = [step |-> "registry", of |-> Release(builds, completed)]]
    /\ builds' = builds + 1
    /\ UNCHANGED <<reviewVars, registry, release, counts, installVars>>

Building(b, step) == builder[b] # None /\ builder[b].step = step
Goes(b, step) == builder' = [builder EXCEPT ![b].step = step]
Ends(b) == builder' = [builder EXCEPT ![b] = None]
Untouched == UNCHANGED <<reviewVars, builds, counts, installVars>>

\* Mutant: what another build has only claimed is free.
FreeOrClaimed(path) == path \in {None, Claimed}
Free(path) == path = None

\* Both outputs are claimed, the registry's file first; a build that cannot have
\* both leaves none.
ClaimRegistry(b) ==
    /\ Building(b, "registry") /\ UNCHANGED release /\ Untouched
    /\ IF Free(registry) THEN registry' = Claimed /\ Goes(b, "release")
       ELSE UNCHANGED registry /\ Ends(b)
ClaimRelease(b) ==
    /\ Building(b, "release") /\ Untouched
    /\ IF release = None THEN release' = Claimed /\ Goes(b, "write") /\ UNCHANGED registry
       ELSE registry' = None /\ Ends(b) /\ UNCHANGED release
WriteRegistry(b) ==
    /\ Building(b, "write") /\ registry' = builder[b].of /\ Goes(b, "assemble")
    /\ UNCHANGED release /\ Untouched
Assemble(b) ==
    /\ Building(b, "assemble") /\ release' = builder[b].of /\ Goes(b, "check")
    /\ UNCHANGED registry /\ Untouched
CrossCheck(b) ==
    /\ Building(b, "check") /\ release = builder[b].of /\ Goes(b, "returned")
    /\ UNCHANGED <<registry, release>> /\ Untouched
\* After the claim a failure removes both, and a crash removes nothing.
BuildFails(b) ==
    /\ \E step \in {"write", "assemble", "check"} : Building(b, step)
    /\ registry' = None /\ Goes(b, "failed")
    /\ UNCHANGED release /\ Untouched
Remove(b) ==
    /\ Building(b, "failed") /\ release' = None /\ Ends(b)
    /\ UNCHANGED registry /\ Untouched
Crash(b) ==
    /\ builder[b] # None /\ builder[b].step # "returned" /\ Ends(b)
    /\ UNCHANGED <<registry, release>> /\ Untouched

(***************************************************************************)
(* The qualification of a candidate and its installation, both from a      *)
(* private copy of the directory that was given.                           *)
(***************************************************************************)
Pin ==
    /\ install = None /\ installs < MaxInstalls /\ release \notin {None, Claimed}
    /\ install' = [step |-> "qualify", pinned |-> release]
    /\ installs' = installs + 1
    /\ UNCHANGED <<dataDir, reviewVars, counts, buildVars>>
Retrievable(candidate) == \A s \in Sources : candidate.sources[s].pages.extract \in Findable
Qualify ==
    /\ install # None /\ install.step = "qualify"
    /\ Retrievable(install.pinned)
    /\ install' = [install EXCEPT !.step = "install"]
    /\ UNCHANGED <<dataDir, installs, reviewVars, counts, buildVars>>
\* Mutant: the directory that was given is installed after the qualification.
InstalledAsGiven == release
Installed == install.pinned
Install ==
    /\ install # None /\ install.step = "install"
    /\ Installed \notin {None, Claimed}
    /\ dataDir' = Installed /\ install' = None
    /\ UNCHANGED <<installs, reviewVars, counts, buildVars>>
InstallFails ==
    /\ install # None /\ install' = None
    /\ UNCHANGED <<dataDir, installs, reviewVars, counts, buildVars>>

Init ==
    /\ fetch = None /\ machine = None /\ decisions = None /\ command = None /\ completed = None
    /\ builder = [b \in Builders |-> None] /\ registry = None /\ release = None
    /\ install = None /\ dataDir = None /\ seen = {}
    /\ fetches = 0 /\ decided = 0 /\ edits = 0 /\ builds = 0 /\ installs = 0

Next ==
    \/ BeginFetch \/ FetchPage \/ WriteManifest \/ FetchFails
    \/ Decide \/ Edit \/ Discard \/ Retract \/ Clear
    \/ ReadBundle \/ ReadDecisions \/ Validate \/ Copy \/ Publish \/ CommandFails
    \/ \E b \in Builders :
          \/ BeginBuild(b) \/ ClaimRegistry(b) \/ ClaimRelease(b) \/ WriteRegistry(b)
          \/ Assemble(b) \/ CrossCheck(b) \/ BuildFails(b) \/ Remove(b) \/ Crash(b)
    \/ Pin \/ Qualify \/ Install \/ InstallFails

Spec == Init /\ [][Next]_vars

(***************************************************************************)
(* Properties.                                                             *)
(***************************************************************************)
\* What is installed is, for every source, what people read and approved as a
\* whole: the text, and for a material source two people, or one with the
\* fallback declared - whichever bundle, decisions or edited file a command met
\* between its reads.
InstalledAsReviewed ==
    dataDir # None =>
        \A s \in Sources : \E r \in seen :
            /\ r.source = s /\ r.pages = dataDir.sources[s].pages /\ Approved(r.by)
            /\ r.by.material => \/ Cardinality(r.by.reviewers) >= 2
                                \/ r.fallback /\ r.by.staffing = "fallback"

\* What is installed has passed the qualification, also when another candidate
\* took the place of the one that was given.
InstalledAsQualified == dataDir # None => Retrievable(dataDir)

\* A build that has returned leaves a registry and a release of its own, both of
\* them, whatever other builds claim, write, fail and remove at the same paths.
CandidateIsWhole ==
    \A b \in Builders :
        Building(b, "returned") => registry = builder[b].of /\ release = builder[b].of
=============================================================================
