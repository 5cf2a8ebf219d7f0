--------------------------- MODULE SourceGovernance ---------------------------
(***************************************************************************)
(* How a page of an official source becomes what the application answers   *)
(* from: automated checks and human approvals (source_maintenance.py),     *)
(* the assembly of a signed release in a directory, and its installation   *)
(* and loading (knowledge_release.py, release_trust.py).                   *)
(*                                                                         *)
(* The maintainer's commands and the installer work on one release         *)
(* directory, file by file, and a build may replace what an installation   *)
(* is reading.  A hash stands for what was hashed and a signature for the  *)
(* manifest and the key it was made with.  The model has one source and    *)
(* releases of semantic chunks; that an activation is atomic is what       *)
(* ReleaseActivation is about.                                             *)
(***************************************************************************)
EXTENDS SemanticChunks, TrustIndicators

CONSTANTS
    None,
    Texts,      \* what the page may say
    MaxTime,    \* bound on the clock
    Dues,       \* the review dates that approvals set
    BlockAfter, \* overdue_blocked_after_utc: a time, or Absent
    Roots,      \* the trust roots: id -> [key, status, allowed]
    Keys,       \* the private keys a maintainer may sign with
    Versions,   \* minimum application versions
    Application, \* APPLICATION_VERSION
    MaxBuilds,  \* bound on the builds
    MaxInstalls, \* bound on the installations
    MaxChecks   \* bound on the checks

ASSUME NoneIsNoText == \A text \in Texts : Normalized(text) # None

VARIABLES
    now,
    entry,    \* the source in the registry: what was approved last, and its state
    check,    \* the latest source check
    build,    \* a release being assembled
    dir,      \* the files of the release directory
    install,  \* an installation of it
    active,   \* what is installed: the active record, its files, its index
    opening,  \* the application has validated the installed pair, not yet read it
    loaded,   \* the documents the application has loaded
    reviewed, \* history: the texts a person has approved
    builds, checks, installs \* how many there were

governance == <<now, entry, check, reviewed, checks>>
assembly == <<build, dir, builds>>
runtime == <<install, active, opening, loaded, installs>>
vars == <<governance, assembly, runtime>>

Times == 0 .. MaxTime
Outcomes == {"served", "unanswered", "error", "moved", "unreadable"}

(***************************************************************************)
(* Checks and approvals.                                                   *)
(***************************************************************************)
Blocking == {"fetch-failed", "broken", "redirected-pending-review", "extraction-failed",
             "changed-unreviewed", "overdue-blocked", "discovered",
             "candidate-approved-url", "withdrawn", "superseded"}

\* The state of a page that still says what was approved.
DatedState(record, t) ==
    IF Passed(t, record.block) THEN "overdue-blocked"
    ELSE IF Passed(t, record.due) THEN "overdue-policy-usable" ELSE "approved-current"

\* Mutant: a page that answers is taken for what was approved.
StateWithoutText(record, outcome, text, t) ==
    IF record.state \in {"discovered", "withdrawn", "superseded"} THEN record.state
    ELSE IF outcome # "served" THEN "broken" ELSE DatedState(record, t)

\* What a check finds, by the first of these that applies.
StateOfCheck(record, outcome, text, t) ==
    IF record.state \in {"discovered", "withdrawn", "superseded"} THEN record.state
    ELSE IF outcome = "unanswered" THEN "fetch-failed"
    ELSE IF outcome = "error" THEN "broken"
    ELSE IF outcome = "moved" THEN "redirected-pending-review"
    ELSE IF outcome = "unreadable" THEN "extraction-failed"
    ELSE IF record.state = "candidate-approved-url" \/ text # record.text
         THEN "changed-unreviewed"
    ELSE DatedState(record, t)

Captured(outcome, page) ==
    LET text == IF outcome \in {"served", "moved"} THEN Normalized(page) ELSE None
        state == StateOfCheck(entry, outcome, text, now)
    IN  [entry EXCEPT !.state = state, !.text = text,
                      !.declared = IF state \in EligibleStates THEN "current" ELSE state]

\* The authority may rewrite its page between any two checks.
CheckSource ==
    /\ checks < MaxChecks /\ checks' = checks + 1
    /\ \E outcome \in Outcomes, page \in Texts : check' = Captured(outcome, page)
    /\ UNCHANGED <<now, entry, reviewed, assembly, runtime>>

\* A person approves what the check found, which becomes the registry's entry.
\* The block-after date stays.
ApproveCheck ==
    /\ check # None /\ check.state \notin Blocking \ {"changed-unreviewed"}
    /\ \E due \in Dues :
          entry' = [check EXCEPT !.state = "approved-current", !.due = due,
                                 !.declared = "current", !.reviewers = TRUE]
    /\ check' = None
    /\ reviewed' = reviewed \cup {check.text}
    /\ UNCHANGED <<now, checks, assembly, runtime>>

(* External: the registry is a file the maintainers keep.  They admit a    *)
(* source, withdraw it, and note the state that a check found next to the  *)
(* hashes of what was approved.                                            *)
Admit ==
    /\ entry.state = "discovered"
    /\ entry' = [entry EXCEPT !.state = "candidate-approved-url"]
    /\ UNCHANGED <<now, check, reviewed, checks, assembly, runtime>>
NoteState ==
    /\ check # None /\ entry.state # check.state
    /\ entry.state \notin {"discovered", "withdrawn"}
    /\ \E state \in {check.state, "withdrawn"} : entry' = [entry EXCEPT !.state = state]
    /\ UNCHANGED <<now, check, reviewed, checks, assembly, runtime>>
Tick ==
    /\ now < MaxTime /\ now' = now + 1
    /\ UNCHANGED <<entry, check, reviewed, checks, assembly, runtime>>

(***************************************************************************)
(* What makes a release valid.                                             *)
(***************************************************************************)
SourceValid(record) == record.state \in EligibleStates /\ record.reviewers /\ record.text # None

ContentsValid(manifest, documents) ==
    /\ SourceValid(manifest.source)
    /\ ChunksValid(documents, {manifest.source})

\* The root's key signed exactly this manifest, and the root permits it.
SignatureValid(manifest, signature, root) ==
    /\ signature # None
    /\ signature.over = manifest /\ signature.by = Roots[root].key
    /\ \/ Roots[root].status = "active" /\ Roots[root].allowed = {}
       \/ manifest \in Roots[root].allowed

(***************************************************************************)
(* The assembly of a release.                                              *)
(***************************************************************************)
\* The maintainer's document of a source, in the state of the source.
Document(text, record) ==
    [id |-> "document", source |-> record.source, text |-> text, review |-> record.state]

\* The maintainer passes a source record - the registry's, or that of a check -
\* and a document; the build refuses, before it writes anything, what is not
\* eligible, reviewed and the reviewed text.
BeginBuild ==
    /\ build = None /\ builds < MaxBuilds
    /\ \E record \in {entry, check} \ {None}, text \in Texts,
          version \in Versions, root \in DOMAIN Roots, key \in Keys :
          LET document == Document(text, record)
          IN  /\ record.state \in EligibleStates /\ record.reviewers
              /\ Chunkable(document, record)
              /\ build' = [step |-> "documents", key |-> key, documents |-> Chunks(document, record),
                           manifest |-> [source |-> record, version |-> version, root |-> root,
                                         documents |-> Chunks(document, record)]]
    /\ builds' = builds + 1
    /\ UNCHANGED <<dir, governance, runtime>>

Assembles(from, to) == build # None /\ build.step = from /\ build' = [build EXCEPT !.step = to]

WriteDocuments ==
    /\ Assembles("documents", "manifest")
    /\ dir' = [dir EXCEPT !.documents = build.documents]
    /\ UNCHANGED <<builds, governance, runtime>>
WriteManifest ==
    /\ Assembles("manifest", "signature")
    /\ dir' = [dir EXCEPT !.manifest = build.manifest]
    /\ UNCHANGED <<builds, governance, runtime>>
\* The bytes that are signed are those of the file.
SignManifest ==
    /\ Assembles("signature", "written")
    /\ dir' = [dir EXCEPT !.signature = [over |-> dir.manifest, by |-> build.key]]
    /\ UNCHANGED <<builds, governance, runtime>>
\* The build verifies what it wrote; accepted, refused or interrupted at any
\* step, it leaves the files.
EndBuild ==
    /\ build # None /\ build' = None
    /\ UNCHANGED <<dir, builds, governance, runtime>>

(***************************************************************************)
(* The installation: every file is read on its own, the manifest and the   *)
(* documents more than once, then copied, and the copies are verified.     *)
(***************************************************************************)
ReadManifest ==
    /\ install = None /\ installs < MaxInstalls /\ dir.manifest # None
    /\ install' = [step |-> "verify", manifest |-> dir.manifest, documents |-> None,
                   copy |-> [documents |-> None, manifest |-> None, signature |-> None]]
    /\ installs' = installs + 1
    /\ UNCHANGED <<active, opening, loaded, governance, assembly>>

Goes(from, to) == install # None /\ install.step = from /\ install' = [install EXCEPT !.step = to]
Installing == UNCHANGED <<active, opening, loaded, installs, governance, assembly>>

VerifySignature ==
    /\ Goes("verify", "hash")
    /\ SignatureValid(dir.manifest, dir.signature, install.manifest.root)
    /\ Installing
HashDocuments ==
    /\ Goes("hash", "read")
    /\ dir.documents = install.manifest.documents
    /\ Installing
ReadDocuments ==
    /\ install # None /\ install.step = "read"
    /\ install.manifest.version <= Application
    /\ ContentsValid(install.manifest, dir.documents)
    /\ install' = [install EXCEPT !.step = "documents", !.documents = dir.documents]
    /\ Installing

Copies(file, to) ==
    /\ install # None /\ install.step = file
    /\ install' = [install EXCEPT !.step = to, !.copy[file] = dir[file]]
    /\ Installing
CopyFile ==
    \/ Copies("documents", "manifest") \/ Copies("manifest", "signature")
    \/ Copies("signature", "copied")

\* The copies are what was verified; the index is built from what was read.
CopiesValid(held) ==
    /\ SignatureValid(held.copy.manifest, held.copy.signature, held.manifest.root)
    /\ held.copy.manifest = held.manifest
    /\ held.copy.documents = held.manifest.documents
Activate ==
    /\ install # None /\ install.step = "copied" /\ CopiesValid(install) /\ ~opening
    /\ active' = [record |-> install.manifest, files |-> install.copy, indexed |-> install.documents]
    /\ install' = None
    /\ UNCHANGED <<opening, loaded, installs, governance, assembly>>
\* A file is missing or refused, or the installation is interrupted.
InstallFails ==
    /\ install # None /\ install' = None
    /\ UNCHANGED <<active, opening, loaded, installs, governance, assembly>>

(***************************************************************************)
(* Loading.  The files of the active pair are validated, then the documents *)
(* are read again, and must be those of which the index was made; otherwise *)
(* nothing is answered from.  No activation comes between.                 *)
(***************************************************************************)
PairValid(a) ==
    /\ SignatureValid(a.files.manifest, a.files.signature, a.files.manifest.root)
    /\ a.record = a.files.manifest
    /\ a.files.documents = a.record.documents
ValidatePair ==
    /\ active # None /\ ~opening
    /\ opening' = PairValid(active)
    /\ loaded' = None
    /\ UNCHANGED <<install, active, installs, governance, assembly>>
MatchesIndex(a) == a.files.documents = a.indexed
Load ==
    /\ opening /\ opening' = FALSE
    /\ loaded' = IF MatchesIndex(active) THEN active.files.documents ELSE None
    /\ UNCHANGED <<install, active, installs, governance, assembly>>

(* External: a disk or a transfer returns another version of the documents *)
(* than the one that was written.                                          *)
Spoilt(record) == {Chunks(Document(t, record), record) : t \in Texts}
Spoil ==
    \/ /\ active # None
       /\ \E chunks \in Spoilt(active.record.source) : active' = [active EXCEPT !.files.documents = chunks]
       /\ UNCHANGED <<install, opening, loaded, installs, governance, assembly>>
    \/ /\ dir.manifest # None
       /\ \E chunks \in Spoilt(dir.manifest.source) : dir' = [dir EXCEPT !.documents = chunks]
       /\ UNCHANGED <<build, builds, governance, runtime>>

Init ==
    /\ now = 0
    /\ entry = [source |-> "source", state |-> "discovered", text |-> None, due |-> Absent,
                block |-> BlockAfter, declared |-> "current", reviewers |-> FALSE]
    /\ check = None /\ build = None /\ install = None /\ active = None
    /\ opening = FALSE /\ loaded = None
    /\ dir = [documents |-> None, manifest |-> None, signature |-> None]
    /\ reviewed = {} /\ builds = 0 /\ checks = 0 /\ installs = 0

Next ==
    \/ CheckSource \/ ApproveCheck \/ Admit \/ NoteState \/ Tick
    \/ BeginBuild \/ WriteDocuments \/ WriteManifest \/ SignManifest \/ EndBuild
    \/ ReadManifest \/ VerifySignature \/ HashDocuments \/ ReadDocuments
    \/ CopyFile \/ Activate \/ InstallFails \/ ValidatePair \/ Load \/ Spoil

Spec == Init /\ [][Next]_vars

(***************************************************************************)
(* Properties.                                                             *)
(***************************************************************************)
Spelled(chunks) == FlattenSeq(InSequence(chunks, DOMAIN chunks))

\* What the application answers from is, word for word, a text that a person
\* approved - whatever the page said meanwhile, whichever build or spoilt file
\* an installation met between its reads, and whatever became of the installed
\* files.
LoadedAsReviewed == loaded # None => Spelled(loaded) \in reviewed

\* The two ends of a release agree: what the build makes of a reviewed source
\* and of its document, the verification accepts - repeated
\* passages and paragraphs that are cut included.  (The pieces of a word that no
\* chunk can hold do not spell it: that build is refused after it has written.)
BuildsAreValid ==
    build # None /\ build.step = "documents" =>
        LET source == build.manifest.source IN
        (\A i \in DOMAIN source.text : Len(source.text[i]) <= MaxLetters) =>
            ContentsValid(build.manifest, build.documents)

\* What the agreement asks of the cutting of a text: some units, whose contents
\* spell the normalized text unless a word of it is too long for any chunk.
CutWhole(text) ==
    /\ Units(text) \in Seq(Range(Units(text))) /\ Units(text) # <<>>
    /\ (\A i \in DOMAIN Normalized(text) : Len(Normalized(text)[i]) <= MaxLetters) =>
          FlattenSeq(Units(text)) = Normalized(text)

\* Two parts of the code decide from the same dates: the maintainers' check
\* (_review_state_for_check) and the running application
\* (assess_source_freshness).  The application is never the more generous: what
\* it uses at a time, a check of the unchanged page at that time leaves
\* eligible, and what it calls current, that check calls current.
FreshAsChecked ==
    build # None /\ build.step = "documents" /\ ContentsValid(build.manifest, build.documents) =>
        \A i \in DOMAIN build.documents, health \in EligibleHealth, t \in Times :
            LET source == build.manifest.source
                f == Freshness([review |-> build.documents[i].review,
                                health |-> health, approved |-> TRUE,
                                inputs |-> [due |-> source.due, block |-> source.block,
                                            health |-> source.declared]], t)
            IN  /\ f.usable => DatedState(source, t) \in EligibleStates
                /\ f.level = "High" => DatedState(source, t) = "approved-current"

\* A source that a person has approved until a review date is usable until then.
ApprovedUntilDue ==
    \A t \in Times :
        entry.state = "approved-current" /\ entry.due # Absent /\ t <= entry.due =>
            DatedState(entry, t) = "approved-current"
==============================================================================
