# Verification of the Danish Immigration Assistant

TLA+ models of the core of `src/danish_rag`, checked with TLC, and theorems about
them proved with TLAPS. The application is a local question-answering service: it
retrieves passages from a signed, versioned *knowledge release* (a corpus of official
sources and its search index), lets a local language model answer from them, verifies
the answer with the same model, and keeps the conversation. New knowledge releases are
found, downloaded, approved and activated while it runs. Offline, maintainers check and
review the sources, build releases of them and evaluate a release before it is published.

## 1. Inventory

One process serves the application. Its request handlers are `async def` functions that
never leave the event loop, so **one request is served at a time**; two kinds of worker
thread run beside it, the automatic update check and the installation of an update.

| Component | State | Operations | Interacts with | What is hard | What makes it correct |
|---|---|---|---|---|---|
| Release activation (`knowledge_release.py` 1820-1988) | `active-release.json` and its backup, the activation transaction, final, pending and backup directories of corpus and index; `_ACTIVE_RELEASE_LOCK` | stage, activate, roll back, recover | every load of the active release recovers first | failures and crashes between any two renames, recovery interrupted, rollback failing, several installers | a load returns one whole build; the old build survives until the new one is committed |
| Update controller (`knowledge_update_controller.py`) and update records (`knowledge_release.py` 400-860) | available and pending update records, directories of verified downloads; record lock, check state, installation state | manual and automatic check, approve download, dismiss, start installation | GitHub client, activation | three threads, a lock given back and taken again, crashes between record and directory | one writer of the records; what is reviewed is what is installed; no downgrade; workers end |
| Release verification and selection (`knowledge_release.py`, `release_trust.py`) | none | validate a manifest, verify a signature, stage, open, pick the newest newer release | controller, activation | version order, files read one by one while a build replaces them | only a newer compatible release is offered; what is loaded was reviewed and signed |
| GitHub release client (`github_release_client.py`) | one download's deadline, byte count and partial file | list releases, download an asset | controller | one deadline over connection, redirects and reads; partial files | no file without its whole, digest-checked content |
| Answer pipeline (`answer_pipeline.py`, `answer_verification.py`) | the draft, its verification, the attempts used | generate, verify, correct the verification, repair, salvage | retriever, model transport | invalid, truncated and missing replies at every exchange; nested retries; text put together after verification | nothing unverified is displayed; omissions are disclosed; bounded model use |
| Claim support and bindings (`claim_support.py`, `semantic_chunks.py`, `evidence_integrity.py`) | none | split into chunks, compare a claim with its passages | answer pipeline | repeated passages, paragraphs cut at a limit | chunks spell the reviewed text under distinct identities |
| Retriever cache (`retriever_cache.py`) | one retriever and its key | get or build | ask request, activation | a release activated between key and build | an answer, its snapshot and the cache entry are of one release |
| Snapshot clock (`snapshot_clock.py`) | the evaluation basis of one request | adopt, freeze, mark unavailable | ask request, trust indicators | several loads in one request | the stored basis is the one the answer was judged on |
| Trust indicators (`trust_indicators.py`) | none | confidence, freshness | answer pipeline | dates at equality | never better than the worst material source |
| Retrieval and index (`retrieval.py`, `grounded_flexibility_retrieval.py`, `embedding_provider.py`) | index files | validate, embed, fuse rankings, select | activation, ask request | intents, examinations, sources and list context compete for few places | nothing ineligible is retrieved, no intent crowded out |
| Conversation store (`conversation_store.py`) | SQLite tables | save, list, delete, export | ask request | several statements in a transaction, a migration at the start of each | a set of logs that only grow and are deleted as a whole |
| Web application (`local_app.py`, `web/static/app.js`) | none of its own | request handlers | all of the above | order of loads in `/ask` | answer and page agree on the release |
| Provider setup and transport (`provider_setup.py`, `local_model_transport.py`, `runtime_policy.py`, `privacy_boundary.py`, ...) | a configuration file | validate, chat, embed, list | answer pipeline, retrieval | typed failures | only loopback endpoints |
| Social conversation (`social_conversation.py`) | none | classify, reply | ask request | text patterns | no facts without evidence |
| Source governance (`source_registry.py`, `source_admission.py`, `source_maintenance.py`, `source_review*.py`) | registry, checks, bundles, decisions, reviews | check, approve, fetch, decide, complete a review | release authoring | files edited and replaced between the reads of a command, dates at equality | only what people read and approved becomes eligible |
| Release authoring (`production_knowledge_release.py`, candidate evidence) | candidate directories | build, qualify, install | review, activation | two builds at one path, a candidate replaced after its qualification | what is installed was qualified as it is |
| Evaluation and qualification (`final_answer_evaluation.py`, `release_evaluation.py`, `release_qualification.py`, monitors, benchmarks) | reports, packets, verdicts, pinned evidence | run, judge, replay, declare, evaluate | release authoring | bar, set, code and candidate change while a run lasts | a strict pass rests on answers people judged right |

`PROJECT.json` lists the components with their status, and under `hazards` every place
where the code can go wrong in a way a test would hardly reach, with the property that
covers it or the reason why none does.

## 2. Modules

Each component has a module of its own; an `MC` module holds the values of one instance,
and a `Proofs` module the theorems. Three compositions: `SourceGovernance` takes the
chunks of `SemanticChunks` and the dates of `TrustIndicators`, `Retrieval` the latter,
and `ReleasePreparation` puts the review and the evaluation of a release side by side.
`ActiveRelease` and `ConversationLog` are abstract specifications which
`ReleaseActivation` and `ConversationStore` are shown to implement.

### ActiveRelease, ReleaseActivation (and its proofs)

`ReleaseActivation` is `_activate_staged_release` and `_recover_interrupted_activation`
file operation by file operation. `pc` is the next statement of the thread that holds the
release lock; its names follow the code: five steps before the `try` (clear the pending
and backup directories, copy the staged pair, back up the active record, write the
transaction), five in it (move the old pair away, move the new one in, write the active
record), three in `except`, four in `finally`, seven of recovery. Directories are indexed
by kind and release id and hold a build, nothing, or something incomplete. A directory
removal or copy can be interrupted half way (`HalfDone`); a rename and
`_write_json_atomic` cannot. `Fault` is an exception at any step, going where the code
sends it; `Crash` ends the process and with it the waiting installers. `StartRecovery` is
any load of the active release that finds a transaction file.

Two builds may carry the same release id (a release installed again), and then share
their final directories: this is where the `had_final_*` flags matter. Staging itself, and
what validation computes, is one step (`BeginInstall`, `AbandonStaging`): private
directories nobody else reads.

`ActiveRelease` is what all of this promises: the active build changes in one step, to
one on offer, and is never lost. The refinement maps its `current` to `Visible`, the build
a load would return if nothing else happened first, its `offered` to the installations
that can still take effect.

### KnowledgeUpdate

The controller with its three threads: `ui` serves one request, `auto` is the automatic
check, `job` the installation. Each variable is the thread's next step; a handler is split
where another thread or a crash can come between: at the lock, at every write of a record
or a directory, around the listing and the download, and between finding no active release
and installing the bundled one. Activation and recovery, which `ReleaseActivation` takes
apart, are one step each, with what an interruption can leave: `transaction` is an activation
yet to be undone, and `"restored"` when its backup has been used up, so that the next load
deletes the active record (`Leaves`, `HalfRecovers`, `Loadable`; finding 1). Every step that
loads the active release recovers first (`Recovers`). `lost` is history: a record has been
deleted this way. A check may be offered any set of releases, another one each time. Release
ids are their versions. `prepared` is the
condition of each verified download's directory. Where `github` is false initially, the same module
is the controller over the local release catalogue, where the check itself saves the
pending record.

### AnswerPipeline

`AnswerService.answer` with `ModelAnswerVerifier`. Each exchange with the model is a step:
`Draft` (generate or repair), `Verify`, or one of the ways it goes wrong, `InvalidReply`
(re-asked once by `structured_chat`), `TruncatedReply`, `UnknownCitation`,
`CannotVerify` (no usable structure, or more than 24 000 bytes) and `ProviderFails`.
A section is kind, text and citations; a verdict is what `validate_verification` can tell
apart: supported by valid witnesses, supported by invalid ones (`unfaithful`: wrong
witness, number, examination name or negation), unsupported, non-factual, malformed,
malformed but negative. `Augmented`, `Completed`, `Retains` and their like are the
functions that put an answer together, as operators.

### AskRequest

One request at a time through `/ask` or a page, with the steps at which the code reads
something that may change under it: the active build, the embedding model, the cache. An
installation (`Install`) or a change of model (`SwapModel`) may come between any two. The
request carries a `SnapshotState` (`state`): `Adopt`, `Freeze` and `MarkUnavailable` are
its methods. `key` is what the cache is asked for, `ret` the retriever the question is
answered with, `turn` and `saved` what is judged and stored, `page` what is shown.
`during`, `seen` and `failed` are history the properties refer to.

### ConversationStore, ConversationLog

The two tables as committed (`db`) and as the open transaction sees them (`work`); one
statement is one step, any of which may raise or be the last before a crash. Each
transaction begins with the migration of records of an earlier version. Saving an answer
is a transaction and a second one that reads it back; an export of all is one to list and
one per conversation. `ConversationLog` is the promise: each conversation is a sequence
that grows by whole turns and disappears as a whole.

### ReleaseNetwork

A listing or a download from connection to reply. Every receive may take as long as its
limit; between the operations of urllib - a connection with the headers of its answer, the
body of a redirect (`"drain"`, which `http_error_302` reads whole), a read of the answer's body -
the client looks at the clock. How many receives one operation takes (`Piece`: interim
answers, a trickled redirect, the framing of chunks), announced and real length, content,
redirect targets and delays are the server's choice. urllib and `http.client` are modelled as
the standard library has them. Files are lengths with a mark
whether the content is the asset's; time and bytes saturate one above their budgets.
Parsing the listing is success or failure.

### TrustIndicators, SemanticChunks, SourceGovernance

`TrustIndicators` has `assess_source_freshness` as an operator over dates in `Nat`,
absent or unreadable. `SemanticChunks` has the cutting of a text - paragraphs, sentences,
words, letters - and the identity of a chunk, and the rules by which a release's chunks
are accepted. `SourceGovernance` moves a source through automated checks
(`CheckSource`, `Captured`), human approvals, builds that write the files of a release
directory one by one over those of earlier builds, installations that read them one by
one, and loads that validate and read the installed pair. A hash or signature is the
value it was made of.

### Retrieval

`HybridRetriever.retrieve`: the clock is read once (`ReadClock`), both channels rank what
they find (`LexicalSearch`, `DenseSearch`, or `EmbeddingFails`), and `Fuse` joins the
rankings. How well a text matches is data, so a channel may rank what it finds in any order.
The selection follows pass by pass, in the order of the code: `Reserve` keeps a place for
every intent, `CoverExams` adds one passage per turn of the greedy loop, `Fill` adds other
sources and then whatever ranks next, `AddContext` handles one chosen passage of a list, and
`Return` puts the result in the order of the ranking. Orders are given by ranks rather than
by recursion (`Places`), and a fused score is an exact integer: `Scale` is a common multiple
of the `K + rank` that occur, so that equal scores are equal as in the code's sum of
reciprocals, without its rounding.

### SourceReview, ReleaseEvaluation, ReleasePreparation

`SourceReview`: a machine bundle, decisions of people about it, the command that binds
both into a completed review, two builds of registry and release at the same paths, and
qualification and installation from a private copy. `ReleaseEvaluation`: live run, packet
for the judges, their verdicts, replay, public aggregates, declared gate statuses, pinned
evidence and the evaluation that reads all of these. People edit, replace and rerun between
any two reads of a command. A build of a release has an id, which is given on the command
line, the documents that the answers cite, and a manifest, so that two builds may bear one
id; the replay compares the id and the cited documents, the pinned candidate its manifest's
digest, and the gate of the answers the id alone.

The program's two reports stay private. What is pinned are public aggregates of them, which
people write by hand (`docs/progress/issue-51-final-answer-remediation.json` and
`issue-51-reviewed-candidate-replay.json`): they have the scope, the private digests, the
digests of the code and the claim that it did not change, none of which
`generate_final_answer_evaluation` writes. `Publish` is this external step: the figures are
copied from a report that is there, the claim of the code is any. `Misreport` publishes a
report that the program never wrote, and is remembered in `misreported`; the properties make
no statement after it, because nothing compares an aggregate with its report.

`ReleasePreparation` composes the two: it extends `SourceReview` and instances
`ReleaseEvaluation`; they share no state, and an installed build is to the evaluation just a
value.

## 3. Runs

| Run | Instance | Shows |
|---|---|---|
| `activation_single` | three builds of two releases, 1 interruption per transaction | `AtomicSpec`: seen through loads, an installation takes effect in one step, and no release is lost |
| `activation_reinstalled` | three builds of one release, 3 interruptions | `PairConsistent`, `OldBuildRecoverable`: no interruption of recovery leaves a mixed pair, or an old build that cannot be put back; `Inductive`, the invariant the proofs use |
| `activation_unrestored` | three builds of two releases, 2 interruptions, rollback steps may raise | `InstallersGetLock`: no failure keeps the others out for ever |
| `activation_lost` | the same, rollback steps do not raise | **violated**: `PriorReleaseKept` (finding 1) |
| `update` | three releases, one of them bundled, from GitHub or a catalogue | single writer, no surprise installation, no downgrade and no false completion but for the loss of finding 1, prepared directories; both workers end |
| `answer` | drafts of up to two of nine sections, every verdict for every item | only verified statements are displayed, omissions are disclosed, the safety refusal stays, no prohibited conclusion outside a refusal, at most twelve requests |
| `ask` | two bundled releases and a later one, two embedding models | answer, its time, the stored turn, the cache and the page name one release that was active during the request |
| `conversations` | two conversations of up to three turns, two questions | `LogSpec` (refinement); a shown history is whole; what was reported saved is on disk |
| `network` | two units of time, three bytes in reads of two, one redirect | whole file or none, no overwrite, bytes within the limit, and a request that never ends is held by the server in one operation of urllib |
| `retrieval` | four passages of two sources in five corpora, five questions, two times, every ranking | results are usable, every intent is served, no idle passage comes before an examination that was asked for |
| `sources` | three texts, two checks, two builds, one installation, two trust roots | what is loaded is a text a person approved; a build of reviewed text is accepted; the application is never more generous than the maintainers' check |
| `review` | one source, two texts, two builds; bar, set and code of two values each; four builds of two ids | what is installed was read, approved and qualified as it is; two builds do not mix; a strict pass was judged right, of a build of its id, unless a report was made up |

**Bounds.** Activation: three builds are the fewest with an old build, a new one of the
same release and one of another, and, in `activation_reinstalled`, with a third build of
the same release, which finds the backup directories of the second. The transaction is
removed before the next one starts, so interruptions are counted per transaction: one shows
each single failure, two an interrupted recovery, three a recovery of that. `update` has no
counters, and does not count interruptions either; three releases give an active, a reviewed
and a newer one. In `answer` two
sections are what duplicates, a retained and an omitted section need; the nine cover every
reason the code has to keep or omit one, and `calls` is bounded by the code. `ask`: two
bundled releases differ in their snapshot, a later one has none; the models are symmetric
(no definition names one). `conversations`: a third turn is the first whose index follows
one that was itself appended; two conversations show that one is not written or deleted
with the other. `network`: a limit of three bytes in reads of two makes a read end below, at
and above the limit; two time units give a receive that ends early, late and not in time;
the saturation one above each budget loses nothing, as nothing compares with more.
`retrieval`: three places for up to three intents, two examinations and the context of a
list over four passages is where the passes compete; five corpora and questions vary which
passages serve which. `K` is the code's, and with ranks up to three `Scale` is 61 * 62 * 63.
`sources`: with dates 0 and 1 and a clock up to 2 every comparison is
below, at and above equality; one installation meets the files of two builds. `review`: see
below; one source makes each file of a bundle the only one of its kind, and that a command
reads several files is already in snapshot, extraction, manifest and decisions. In its
evaluation, three runs are a live run, another one and a replay, which is what a verdict
about other answers needs; one change shows a file replaced between two reads, more are
covered by `PassedWasJudged`; the builds are one, two of its id of which one has other cited
documents, and one of another id. Nothing is explored after a misreport (`NothingMadeUp`),
where `PassedAsJudged` says nothing.

**Reductions.** Two runs explore fewer interleavings than their `Spec`, by arguments given
in their MC modules. `sources` (`GovernedBefore`, an action constraint): a build takes what
it needs of the governance in its first step, so the check and approval steps need not be
interleaved with those of a build, an installation or a load. `review` (`MCSpec`): review
and evaluation share no state, so each is explored with the other at rest; within the
review, a build that has begun shares no state with it, so the review's steps come first
(`ReviewGoesFirst`), and when both builds have begun the way the review came about no
longer matters (`View`); the builders are symmetric. In the evaluation, nobody runs or
judges after the last pinning (`PinnedLast`): a pass needs what was pinned to be what is
published, so without those steps it would still pass, with fewer judged answers. `View`
leaves out what an evaluation has read once a gate failed it, and what is read no more.
The proofs use neither reduction.

**Deadlock** is not checked where a bounded counter ends the run: the activation runs
(each build is staged once), `sources` and `review`. In all others it is.

**Fairness.** `ReleaseActivation`: the lock holder is a running thread (weak fairness of
`HolderStep`), and a lock that stays free is given to a waiting installer (weak, per
installer). Nothing obliges anyone to load a release or to start an installation.
`KnowledgeUpdate`: threads run, and their work on this machine, embedding calls to the
loopback provider included, ends (weak fairness of each thread's steps, but for those that
wait for GitHub: `AutomaticCheckSettles` names these as the exception); a worker waiting for
the record lock gets it although others take it in between (strong fairness of
`AutomaticCheckEnters` and `JobLocksRecords`), which is justified because a request does not
wait for the lock, it is refused, and requests come at the speed of a user. `ReleaseNetwork`:
a request that is in progress goes on (weak fairness of `Progress`), because each receive ends
by its time limit; that a server comes to the end of what it sends is not assumed. No run
assumes that a release is offered, that a check or a download succeeds or that a user acts.

## 4. Findings

*A twice-interrupted activation can lose the active release* (`knowledge_release.py:1967`,
run `activation_lost`). Recovery and rollback rename the backup of the active record into
place before they remove the transaction. Interrupted between the two, the next recovery
finds no backup and concludes that there was no release before. `activation_single` shows
that it takes two interruptions. The controller then starts from nothing: a check or a page
installs the bundled release, which may be older, and a page that found none installs it
over whatever has been activated in the meantime (`KnowledgeUpdate_downgraded.cfg`, where
`NeverOlder` is violated). `NoDowngrade` and `CompletedIsActive` name this case and exclude
every other.

The following disagreements were met as well; where a configuration is named, TLC shows
the case with it, as section 8 says.

- *A rollback that fails removes what it would need* (`knowledge_release.py:1895`,
  `ReleaseActivation_restore.cfg`). The `finally` clause runs after a failed `except` clause
  too, and removes backups and transaction, leaving corpus and index of different builds.
- *A prepared download no record names blocks the next* (`knowledge_release.py:658`,
  `KnowledgeUpdate_orphan.cfg`). A crash or failure between directory and record leaves a
  directory that a dismissal does not see and a new download refuses.
- *A completed installation can be reported as failed* (`knowledge_update_controller.py:540`,
  `KnowledgeUpdate_failed.cfg`). A failure of the bookkeeping after the activation is
  reported as a failed installation, with the new release active.
- *The refusal to judge a certificate is rejected as a judgement*
  (`answer_pipeline.py:1566`, `AnswerPipeline_certificate.cfg`). The search for prohibited
  phrases exempts refusals but not the summary, which repeats the refusal if there is no
  fact, and that refusal contains the phrase "SIRI will accept".
- *A refusal of the model's own may draw the conclusion it should refuse*
  (`answer_pipeline.py:1570`, `AnswerPipeline_refusal.cfg`). Sections of the kind refusal are
  exempt from the search whoever wrote them, and the verification accepts them as non-factual.
  `SafetyKept` speaks of the summary and of every other section.
- *A request may take longer than its deadline* (`docs/architecture.md:99`,
  `ReleaseNetwork_deadline.cfg`). The time limit of each receive is what was left when an
  operation began; an operation of several receives may use it several times, and one that
  the server never ends is never ended: urllib reads the whole body of a redirect, with
  neither a limit of bytes nor a look at the clock, and skips interim answers and trailers
  without counting them (`ReleaseNetwork_endless.cfg`, where `RequestEnds` is violated). A
  check or a download that is held so holds the record lock, too.
- *A renewed source keeps its old block-after date* (`source_maintenance.py:124`,
  `SourceGovernance_renewed.cfg`): it is blocked at that date although it was approved until
  a later one. And a source that has become overdue-blocked cannot be approved again,
  which `docs/source-governance.md:172` expects.
- A source that was broken, redirected, unreadable or changed, and whose page then says again
  what was approved, becomes current by the next automated check, without the review that
  `docs/source-governance.md:180` describes.
- A text with a word longer than a chunk may be is cut into chunks that the verification
  refuses after the build has written its files (`BuildsAreValid` says so).
- A document whose review state differs from its source's, both eligible, passes the chunker
  and not the verification.
- A health other than current, declared on a source, makes it unusable before its review date
  and usable with less trust after it (`trust_indicators.py:115`).
- A completed review is "ready" with one reviewer of a material source whenever the fallback is
  chosen; the registry also demands the staffing to say so, and the build refuses it. The
  review accepts pages fetched from a local server, the registry does not.
- The digest of the quality bar in a live report is taken when the run ends, its thresholds
  when it began; the evaluation of a candidate notices.
- *A release can pass on the answers of another build of its id*
  (`candidate_answer_evidence.py:60`, `ReleasePreparation_rebuilt.cfg`, where `PassedAsBuilt`
  is violated). The aggregates name the release by its id, an argument of the command that
  builds it (`production_knowledge_release.py:940`); neither is compared with the digest of
  the manifest that is pinned beside them. One rebuild under the same id after the answers
  were given is enough. A replay does refuse a rebuild that changed a document the answers
  cite, but not one that comes after it.
- *The pinned aggregates are taken at their word* (`candidate_answer_evidence.py:49`,
  `ReleasePreparation_misreported.cfg`, where `PassedAsReported` is violated). The evaluation
  checks that they agree with each other, with themselves and with the files in force; it
  sees neither the reports, the packet nor the verdicts, of which they hold digests. That the
  figures were copied faithfully is an assumption about people, which `PassedAsJudged` states
  (`misreported = {}`); which code gave the answers is only ever claimed.
- The evidence of the release monitors names no candidate (`release_evaluation.py:1080`), gates
  read evidence files again after their hash was compared, and a declared status that is none
  of the known ones blocks nothing (`release_qualification.py:128`).
- An answer that was stored is reported as not saved when reading it back fails
  (`local_app.py:826`).
- A second verification may approve in the repaired draft a text the first one rejected.
- *A candidate replaced twice can pass on the answers of a release of another id*
  (`candidate_answer_evidence.py:60`, `ReleasePreparation_swapped.cfg`, where
  `PassedUnderItsName` is violated). The evaluation reads the candidate's manifest before the
  gates and again when it compares the pinned answers with it. A release of another id that
  takes the candidate's place before the evidence is pinned, and gives it back between the
  two reads, is verified as pinned and passes with the answers of the first. With one
  replacement the id cannot differ (`PassedIsNamed`).
- *An introduction that no channel returned can leave an idle passage among the results*:
  the context of a list is fetched beside the ranking, and may name the very examination for
  which another passage was chosen. `NamedExamsFirst` therefore speaks of results that were
  ranked.

## 5. Proofs

Eight modules, checked by TLAPS; the theorems are listed in `PROJECT.json`.

**ReleaseActivationProofs**, for any set of builds and releases and any number of
interruptions: `TypeCorrect`, without further assumptions; `InductiveInvariant`,
`PairAlwaysConsistent`, `OldBuildAlwaysRecoverable` under `~RestoreMayFail`. That
assumption is needed: `ReleaseActivation_restore.cfg` is the counterexample without it. The
constants' assumptions (`ConstantsAssumption`) say only that the markers are no builds.
`PairConsistent` is not inductive: that the active pair is whole when all is quiet depends
on every step before. The conjuncts of `Inductive` add what the code relies on:

- `TxOwner`: during an activation the transaction on disk is that thread's; recovery has
  decided once, by whether the active record is the transaction's target;
- `Freshness`: a build is offered once, so a transaction's target on the active record
  means that its activation committed;
- `Progress`: which directories hold the old, the new or nothing at each step, so that a
  rename never meets what it would destroy;
- `HadOld`: `had_final_*` is true whenever the old build lives in the final directories
  that the new one is about to take;
- `Settled`: once the outcome is written the active pair is whole, and stale backups that
  a failed `finally` leaves belong to no build that recovery would restore;
- `OldBuildRecoverable` itself, from which the rollback's result follows.

With at most one interruption (`MaxInterruptions \in 0 .. 1`, and rollback steps may raise, as
that is the interruption): `ActivationIsAtomic`, every behaviour is one of `ActiveRelease`,
where an installation takes effect in one step; hence `PriorReleaseKeptOnce`; and
`PairConsistentOnce`, without `~RestoreMayFail`. `AtMostOne` adds to the invariant that who
is rolling back or recovering has had its interruption, so that nothing can interrupt the
recovery itself. Staging maps to `Offer`, the rename that commits the active record to
`Activate`, giving up to `Withdraw`; every other step, those of a rollback included, stutters.

**KnowledgeUpdateProofs**, for any set of releases: `RecordsHaveOneWriter`,
`ApprovedIsInstalled`, `PendingCanBeInstalled`, `CompletionIsTrue`, `NewerUnlessLost`. The
last two hold of any number of interruptions, with the loss of the active record (finding 1)
named as the one exception. The
single writer is inductive with the types; the others are not. That a pending directory is
not the one being removed needs `Removing` (a directory is removed only after its record)
and `Downloading` (the record is written after its directory); that nothing is downgraded
needs `Records` (a record on disk is as new as the active release; two records name the same)
and `Checks` (what a check has selected is still newer when it saves it, because no
installation runs under the lock). `RecordMoves` is what any step can do to the active record:
load, activate what the worker installs, or install the bundled release, which a check does
only when nothing is active and a page only after a loss or before anything newer (`Bundling`).

**RetrievalProofs** has two parts. *The ask request*, for any releases and models: the stored
turn is judged on the basis of the release it was drawn from, that release was active during
the request, its index was built with a model the request inspected, and no page claims a
snapshot that was not settled. The invariant says what a cache entry, a key and a retriever
have in common at each step, and that a frozen state no longer changes its basis.

*Retrieval*, for any corpora and questions, channels and results of any length and any
ranking: `ResultsAreSupported`, `IntentsAreAnswered`, `NamedExamsComeFirst`. Its invariant has
two halves. `Supported` follows a document from a channel into the result: every list is
without repetition and of candidates, a channel cut to its limit keeps a document of each
group, fusion loses none of them, and the protected places survive every later pass, the
replacement of results by context included. `Covered` says that beyond the protected places
each passage added most of the examinations still missing (`Greedy`) until none could be
added. That no result is then idle is not local to a step (`Irreplaceable`). If one were,
the other unprotected results, one fewer than the greedy picks, would cover what the picks
covered. As an examination is still missing and there are four, the picks are at most
three, and then one of those fewer documents would have added more than the pick
that was preferred to it. This is the only place where the number of examinations counts:
greedy covering of more of them can be beaten. While an examination is missing the picks
fill all places, so it is left out only for want of one.

**AnswerPipelineProofs**: `CallsBounded`, for any sections, texts and replies. Its
invariant `Budget` states what may have been spent at each point: two requests per exchange,
two exchanges per verification, a draft and its verification twice.
For any sections, texts, verdicts and lengths of a draft: `FactsAreGrounded`,
`SummaryIsVerified`, `RejectedNotDisplayed`, `OmissionsAreDisclosed`, `SafetyIsKept`. The invariant `Grounding` says that an answer is what the last judgement of
the present draft makes of it (`WholeAnswer`, `PartialAnswer`), and that there is none while
the model is asked: a draft is replaced only then. The five properties follow from it and
from lemmas about the data: what the application adds to an answer (`CompletedSections`),
that it does not change the summary (`SummaryStays`), and that the kept sections are the
draft's own, fewer than all when one is missing (`RetainedOfDraft`). The kept sections are
defined by the ranks of their positions rather than by recursion, so that a least
counterexample replaces an induction (`KthIsMember`).

**ReleaseNetworkProofs**, for budgets of any size: `DownloadsAreWhole`, `BytesAreBounded`,
`NothingOverwritten`. The invariant (`Receiving`) relates what was counted to what is in the
part file while a body is received.

**ConversationStoreProofs**, for any conversations and questions and any number of turns:
`StoreIsTyped`, `ShownIsWhole`, `SaveIsDurable`, and the refinement `StoreImplementsLog`. A
history is what the rows spell in the order of their indexes; it is defined by rank, so that
a row more or less can be followed without an induction. `Numbered` is what the properties
rest on: the turns of a conversation are numbered without a gap, and a row without a
conversation is of no history. `WorkFits` says for each statement by how much the open
transaction differs from the committed tables, so that a commit appends one turn, deletes
whole logs or only migrates, and a failure or a crash at any statement is a stutter of the
logs; `Reading` that an export, which reads one conversation per transaction, has whole
histories of what was there when it listed them.

**ReleasePreparationProofs.** The review, for any sources, texts, decisions, builders and
edits: `InstalledIsReviewed` and `InstalledIsQualified`, and `CandidatesAreWhole` for markers
that are no releases. What people wrote down is followed from the decisions' file into the
command's copy, the completed review, each build, the release and the pinned copy
(`DecisionsWritten`, `ReleasesApproved`); the two paths are each held by the build that
claimed them until it returns or gives up (`OutputsHeld`). These are theorems of
`SourceReview`'s own specification; `PartsUndisturbed` shows that the composition is a
behaviour of both parts, and with it `PreparedAsReviewed`, `PreparedAsQualified` and
`PreparedWhole` state them of what the run checks.

The evaluation, under `EvaluationAssumption`: among the configured gates is the one of the
answers. `config/release-qualification.json` has it (`final-answer-independent-human-adjudication`);
the code itself does not insist on it, and without it nothing would be read of the answers.
`PassedWasJudged`, for any number of changes, runs and publications: a strict pass rests on
one live run whose answers people judged, at or above the bar, over a build of the id that
the manifest bears at the gate of the answers - as long as no report was made up. The
invariant (`Evaluated`) follows a verdict from the person into the bundle, the replay, its
report, the aggregate and the pins. What was published by hand is believed there because
the theorem says so, not because the code checks it. `PassedIsNamed`: the candidate that was
verified as pinned bears that id, if at most one change happens. `Traced` carries which
build each file is about, separately for nothing changed and for one change; with two it
is false. No theorem says that the answers are of the very build that passes: they need not
be (section 4).

**SourceGovernanceProofs**, for any texts, limits, dates, trust roots, keys and numbers of
builds: `LoadedTextsAreReviewed` and `NeverFresherThanChecked`. The invariant says that a
valid source in any manifest was approved with its text (`Manifests`), that a release's
chunks are of one document (`Documents`), and that what an installation copied, and what
the installed index was made of, spells an approved text (`Indexed`). It does not depend
on how a text was cut: chunks that the rules accept spell the text of their source
(`ValidContentsSpell`). The second theorem is a case analysis over the dates.
`BuildsAreAccepted` is the other direction: the numbers, the occurrence counts and the
identities that the chunker gives are those the verification counts out again, for
any number of units and with repeated ones (`ChunksAreNumbered`: an identity repeats only if
two units say the same and occur as often, which an earlier one never does). Its hypothesis
is that the cutting of a text loses no word (`CutWhole`), an induction over data;
`MCSourceGovernance` assumes it of the instance's texts, and TLC evaluates it.
`NoneIsNoText` says that the marker is no text.

Only model-checked:

- liveness, which is outside the prover's reach: `InstallersGetLock`, `InstallEnds`,
  `AutomaticCheckSettles` and `EndsUnlessHeld`;
- `CutWhole`: the cutting of a text folds over its words.

Every invariant and action property that a run checks is stated by a theorem. `AtomicSpec`
is stated under a bound that its counterexample shows to be necessary (one interruption,
`activation_lost`).

## 6. What is not modelled, and why

- Two processes on one data directory: both locks are of one process, and the documents
  prescribe one local application. Two would break the activation protocol.
- A write that the operating system reorders or loses at a power failure: `os.replace` and
  the JSON writes are taken to reach the disk in order, and SQLite's transactions to be
  atomic and durable.
- Starting a worker thread always succeeds. (If it did not, the running flag already set
  would never be reset; listed as a hazard.)
- Leftover private staging directories: nothing reads them.
- Signatures, hashes, embeddings, full-text search, HTML and the wording of messages, and
  the text patterns that classify questions and compare claims with passages; the lexical
  verifier used for controlled fixtures.
- Provider setup and transport, social conversation: validation of single values and one
  model call, with no state of their own beyond a configuration file.
- The measurements behind the gates (monitors, retrieval benchmark, machine evidence,
  grounded flexibility, supported environment): they compute numbers from fixed inputs
  and keep no state; a gate's outcome is any value. Admission records are a
  validation of one file, field by field.
- Releases of whole documents instead of chunks, and the syntax of manifests.

## 7. Plan

Done: the activation protocol and its refinement; the update controller; the answer
pipeline; the ask request; the conversation store and its refinement; the release client;
governance, chunks and dates; retrieval; review, builds and evaluation of a release; proofs
of the safety properties of all of these and of both refinements.

What would come next: a proof of the rollback without `~RestoreMayFail` for the steps that
do not raise; the configuration file of the provider setup; the release monitors, once they
name a candidate.

## 8. Running it

```
tlc -workers 2 -config ReleaseActivation_single.cfg MCReleaseActivation.tla
tlc -workers 2 -config ReleasePreparation.cfg MCReleasePreparation.tla
tlapm KnowledgeUpdateProofs.tla
```

Each row of `runs` in `PROJECT.json` names a module and a configuration. A `\* Mutant:`
comment marks an operator that stands for a plausible mistake in the definition that
follows it; `mutants` says which property must notice it. The configurations
that no row names show the disagreements of section 4, with the `MC` module their names
begin with (`tlc -config KnowledgeUpdate_orphan.cfg MCKnowledgeUpdate.tla`): TLC reports
their property as violated.
