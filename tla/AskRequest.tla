----------------------------- MODULE AskRequest -----------------------------
(***************************************************************************)
(* One request at a time through the local application (local_app.py): a   *)
(* question (/ask) and the pages that only describe the active release.    *)
(* The worker thread of knowledge_update_controller.py may activate another *)
(* build of a release between any two steps of a request, and the user may *)
(* swap the local embedding model.                                         *)
(*                                                                         *)
(* Three things must stay on one release while that happens: the retriever *)
(* (retriever_cache.py keeps one), the evaluation basis of the request     *)
(* (SnapshotState of snapshot_clock.py: the snapshot time of a bundled     *)
(* release, or the wall clock) and what the page and the stored turn say.  *)
(***************************************************************************)
CONSTANTS
    Releases, \* manifests
    Bundled,  \* those shipped with the repository
    Initial,  \* the one a fresh installation starts with
    Models,   \* identities of local embedding models
    None

ASSUME ConstantsAssumption ==
    /\ Bundled \subseteq Releases
    /\ Initial \in Releases
    /\ None \notin Releases \cup Models

\* An installed build: a release, indexed with a model.
Builds == [release : Releases, model : Models]
\* A retriever: the build it loaded, and the model it inspected itself.
Retrievers == [build : Builds, model : Models]
\* release_cache_key: the verified build and the live model.
Keys == [build : Builds, live : Models \cup {None}]
KeyOf(r) == [build |-> r.build, live |-> r.model]

\* bundled_snapshot
SnapshotOf(release) == IF release \in Bundled THEN release ELSE None

VARIABLES
    active, \* the active build
    live,   \* the model the embedding provider serves
    cache,  \* RetrieverCache._entry
    pc,     \* the request's next step
    state,  \* its SnapshotState
    key,    \* the key it looks up
    ret,    \* its retriever
    turn,   \* the answer it prepared: its build, and the basis it was judged on
    saved,  \* the turn it stored
    page,   \* the page it was answered with
    \* What the properties refer to:
    during, \* builds that were active at some time of the request
    seen,   \* models the request inspected
    failed  \* did a load or a build fail before the basis was settled?

request == <<key, ret, turn, saved>>
ghosts == <<during, seen, failed>>
vars == <<active, live, cache, pc, state, key, ret, turn, saved, page, during,
          seen, failed>>

Fresh == [snapshot |-> None, unavailable |-> FALSE, frozen |-> FALSE,
          changed |-> FALSE, reloadFailed |-> FALSE, adopted |-> None]
States == [snapshot : Bundled \cup {None}, unavailable : BOOLEAN,
           frozen : BOOLEAN, changed : BOOLEAN, reloadFailed : BOOLEAN,
           adopted : Releases \cup {None}]
Turns == [build : Builds, judged : Bundled \cup {None}, grounded : BOOLEAN]
Saved == [turn : Turns, snapshot : Bundled \cup {None}]
Pages == [banner : States, corpus : Releases \cup {None}]

ASSUME NoneAssumption ==
    /\ None \notin Builds /\ None \notin Retrievers /\ None \notin Keys
    /\ None \notin [key : Keys, retriever : Retrievers]
    /\ None \notin Turns /\ None \notin Saved /\ None \notin Pages

Steps == {"idle", "ensure", "inspect", "lookup", "build", "validate", "answer",
          "save", "render"}

TypeOK ==
    /\ active \in Builds \cup {None}
    /\ live \in Models
    /\ cache \in [key : Keys, retriever : Retrievers] \cup {None}
    /\ pc \in Steps
    /\ state \in States
    /\ key \in Keys \cup {None}
    /\ ret \in Retrievers \cup {None}
    /\ turn \in Turns \cup {None}
    /\ saved \in Saved \cup {None}
    /\ page \in Pages \cup {None}
    /\ during \subseteq Builds
    /\ seen \subseteq Models
    /\ failed \in BOOLEAN

Init ==
    /\ active = None
    /\ live \in Models
    /\ cache = None
    /\ pc = "idle"
    /\ state = Fresh
    /\ key = None /\ ret = None /\ turn = None /\ saved = None /\ page = None
    /\ during = {} /\ seen = {} /\ failed = FALSE

-----------------------------------------------------------------------------
(* SnapshotState *)

\* Mutant: a later load repairs the claim.
AdoptAnyway(s, release) ==
    IF s.adopted = release THEN s
    ELSE IF s.frozen THEN [s EXCEPT !.changed = TRUE]
    ELSE [s EXCEPT !.snapshot = SnapshotOf(release), !.adopted = release,
                   !.unavailable = FALSE]

\* adopt
Adopt(s, release) ==
    IF s.unavailable \/ s.adopted = release THEN s
    ELSE IF s.frozen THEN [s EXCEPT !.changed = TRUE]
    ELSE [s EXCEPT !.snapshot = SnapshotOf(release), !.adopted = release]

\* mark_unavailable
MarkUnavailable(s) ==
    IF s.frozen THEN [s EXCEPT !.reloadFailed = TRUE]
    ELSE [s EXCEPT !.snapshot = None, !.unavailable = TRUE]

\* Mutant: the basis stays open.
LeaveOpen(s) == s

Freeze(s) == [s EXCEPT !.frozen = TRUE]

-----------------------------------------------------------------------------
(* Outside *)

\* A build becomes active: the last step of an installation.
Install(r) ==
    /\ active' = [release |-> r, model |-> live]
    /\ during' = IF pc = "idle" THEN during ELSE during \cup {active'}
    /\ UNCHANGED <<live, cache, pc, state, request, page, seen, failed>>

\* ollama pull
SwapModel(m) ==
    /\ live' = m
    /\ UNCHANGED <<active, cache, pc, state, request, page, ghosts>>

-----------------------------------------------------------------------------
(* Requests *)

\* A request starts: _SnapshotClockMiddleware gives it a fresh state.
Start(step) ==
    /\ pc = "idle"
    /\ pc' = step
    /\ state' = Fresh
    /\ key' = None /\ ret' = None /\ turn' = None /\ saved' = None
    /\ page' = None
    /\ during' = {active} \ {None}
    /\ seen' = {} /\ failed' = FALSE
    /\ UNCHANGED <<active, live, cache>>

Ask == Start("ensure")

\* A page, or a question refused before any load: it is empty, there is no
\* configuration, or its conversation cannot be read.
Show == Start("render")

\* ensure_minimal_knowledge_release: the active build, or the one installed now.
Ensured == IF active = None THEN [release |-> Initial, model |-> live] ELSE active

Ensures ==
    /\ active' = Ensured
    /\ during' = during \cup {Ensured}

\* ensure_release, of a question
Ensure ==
    /\ pc = "ensure"
    /\ Ensures
    /\ state' = Adopt(state, Ensured.release)
    /\ key' = [build |-> Ensured, live |-> None]
    /\ pc' = "inspect"
    /\ UNCHANGED <<live, cache, ret, turn, saved, page, seen, failed>>

\* inspect_embedding_model
Inspect ==
    /\ pc = "inspect"
    /\ key' = [key EXCEPT !.live = live]
    /\ seen' = seen \cup {live}
    /\ pc' = "lookup"
    /\ UNCHANGED <<active, live, cache, state, ret, turn, saved, page, during,
                   failed>>

\* get_or_build: a hit is validated again, a miss is built.
Lookup ==
    /\ pc = "lookup"
    /\ IF cache # None /\ cache.key = key
       THEN ret' = cache.retriever /\ pc' = "validate"
       ELSE UNCHANGED ret /\ pc' = "build"
    /\ UNCHANGED <<active, live, cache, state, key, turn, saved, page, ghosts>>

\* Mutant: the basis stays that of the release verified first.
SettleVerified(r) ==
    /\ state' = Freeze(state)
    /\ pc' = "answer"

\* The request follows the release its retriever loaded, and settles on it.
Settle(r) ==
    /\ state' = Freeze(Adopt(state, r.build.release))
    /\ pc' = "answer"

\* Mutant: the entry is stored under the key that was looked up.
StoreAsRequested(r) == cache' = [key |-> key, retriever |-> r]

Store(r) == cache' = [key |-> KeyOf(r), retriever |-> r]

\* Mutant: whatever model is there is taken to have built the index.
AcceptsIndex(b, m) == TRUE

\* _validate_index: the index names the model the retriever inspected.
MatchesIndex(b, m) == b.model = m

\* HybridRetriever.from_data_dir, under the release lock: what is active now,
\* not what was verified.
Build ==
    /\ pc = "build"
    /\ active # None
    /\ MatchesIndex(active, live)
    /\ ret' = [build |-> active, model |-> live]
    /\ Store(ret')
    /\ Settle(ret')
    /\ seen' = seen \cup {live}
    /\ UNCHANGED <<active, live, key, turn, saved, page, during, failed>>

\* A cache hit re-runs the build-time checks.
Validate ==
    /\ pc = "validate"
    /\ MatchesIndex(ret.build, ret.model)
    /\ Settle(ret)
    /\ UNCHANGED <<active, live, cache, request, page, ghosts>>

\* AnswerService.answer, or a social reply: retrieval reads the request clock.
Answer(grounded) ==
    /\ pc = "answer"
    /\ turn' = [build |-> ret.build, judged |-> state.snapshot,
                grounded |-> grounded]
    /\ pc' = "save"
    /\ UNCHANGED <<active, live, cache, state, key, ret, saved, page, ghosts>>

\* save_answer, with the snapshot's metadata
Save ==
    /\ pc = "save"
    /\ saved' = [turn |-> turn, snapshot |-> state.snapshot]
    /\ pc' = "render"
    /\ UNCHANGED <<active, live, cache, state, key, ret, turn, page, ghosts>>

\* Loading, inspecting, building or validating fails: no snapshot is claimed.
RetrievalFails ==
    /\ pc \in {"ensure", "inspect", "lookup", "build", "validate"}
    /\ state' = MarkUnavailable(state)
    /\ failed' = TRUE
    /\ pc' = "render"
    /\ UNCHANGED <<active, live, cache, request, page, during, seen>>

\* The provider, the validation of the answer, or the store fails.
AnswerFails ==
    /\ pc \in {"answer", "save"}
    /\ pc' = "render"
    /\ UNCHANGED <<active, live, cache, state, request, page, ghosts>>

\* _page_context: every page loads the release again and describes it.
Render ==
    /\ pc = "render"
    /\ Ensures
    /\ state' = Adopt(state, Ensured.release)
    /\ page' = [banner |-> state', corpus |-> Ensured.release]
    /\ pc' = "idle"
    /\ UNCHANGED <<live, cache, request, seen, failed>>

\* The load fails: the page says the corpus is unavailable.
RenderUnavailable ==
    /\ pc = "render"
    /\ state' = MarkUnavailable(state)
    /\ failed' = (failed \/ ~state.frozen)
    /\ page' = [banner |-> state', corpus |-> None]
    /\ pc' = "idle"
    /\ UNCHANGED <<active, live, cache, request, during, seen>>

Next ==
    \/ \E r \in Releases : Install(r)
    \/ \E m \in Models : SwapModel(m)
    \/ Ask
    \/ Show
    \/ Ensure
    \/ Inspect
    \/ Lookup
    \/ Build
    \/ Validate
    \/ \E grounded \in BOOLEAN : Answer(grounded)
    \/ Save
    \/ RetrievalFails
    \/ AnswerFails
    \/ Render
    \/ RenderUnavailable

Spec == Init /\ [][Next]_vars

-----------------------------------------------------------------------------
(* Properties *)

\* The data judged is the data loaded (docs/source-governance.md, snapshot
\* mode): an answer is judged at the time of the release its retriever loaded,
\* and the stored turn says so, whatever was activated during the request.
JudgedAsLoaded ==
    /\ turn # None => turn.judged = SnapshotOf(turn.build.release)
    /\ saved # None => saved.snapshot = saved.turn.judged

\* A stored answer was drawn from a build that was active during its request:
\* the cache serves no build from before (retriever_cache.get_or_build).
DrawnFromActive == saved # None => saved.turn.build \in during

\* The model that indexed the documents an answer is drawn from was the one
\* the request itself found at the provider, also when the retriever was cached.
IndexModelInspected == turn # None => turn.build.model \in seen

\* The page of a stored answer states the answer's basis, and says that the
\* release has changed exactly when its corpus panel describes another one.
PageAgrees ==
    page # None /\ saved # None =>
        /\ page.banner.snapshot = saved.snapshot
        /\ page.banner.changed <=>
              page.corpus \notin {None, saved.turn.build.release}
        /\ page.banner.reloadFailed <=> page.corpus = None

\* A page claims a snapshot only of a release that was active in the request,
\* and never after a load failed before the basis was settled.
NoUnfoundedClaim ==
    page # None /\ page.banner.snapshot # None =>
        /\ ~failed
        /\ \E b \in during : b.release = page.banner.snapshot
=============================================================================
