--------------------------- MODULE RetrievalProofs ---------------------------
(***************************************************************************)
(* The retriever.  First the request that loads it (AskRequest): its        *)
(* properties for any releases and any embedding models.  Then what a       *)
(* retrieval returns (Retrieval): for every corpus and question, and every  *)
(* order the channels may rank the documents in.                            *)
(***************************************************************************)
EXTENDS AskRequest, Retrieval, FiniteSetTheorems, SequenceTheorems, WellFoundedInduction, TLAPS

(* The request. *)

Loading == {"inspect", "lookup", "build", "validate"}

\* A state that has adopted a release and lost no claim is at its snapshot.
Basis ==
    /\ ~state.unavailable /\ state.adopted # None =>
          state.snapshot = SnapshotOf(state.adopted)
    /\ state.unavailable \/ state.adopted = None => state.snapshot = None
    /\ state.adopted # None => \E b \in during : b.release = state.adopted
    /\ pc # "idle" => ~state.changed /\ ~state.reloadFailed
    /\ failed => state.unavailable
    /\ pc \in {"ensure"} \cup Loading => ~state.unavailable /\ ~state.frozen

\* What the cache holds is filed under its own identity.
Entry ==
    cache # None =>
        /\ cache.key = KeyOf(cache.retriever)
        /\ cache.retriever.build.model = cache.retriever.model

\* What the request holds at each of its steps.
Holds ==
    /\ pc # "idle" /\ active # None => active \in during
    /\ pc \in {"inspect", "lookup"} => key # None /\ key.build \in during
    /\ pc = "lookup" => key.live \in seen
    /\ pc \in {"validate", "answer", "save"} =>
          /\ ret # None
          /\ ret.build \in during /\ ret.build.model \in seen
    /\ pc \in {"answer", "save"} =>
          state.frozen /\ ~state.unavailable /\ state.adopted = ret.build.release
    /\ pc = "save" => turn # None /\ turn.build = ret.build
    /\ turn # None =>
          /\ turn.build \in during /\ turn.build.model \in seen
          /\ turn.judged = SnapshotOf(turn.build.release)
          /\ pc \in {"save", "render", "idle"}
    /\ saved # None =>
          /\ turn # None /\ saved.turn = turn /\ saved.snapshot = turn.judged
          /\ pc \in {"render", "idle"}
          /\ state.frozen /\ ~state.unavailable
          /\ state.adopted = turn.build.release
    /\ page # None => pc = "idle" /\ page.banner = state
    /\ page # None /\ saved # None =>
          /\ state.changed <=> page.corpus \notin {None, turn.build.release}
          /\ state.reloadFailed <=> page.corpus = None

IInv == TypeOK /\ Basis /\ Entry /\ Holds

\* A state that adopts a release, or fails to, stays well formed.
LEMMA AdoptTyped ==
    ASSUME NEW s \in States, NEW r \in Releases
    PROVE  /\ Adopt(s, r) \in States
           /\ MarkUnavailable(s) \in States
           /\ Freeze(s) \in States
BY ConstantsAssumption DEF States, Adopt, MarkUnavailable, Freeze, SnapshotOf

\* The build a load returns is a build.
LEMMA EnsuredTyped ==
    ASSUME TypeOK
    PROVE  Ensured \in Builds /\ Ensured # None
BY ConstantsAssumption, NoneAssumption DEF TypeOK, Ensured, Builds

LEMMA FreshTyped == Fresh \in States /\ Fresh.snapshot = None
BY DEF Fresh, States

\* What Adopt does to a state that is not yet settled.
LEMMA AdoptBasis ==
    ASSUME NEW s \in States, NEW r \in Releases, ~s.frozen, ~s.unavailable,
           s.adopted # None => s.snapshot = SnapshotOf(s.adopted)
    PROVE  /\ Adopt(s, r).adopted = r
           /\ Adopt(s, r).snapshot = SnapshotOf(r)
           /\ ~Adopt(s, r).frozen /\ ~Adopt(s, r).unavailable
           /\ Adopt(s, r).changed = s.changed
           /\ Adopt(s, r).reloadFailed = s.reloadFailed
BY ConstantsAssumption DEF Adopt, States

LEMMA InitHolds == Init => IInv
<1> SUFFICES ASSUME Init PROVE IInv
  OBVIOUS
<1>1. TypeOK
  BY FreshTyped DEF Init, TypeOK, Steps
<1>2. Basis /\ Entry /\ Holds
  BY ConstantsAssumption DEF Init, Basis, Entry, Holds, Fresh, Loading
<1> QED BY <1>1, <1>2 DEF IInv

-----------------------------------------------------------------------------
(* One lemma per step of a request, and one for the outside. *)

LEMMA InstallKeeps == ASSUME IInv, NEW r \in Releases, Install(r) PROVE IInv'
<1> USE ConstantsAssumption, NoneAssumption
<1>1. active' \in Builds /\ active' # None /\ during' \subseteq Builds
  BY DEF IInv, TypeOK, Install, Builds
<1>2. during \subseteq during' /\ (pc # "idle" => active' \in during')
  BY DEF Install
<1>3. TypeOK'
  BY <1>1 DEF IInv, TypeOK, Install, request
<1>4. Basis'
  BY <1>2 DEF IInv, Basis, Install, SnapshotOf
<1>5. Entry'
  BY DEF IInv, Entry, Install, KeyOf
<1>6. Holds'
  BY <1>2 DEF IInv, Holds, Install, request, SnapshotOf
<1> QED BY <1>3, <1>4, <1>5, <1>6 DEF IInv

LEMMA SwapKeeps == ASSUME IInv, NEW m \in Models, SwapModel(m) PROVE IInv'
<1>1. TypeOK'
  BY DEF IInv, TypeOK, SwapModel, request, ghosts
<1>2. Basis' /\ Entry' /\ Holds'
  BY DEF IInv, Basis, Entry, Holds, SwapModel, request, ghosts, KeyOf, SnapshotOf
<1> QED BY <1>1, <1>2 DEF IInv

LEMMA StartKeeps == ASSUME IInv, Ask \/ Show PROVE IInv'
<1> USE ConstantsAssumption, NoneAssumption
<1>1. PICK step \in {"ensure", "render"} : Start(step)
  BY DEF Ask, Show
<1>2. TypeOK'
  <2>1. during' \subseteq Builds
    BY <1>1 DEF IInv, TypeOK, Start
  <2> QED BY <1>1, <2>1, FreshTyped DEF IInv, TypeOK, Start, Steps
<1>3. Basis'
  BY <1>1 DEF Basis, Start, Fresh, Loading
<1>4. Entry'
  BY <1>1 DEF IInv, Entry, Start, KeyOf
<1>5. Holds'
  BY <1>1 DEF Holds, Start
<1> QED BY <1>2, <1>3, <1>4, <1>5 DEF IInv

LEMMA EnsureKeeps == ASSUME IInv, Ensure PROVE IInv'
<1> USE ConstantsAssumption, NoneAssumption
<1>1. /\ Ensured \in Builds /\ Ensured # None /\ Ensured.release \in Releases
      /\ active' = Ensured /\ during' = during \cup {Ensured}
  BY EnsuredTyped DEF IInv, Ensure, Ensures, Builds
<1>2. state' \in States
  BY <1>1, AdoptTyped DEF IInv, TypeOK, Ensure
<1>3. /\ ~state.frozen /\ ~state.unavailable
      /\ state.adopted # None => state.snapshot = SnapshotOf(state.adopted)
  BY DEF IInv, Basis, Ensure, Loading
<1>4. /\ state'.adopted = Ensured.release
      /\ state'.snapshot = SnapshotOf(Ensured.release)
      /\ ~state'.frozen /\ ~state'.unavailable
      /\ state'.changed = state.changed
      /\ state'.reloadFailed = state.reloadFailed
  BY <1>1, <1>3, AdoptBasis DEF IInv, TypeOK, Ensure
<1>5. TypeOK'
  <2>1. key' \in Keys
    BY <1>1 DEF Ensure, Keys
  <2> QED BY <1>1, <1>2, <2>1 DEF IInv, TypeOK, Ensure, Steps
<1>6. Basis'
  BY <1>1, <1>4 DEF IInv, Basis, Ensure, Loading, SnapshotOf
<1>7. Entry'
  BY DEF IInv, Entry, Ensure, KeyOf
<1>8. Holds'
  <2>1. key' # None /\ key'.build \in during' /\ pc' = "inspect"
    BY <1>1, <1>5 DEF Ensure, IInv, TypeOK, Keys
  <2>2. turn' = turn /\ saved' = saved /\ page' = page /\ pc = "ensure"
    BY DEF Ensure
  <2> QED BY <1>1, <2>1, <2>2 DEF IInv, Holds
<1> QED BY <1>5, <1>6, <1>7, <1>8 DEF IInv

LEMMA InspectKeeps == ASSUME IInv, Inspect PROVE IInv'
<1> USE ConstantsAssumption, NoneAssumption
<1>1. key \in Keys /\ live \in Models
  BY DEF IInv, TypeOK, Holds, Inspect
<1>2. key' \in Keys /\ key'.build = key.build /\ key'.live = live
  BY <1>1 DEF Inspect, Keys
<1>3. TypeOK'
  BY <1>2 DEF IInv, TypeOK, Inspect, Steps
<1>4. Basis' /\ Entry'
  BY DEF IInv, Basis, Entry, Inspect, Loading, KeyOf, SnapshotOf
<1>5. Holds'
  <2>1. key' # None /\ key'.build \in during' /\ key'.live \in seen' /\ pc' = "lookup"
    BY <1>2 DEF IInv, Holds, Inspect
  <2> QED BY <2>1 DEF IInv, Holds, Inspect
<1> QED BY <1>3, <1>4, <1>5 DEF IInv

LEMMA LookupKeeps == ASSUME IInv, Lookup PROVE IInv'
<1> USE ConstantsAssumption, NoneAssumption
<1>1. TypeOK'
  BY DEF IInv, TypeOK, Lookup, Steps, ghosts
<1>2. Basis' /\ Entry'
  BY DEF IInv, Basis, Entry, Lookup, Loading, KeyOf, SnapshotOf, ghosts
<1>3. CASE cache # None /\ cache.key = key
  <2>1. /\ ret' = cache.retriever /\ pc' = "validate"
        /\ cache.retriever \in Retrievers
    BY <1>3 DEF Lookup, IInv, TypeOK
  <2>2. ret'.build = key.build /\ ret'.build.model = key.live
    BY <1>3, <2>1 DEF IInv, Entry, KeyOf
  <2>3. ret' # None
    BY <2>1
  <2> QED BY <1>1, <1>2, <2>1, <2>2, <2>3 DEF IInv, Holds, Lookup, ghosts
<1>4. CASE ~(cache # None /\ cache.key = key)
  BY <1>1, <1>2, <1>4 DEF IInv, Holds, Lookup, ghosts
<1> QED BY <1>3, <1>4

LEMMA BuildKeeps == ASSUME IInv, Build PROVE IInv'
<1> USE ConstantsAssumption, NoneAssumption
<1>1. /\ active \in Builds /\ active.release \in Releases
      /\ ret' \in Retrievers /\ ret' # None
      /\ ret'.build = active /\ ret'.model = live /\ active.model = live
  BY DEF IInv, TypeOK, Build, Builds, Retrievers, MatchesIndex
<1>2. /\ ~state.frozen /\ ~state.unavailable /\ state \in States
      /\ state.adopted # None => state.snapshot = SnapshotOf(state.adopted)
  BY DEF IInv, TypeOK, Basis, Build, Loading
<1> DEFINE s == Adopt(state, active.release)
<1>3. /\ s \in States /\ s.adopted = active.release
      /\ s.snapshot = SnapshotOf(active.release) /\ ~s.unavailable
      /\ s.changed = state.changed /\ s.reloadFailed = state.reloadFailed
  BY <1>1, <1>2, AdoptBasis, AdoptTyped
<1>4. state' = Freeze(s) /\ pc' = "answer"
  BY <1>1 DEF Build, Settle
<1>5. /\ state' \in States /\ state'.adopted = active.release
      /\ state'.snapshot = SnapshotOf(active.release) /\ ~state'.unavailable
      /\ state'.changed = state.changed
      /\ state'.reloadFailed = state.reloadFailed /\ state'.frozen
  BY <1>3, <1>4 DEF Freeze, States
<1>6. active \in during /\ during' = during /\ live \in seen' /\ pc = "build"
  BY DEF IInv, Holds, Build
<1>7. TypeOK'
  <2>1. cache' \in [key : Keys, retriever : Retrievers]
    BY <1>1 DEF Build, Store, KeyOf, Keys, Retrievers
  <2> QED BY <1>1, <1>4, <1>5, <2>1 DEF IInv, TypeOK, Build, Steps
<1>8. Basis'
  BY <1>1, <1>4, <1>5, <1>6 DEF IInv, Basis, Build, Loading, SnapshotOf
<1>9. Entry'
  BY <1>1 DEF Entry, Build, Store, KeyOf
<1>10. Holds'
  BY <1>1, <1>4, <1>5, <1>6 DEF IInv, Holds, Build
<1> QED BY <1>7, <1>8, <1>9, <1>10 DEF IInv

LEMMA ValidateKeeps == ASSUME IInv, Validate PROVE IInv'
<1> USE ConstantsAssumption, NoneAssumption
<1>1. ret \in Retrievers /\ ret.build.release \in Releases
  BY DEF IInv, TypeOK, Holds, Validate, Builds, Retrievers
<1>2. /\ ~state.frozen /\ ~state.unavailable /\ state \in States
      /\ state.adopted # None => state.snapshot = SnapshotOf(state.adopted)
  BY DEF IInv, TypeOK, Basis, Validate, Loading
<1> DEFINE s == Adopt(state, ret.build.release)
<1>3. /\ s \in States /\ s.adopted = ret.build.release
      /\ s.snapshot = SnapshotOf(ret.build.release) /\ ~s.unavailable
      /\ s.changed = state.changed /\ s.reloadFailed = state.reloadFailed
  BY <1>1, <1>2, AdoptBasis, AdoptTyped
<1>4. state' = Freeze(s) /\ pc' = "answer"
  BY <1>1 DEF Validate, Settle
<1>5. /\ state' \in States /\ state'.adopted = ret.build.release
      /\ state'.snapshot = SnapshotOf(ret.build.release) /\ ~state'.unavailable
      /\ state'.changed = state.changed
      /\ state'.reloadFailed = state.reloadFailed /\ state'.frozen
  BY <1>3, <1>4 DEF Freeze, States
<1>6. TypeOK'
  BY <1>4, <1>5 DEF IInv, TypeOK, Validate, Steps, request, ghosts
<1>7. Basis'
  <2>1. ret.build \in during' /\ pc = "validate"
    BY DEF IInv, Holds, Validate, ghosts
  <2> QED BY <1>1, <1>4, <1>5, <2>1 DEF IInv, Basis, Validate, Loading, SnapshotOf, ghosts
<1>8. Entry'
  BY DEF IInv, Entry, Validate, KeyOf
<1>9. Holds'
  BY <1>4, <1>5 DEF IInv, Holds, Validate, request, ghosts
<1> QED BY <1>6, <1>7, <1>8, <1>9 DEF IInv

LEMMA AnswerKeeps ==
    ASSUME IInv, NEW grounded \in BOOLEAN, Answer(grounded) PROVE IInv'
<1> USE ConstantsAssumption, NoneAssumption
<1>1. /\ ret \in Retrievers /\ ret.build \in Builds /\ pc = "answer"
      /\ ret.build.release \in Releases /\ state.snapshot \in Bundled \cup {None}
      /\ state.snapshot = SnapshotOf(ret.build.release)
  BY DEF IInv, TypeOK, Basis, Holds, Answer, Builds, Retrievers, States
<1>2. /\ turn' \in Turns /\ turn' # None /\ turn'.build = ret.build
      /\ turn'.judged = SnapshotOf(ret.build.release) /\ pc' = "save"
  BY <1>1 DEF Answer, Turns
<1>3. TypeOK'
  BY <1>2 DEF IInv, TypeOK, Answer, Steps, ghosts
<1>4. Basis' /\ Entry'
  BY <1>1, <1>2 DEF IInv, Basis, Entry, Answer, Loading, KeyOf, SnapshotOf, ghosts
<1>5. Holds'
  BY <1>1, <1>2 DEF IInv, Holds, Answer, SnapshotOf, ghosts
<1> QED BY <1>3, <1>4, <1>5 DEF IInv

LEMMA SaveKeeps == ASSUME IInv, Save PROVE IInv'
<1> USE ConstantsAssumption, NoneAssumption
<1>1. /\ turn \in Turns /\ state.snapshot \in Bundled \cup {None}
      /\ state.snapshot = turn.judged /\ state.adopted = turn.build.release
      /\ state.frozen /\ ~state.unavailable /\ pc = "save" /\ turn # None
  <2>1. ret \in Retrievers /\ ret.build.release \in Releases
    BY DEF IInv, TypeOK, Holds, Save, Builds, Retrievers
  <2> QED BY <2>1 DEF IInv, TypeOK, Basis, Holds, Save, States
<1>2. /\ saved' \in Saved /\ saved' # None /\ saved'.turn = turn
      /\ saved'.snapshot = turn.judged /\ pc' = "render"
  BY <1>1 DEF Save, Saved
<1>3. TypeOK'
  BY <1>2 DEF IInv, TypeOK, Save, Steps, ghosts
<1>4. Basis' /\ Entry'
  BY <1>1, <1>2 DEF IInv, Basis, Entry, Save, Loading, KeyOf, SnapshotOf, ghosts
<1>5. Holds'
  BY <1>1, <1>2 DEF IInv, Holds, Save, SnapshotOf, ghosts
<1> QED BY <1>3, <1>4, <1>5 DEF IInv

\* A failure before the basis is settled gives up the claim; a later one keeps it.
LEMMA FailuresKeep == ASSUME IInv, RetrievalFails \/ AnswerFails PROVE IInv'
<1> USE ConstantsAssumption, NoneAssumption
<1>1. CASE RetrievalFails
  <2>1. state \in States /\ ~state.frozen /\ pc' = "render"
    BY <1>1 DEF IInv, TypeOK, Basis, RetrievalFails, Loading
  <2>2. /\ state' \in States /\ state'.snapshot = None /\ state'.unavailable
        /\ ~state'.frozen /\ state'.adopted = state.adopted
        /\ state'.changed = state.changed
        /\ state'.reloadFailed = state.reloadFailed
    BY <1>1, <2>1 DEF RetrievalFails, MarkUnavailable, States
  <2>3. TypeOK'
    BY <1>1, <2>2 DEF IInv, TypeOK, RetrievalFails, Steps, request
  <2>4. Basis' /\ Entry'
    BY <1>1, <2>1, <2>2 DEF IInv, Basis, Entry, RetrievalFails, Loading, KeyOf,
       SnapshotOf, request
  <2>5. Holds'
    BY <1>1, <2>1, <2>2 DEF IInv, Holds, RetrievalFails, SnapshotOf, request
  <2> QED BY <2>3, <2>4, <2>5 DEF IInv
<1>2. CASE AnswerFails
  <2>1. TypeOK'
    BY <1>2 DEF IInv, TypeOK, AnswerFails, Steps, request, ghosts
  <2>2. Basis' /\ Entry'
    BY <1>2 DEF IInv, Basis, Entry, AnswerFails, Loading, KeyOf, SnapshotOf,
       request, ghosts
  <2>3. Holds'
    BY <1>2 DEF IInv, Holds, AnswerFails, SnapshotOf, request, ghosts
  <2> QED BY <2>1, <2>2, <2>3 DEF IInv
<1> QED BY <1>1, <1>2

\* The page is about the settled basis: a load that differs from it only
\* raises a flag.
LEMMA RenderKeeps == ASSUME IInv, Render PROVE IInv'
<1> USE ConstantsAssumption, NoneAssumption
<1>1. /\ Ensured \in Builds /\ Ensured # None /\ Ensured.release \in Releases
      /\ active' = Ensured /\ during' = during \cup {Ensured}
      /\ state \in States /\ pc = "render" /\ pc' = "idle"
  BY EnsuredTyped DEF IInv, TypeOK, Render, Ensures, Builds
<1>2. /\ state' \in States /\ page' \in Pages /\ page' # None
      /\ page'.banner = state' /\ page'.corpus = Ensured.release
      /\ page'.corpus # None
  <2>1. Adopt(state, Ensured.release) \in States
    BY <1>1, AdoptTyped
  <2> QED BY <1>1, <2>1 DEF Render, Pages
<1>3. /\ state'.unavailable = state.unavailable
      /\ state'.reloadFailed = state.reloadFailed
      /\ state'.frozen = state.frozen
      /\ state.frozen \/ state.unavailable =>
            state'.snapshot = state.snapshot /\ state'.adopted = state.adopted
      /\ ~state.frozen /\ ~state.unavailable =>
            /\ state'.adopted = Ensured.release
            /\ state.adopted # Ensured.release =>
                  state'.snapshot = SnapshotOf(Ensured.release)
            /\ state.adopted = Ensured.release => state'.snapshot = state.snapshot
      /\ state.frozen /\ ~state.unavailable /\ ~state.changed =>
            (state'.changed <=> state.adopted # Ensured.release)
  BY <1>1 DEF Render, Adopt, States
<1>4. TypeOK'
  BY <1>1, <1>2 DEF IInv, TypeOK, Render, Steps, request
<1>5. Basis'
  BY <1>1, <1>2, <1>3 DEF IInv, Basis, Render, Loading, SnapshotOf, States
<1>6. Entry'
  BY DEF IInv, Entry, Render, KeyOf
<1>7. Holds'
  BY <1>1, <1>2, <1>3 DEF IInv, Basis, Holds, Render, SnapshotOf, request
<1> QED BY <1>4, <1>5, <1>6, <1>7 DEF IInv

LEMMA RenderUnavailableKeeps == ASSUME IInv, RenderUnavailable PROVE IInv'
<1> USE ConstantsAssumption, NoneAssumption
<1>1. /\ state \in States /\ state' \in States
      /\ page' \in Pages /\ page' # None /\ page'.banner = state'
      /\ page'.corpus = None /\ pc = "render" /\ pc' = "idle"
  <2>1. state \in States /\ Releases # {}
    BY DEF IInv, TypeOK
  <2>2. state' \in States
    BY <2>1, AdoptTyped DEF RenderUnavailable
  <2> QED BY <2>1, <2>2 DEF RenderUnavailable, Pages
<1>2. /\ state'.frozen = state.frozen /\ state'.adopted = state.adopted
      /\ state'.changed = state.changed
      /\ state.frozen => /\ state'.reloadFailed
                         /\ state'.snapshot = state.snapshot
                         /\ state'.unavailable = state.unavailable
      /\ ~state.frozen => state'.unavailable /\ state'.snapshot = None
  BY <1>1 DEF RenderUnavailable, MarkUnavailable, States
<1>3. TypeOK'
  <2>1. state.frozen \in BOOLEAN
    BY <1>1 DEF States
  <2> QED BY <1>1, <2>1 DEF IInv, TypeOK, RenderUnavailable, Steps, request
<1>4. Basis'
  BY <1>1, <1>2 DEF IInv, Basis, RenderUnavailable, Loading, SnapshotOf
<1>5. Entry'
  BY DEF IInv, Entry, RenderUnavailable, KeyOf
<1>6. Holds'
  BY <1>1, <1>2 DEF IInv, Basis, Holds, RenderUnavailable, SnapshotOf, request
<1> QED BY <1>3, <1>4, <1>5, <1>6 DEF IInv

LEMMA StutterKeeps == ASSUME IInv, UNCHANGED vars PROVE IInv'
BY DEF IInv, TypeOK, Basis, Entry, Holds, KeyOf, SnapshotOf, vars, request, ghosts

LEMMA NextKeeps == IInv /\ [Next]_vars => IInv'
BY InstallKeeps, SwapKeeps, StartKeeps, EnsureKeeps, InspectKeeps, LookupKeeps,
   BuildKeeps, ValidateKeeps, AnswerKeeps, SaveKeeps, FailuresKeep, RenderKeeps,
   RenderUnavailableKeeps, StutterKeeps DEF Next

-----------------------------------------------------------------------------
(* What follows *)

LEMMA Consequences ==
    IInv => /\ JudgedAsLoaded
            /\ DrawnFromActive
            /\ IndexModelInspected
            /\ PageAgrees
            /\ NoUnfoundedClaim
<1> SUFFICES ASSUME IInv
             PROVE  /\ JudgedAsLoaded /\ DrawnFromActive
                    /\ IndexModelInspected /\ PageAgrees /\ NoUnfoundedClaim
  OBVIOUS
<1> USE ConstantsAssumption, NoneAssumption
<1>1. JudgedAsLoaded /\ DrawnFromActive /\ IndexModelInspected
  BY DEF IInv, Holds, JudgedAsLoaded, DrawnFromActive, IndexModelInspected
<1>2. PageAgrees
  <2> SUFFICES ASSUME page # None, saved # None PROVE PageAgrees
    BY DEF PageAgrees
  <2>1. turn # None /\ turn \in Turns /\ turn.build.release \in Releases
    BY DEF IInv, TypeOK, Holds, Turns, Builds
  <2>2. state.snapshot = SnapshotOf(turn.build.release)
    BY <2>1 DEF IInv, Basis, Holds
  <2> QED BY <2>1, <2>2 DEF IInv, Holds, PageAgrees
<1>3. NoUnfoundedClaim
  BY DEF IInv, Basis, Holds, NoUnfoundedClaim, SnapshotOf
<1> QED BY <1>1, <1>2, <1>3

LEMMA InvariantHolds == Spec => []IInv
BY InitHolds, NextKeeps, PTL DEF Spec

\* Whatever is activated while a question is answered, its answer is judged at
\* the time of the release its retriever loaded, and stored as such.
THEOREM BasisIsLoaded == Spec => []JudgedAsLoaded
BY InvariantHolds, Consequences, PTL

\* No stored answer is drawn from a build that was not active in its request.
THEOREM CacheIsCurrent == Spec => []DrawnFromActive
BY InvariantHolds, Consequences, PTL

\* A request that answers has itself found the model that built the index.
THEOREM ModelIsInspected == Spec => []IndexModelInspected
BY InvariantHolds, Consequences, PTL

\* The page states the basis of the answer it shows, and whether the active
\* release has changed since.
THEOREM PageIsTrue == Spec => []PageAgrees
BY InvariantHolds, Consequences, PTL

\* A snapshot is claimed only of a release that was loaded, without a failure.
THEOREM ClaimsAreFounded == Spec => []NoUnfoundedClaim
BY InvariantHolds, Consequences, PTL

-----------------------------------------------------------------------------
(* A retrieval: orders, places and lists. *)

\* A strict total order.
Orders(S, order) ==
    /\ \A x \in S : <<x, x>> \notin order
    /\ \A x, y, z \in S : <<x, y>> \in order /\ <<y, z>> \in order => <<x, z>> \in order
    /\ \A x, y \in S : x # y => <<x, y>> \in order \/ <<y, x>> \in order

\* As many precede an element as its place says, so every place has one.
LEMMA SortedIsBijection ==
    ASSUME NEW S, IsFiniteSet(S), NEW order, Orders(S, order)
    PROVE  /\ Cardinality(S) \in Nat
           /\ Sorted(S, order) \in [1 .. Cardinality(S) -> S]
           /\ IsInjective(Sorted(S, order))
           /\ \A x \in S : \E k \in 1 .. Cardinality(S) : Sorted(S, order)[k] = x
<1> DEFINE n == Cardinality(S)
           below(x) == {y \in S : <<y, x>> \in order}
           size == [x \in S |-> Cardinality(below(x))]
<1>1. n \in Nat
  BY FS_CardinalityType
<1>2. ASSUME NEW x \in S
      PROVE  IsFiniteSet(below(x)) /\ Cardinality(below(x)) \in 0 .. (n - 1)
  <2>1. IsFiniteSet(S \ {x}) /\ Cardinality(S \ {x}) = n - 1
    BY FS_RemoveElement
  <2>2. below(x) \in SUBSET (S \ {x})
    BY DEF Orders
  <2> HIDE DEF below
  <2>3. IsFiniteSet(below(x)) /\ Cardinality(below(x)) <= n - 1
    BY <2>1, <2>2, FS_Subset
  <2> QED BY <1>1, <2>3, FS_CardinalityType
<1>3. ASSUME NEW x \in S, NEW y \in S, <<x, y>> \in order
      PROVE  size[x] < size[y]
  <2>1. below(x) \cup {x} \in SUBSET below(y) /\ x \notin below(x)
    BY <1>3 DEF Orders
  <2>2. /\ IsFiniteSet(below(x) \cup {x})
        /\ Cardinality(below(x) \cup {x}) = Cardinality(below(x)) + 1
    BY <1>2, <2>1, FS_AddElement
  <2>3. Cardinality(below(x) \cup {x}) <= Cardinality(below(y))
    BY <1>2, <2>1, FS_Subset
  <2> HIDE DEF below
  <2> QED BY <1>2, <2>2, <2>3
<1> HIDE DEF below
<1>4. size \in [S -> 0 .. (n - 1)]
  BY <1>2
<1> HIDE DEF size
<1>5. size \in Injection(S, 0 .. (n - 1))
  <2> SUFFICES ASSUME NEW x \in S, NEW y \in S, size[x] = size[y] PROVE x = y
    BY <1>4 DEF Injection, IsInjective
  <2>1. size[x] \in Int /\ size[y] \in Int
    BY <1>4
  <2>2. ~(<<x, y>> \in order) /\ ~(<<y, x>> \in order)
    BY <1>3, <2>1
  <2> QED BY <2>2 DEF Orders
<1>6. size \in Surjection(S, 0 .. (n - 1))
  <2>1. IsFiniteSet(0 .. (n - 1)) /\ Cardinality(0 .. (n - 1)) = n
    BY <1>1, FS_Interval
  <2> QED BY <1>5, <2>1, FS_Injection
<1>7. ASSUME NEW k \in 1 .. n
      PROVE  Sorted(S, order)[k] \in S /\ size[Sorted(S, order)[k]] = k - 1
  <2>1. k - 1 \in 0 .. (n - 1)
    BY <1>1
  <2>2. \E x \in S : size[x] = k - 1
    BY <1>6, <2>1 DEF Surjection
  <2>3. \E x \in S : Cardinality({y \in S : <<y, x>> \in order}) = k - 1
    BY <2>2 DEF size, below
  <2>4. LET z == Sorted(S, order)[k]
        IN  z \in S /\ Cardinality({y \in S : <<y, z>> \in order}) = k - 1
    BY <2>3 DEF Sorted
  <2> QED BY <2>4 DEF size, below
<1>8. DOMAIN Sorted(S, order) = 1 .. n
  BY DEF Sorted
<1>9. Sorted(S, order) \in [1 .. n -> S]
  BY <1>7 DEF Sorted
<1>10. IsInjective(Sorted(S, order))
  BY <1>1, <1>7, <1>8 DEF IsInjective
<1>11. ASSUME NEW x \in S PROVE \E k \in 1 .. n : Sorted(S, order)[k] = x
  <2>1. size[x] + 1 \in 1 .. n
    BY <1>1, <1>4
  <2>2. size[Sorted(S, order)[size[x] + 1]] = size[x] /\ Sorted(S, order)[size[x] + 1] \in S
    BY <1>1, <1>4, <1>7, <2>1
  <2> QED BY <1>5, <2>1, <2>2 DEF Injection, IsInjective
<1> QED BY <1>1, <1>9, <1>10, <1>11

LEMMA PlacesPick ==
    ASSUME NEW A, NEW s \in Seq(A), NEW P \in SUBSET DOMAIN s
    PROVE  /\ Cardinality(P) \in Nat /\ Len(Places(s, P)) = Cardinality(P)
           /\ Places(s, P) \in Seq(A)
           /\ ToSet(Places(s, P)) = {s[i] : i \in P}
           /\ (\A i, j \in P : s[i] = s[j] => i = j) => IsInjective(Places(s, P))
<1> DEFINE order == {p \in P \X P : p[1] < p[2]}
           place == Sorted(P, order)
           n == Cardinality(P)
<1>1. DOMAIN s = 1 .. Len(s) /\ Len(s) \in Nat
  OBVIOUS
<1>2. IsFiniteSet(P)
  <2>1. IsFiniteSet(1 .. Len(s)) /\ P \in SUBSET (1 .. Len(s))
    BY <1>1, FS_Interval
  <2> QED BY <2>1, FS_Subset
<1>3. Orders(P, order)
  <2>1. \A x, y \in P : <<x, y>> \in order <=> x < y
    OBVIOUS
  <2>2. \A x \in P : x \in Int
    BY <1>1
  <2> HIDE DEF order
  <2> QED BY <2>1, <2>2 DEF Orders
<1> HIDE DEF order
<1>4. /\ n \in Nat /\ place \in [1 .. n -> P] /\ IsInjective(place)
      /\ \A x \in P : \E k \in 1 .. n : place[k] = x
  BY <1>2, <1>3, SortedIsBijection
<1>5. Places(s, P) = [k \in 1 .. n |-> s[place[k]]]
  BY DEF Places, order
<1> HIDE DEF place, n
<1>6. Places(s, P) \in [1 .. n -> A]
  BY <1>1, <1>4, <1>5
<1>7. Places(s, P) \in Seq(A) /\ Len(Places(s, P)) = n
  BY <1>4, <1>6
<1>8. ToSet(Places(s, P)) = {s[i] : i \in P}
  <2>1. DOMAIN Places(s, P) = 1 .. n
    BY <1>5
  <2>2. ToSet(Places(s, P)) = {s[place[k]] : k \in 1 .. n}
    BY <1>5, <2>1 DEF ToSet
  <2> QED BY <1>4, <2>2
<1>9. ASSUME \A i, j \in P : s[i] = s[j] => i = j PROVE IsInjective(Places(s, P))
  BY <1>4, <1>5, <1>9 DEF IsInjective
<1> QED BY <1>4, <1>7, <1>8, <1>9 DEF n

LEMMA UpToSize == \A n \in Nat : IsFiniteSet(1 .. n) /\ Cardinality(1 .. n) = n
BY FS_Interval

\* A list: a sequence without repetitions.
IsList(s, A) == s \in Seq(A) /\ IsInjective(s)
Apart(s, t) == \A x \in ToSet(s) : x \notin ToSet(t)

LEMMA ListSize ==
    ASSUME NEW A, NEW s, IsList(s, A)
    PROVE  IsFiniteSet(ToSet(s)) /\ Cardinality(ToSet(s)) = Len(s) /\ Len(s) \in Nat
<1>1. Len(s) \in Nat /\ DOMAIN s = 1 .. Len(s)
  BY DEF IsList
<1>2. IsFiniteSet(1 .. Len(s)) /\ Cardinality(1 .. Len(s)) = Len(s)
  BY <1>1, UpToSize
<1>3. s \in [1 .. Len(s) -> ToSet(s)]
  BY <1>1 DEF ToSet, IsList
<1>4. s \in Injection(1 .. Len(s), ToSet(s)) /\ s \in Surjection(1 .. Len(s), ToSet(s))
  BY <1>1, <1>3 DEF Injection, Surjection, IsList, IsInjective, ToSet
<1> QED BY <1>1, <1>2, <1>4, FS_Surjection

LEMMA TakeList ==
    ASSUME NEW A, NEW s, IsList(s, A), NEW n \in Nat
    PROVE  /\ IsList(Take(s, n), A) /\ ToSet(Take(s, n)) \subseteq ToSet(s)
           /\ Len(Take(s, n)) <= n /\ Len(Take(s, n)) <= Len(s)
           /\ Len(s) <= n => Take(s, n) = s
<1> DEFINE m == IF Len(s) < n THEN Len(s) ELSE n
<1>1. s \in Seq(A) /\ Len(s) \in Nat /\ DOMAIN s = 1 .. Len(s) /\ s = [i \in 1 .. Len(s) |-> s[i]]
  BY DEF IsList
<1>2. m \in 0 .. Len(s) /\ m <= n /\ (Len(s) <= n => m = Len(s))
  BY <1>1
<1> HIDE DEF m
<1>3. Take(s, n) = [i \in 1 .. m |-> s[i]]
  <2>1. Take(s, n) = SubSeq(s, 1, m)
    BY DEF Take, m
  <2> QED BY <1>1, <1>2, <2>1
<1>4. Take(s, n) \in Seq(A) /\ Len(Take(s, n)) = m
  BY <1>1, <1>2, <1>3
<1>5. IsInjective(Take(s, n))
  BY <1>1, <1>2, <1>3 DEF IsList, IsInjective
<1>6. ToSet(Take(s, n)) \subseteq ToSet(s)
  BY <1>1, <1>2, <1>3 DEF ToSet
<1>7. Len(s) <= n => Take(s, n) = s
  BY <1>1, <1>2, <1>3
<1> QED BY <1>1, <1>2, <1>4, <1>5, <1>6, <1>7 DEF IsList

LEMMA JoinLists ==
    ASSUME NEW A, NEW s, NEW t, IsList(s, A), IsList(t, A), Apart(s, t)
    PROVE  /\ IsList(s \o t, A)
           /\ \A x : x \in ToSet(s \o t) <=> x \in ToSet(s) \/ x \in ToSet(t)
           /\ Len(s \o t) = Len(s) + Len(t)
           /\ \A i \in DOMAIN s : (s \o t)[i] = s[i]
<1>1. /\ s \in Seq(A) /\ Len(s) \in Nat /\ DOMAIN s = 1 .. Len(s)
      /\ t \in Seq(A) /\ Len(t) \in Nat /\ DOMAIN t = 1 .. Len(t)
  BY DEF IsList
<1>2. s \o t \in Seq(A) /\ Len(s \o t) = Len(s) + Len(t)
  BY <1>1
<1>3. /\ DOMAIN (s \o t) = 1 .. (Len(s) + Len(t))
      /\ \A i \in 1 .. Len(s) : (s \o t)[i] = s[i]
      /\ \A i \in 1 .. (Len(s) + Len(t)) : i > Len(s) => (s \o t)[i] = t[i - Len(s)]
  BY <1>1
<1>4. \A i \in 1 .. (Len(s) + Len(t)) :
         \/ i \in 1 .. Len(s) /\ (s \o t)[i] = s[i] /\ s[i] \in ToSet(s)
         \/ /\ i > Len(s) /\ i - Len(s) \in 1 .. Len(t)
            /\ (s \o t)[i] = t[i - Len(s)] /\ t[i - Len(s)] \in ToSet(t)
  BY <1>1, <1>3 DEF ToSet
<1>5. IsInjective(s \o t)
  <2> SUFFICES ASSUME NEW i \in 1 .. (Len(s) + Len(t)), NEW j \in 1 .. (Len(s) + Len(t)),
                      (s \o t)[i] = (s \o t)[j]
               PROVE  i = j
    BY <1>3 DEF IsInjective
  <2>1. CASE i \in 1 .. Len(s) /\ j \in 1 .. Len(s)
    BY <1>1, <1>3, <2>1 DEF IsList, IsInjective
  <2>2. CASE i > Len(s) /\ j > Len(s)
    <3>1. t[i - Len(s)] = t[j - Len(s)] /\ i - Len(s) \in 1 .. Len(t) /\ j - Len(s) \in 1 .. Len(t)
      BY <1>1, <1>4, <2>2
    <3>2. i - Len(s) = j - Len(s)
      BY <1>1, <3>1 DEF IsList, IsInjective
    <3> QED BY <1>1, <3>2
  <2> QED BY <1>1, <1>4, <2>1, <2>2 DEF Apart
<1>6. ToSet(s \o t) = ToSet(s) \cup ToSet(t)
  <2>1. ToSet(s \o t) \subseteq ToSet(s) \cup ToSet(t)
    BY <1>3, <1>4 DEF ToSet
  <2>2. ASSUME NEW x \in ToSet(s) PROVE x \in ToSet(s \o t)
    BY <1>1, <1>3 DEF ToSet
  <2>3. ASSUME NEW x \in ToSet(t) PROVE x \in ToSet(s \o t)
    <3>1. PICK k \in 1 .. Len(t) : x = t[k]
      BY <1>1 DEF ToSet
    <3>2. Len(s) + k \in 1 .. (Len(s) + Len(t)) /\ Len(s) + k > Len(s) /\ (Len(s) + k) - Len(s) = k
      BY <1>1
    <3>3. (s \o t)[Len(s) + k] = x
      BY <1>3, <3>1, <3>2
    <3> QED BY <1>3, <3>2, <3>3 DEF ToSet
  <2> QED BY <2>1, <2>2, <2>3
<1> QED BY <1>1, <1>2, <1>3, <1>5, <1>6 DEF IsList

\* What a pass of the selection does: it adds some that are new, up to the limit.
LEMMA AddUpTo ==
    ASSUME NEW A, NEW sel, NEW more, IsList(sel, A), IsList(more, A),
           Apart(sel, more), NEW limit \in Nat, Len(sel) <= limit
    PROVE  LET all == sel \o Take(more, limit - Len(sel))
           IN  /\ IsList(all, A) /\ Len(all) <= limit /\ Len(sel) <= Len(all)
               /\ ToSet(sel) \subseteq ToSet(all) /\ ToSet(all) \subseteq ToSet(sel) \cup ToSet(more)
               /\ Len(sel) = limit => all = sel
<1> DEFINE new == Take(more, limit - Len(sel))
<1>1. Len(sel) \in Nat /\ limit - Len(sel) \in Nat
  BY DEF IsList
<1>2. /\ IsList(new, A) /\ ToSet(new) \subseteq ToSet(more) /\ Len(new) <= limit - Len(sel)
  BY <1>1, TakeList
<1> HIDE DEF new
<1>3. /\ IsList(sel \o new, A) /\ ToSet(sel \o new) = ToSet(sel) \cup ToSet(new)
      /\ Len(sel \o new) = Len(sel) + Len(new)
  <2>1. Apart(sel, new)
    BY <1>2 DEF Apart
  <2>2. IsList(sel \o new, A)
    BY <1>2, <2>1, JoinLists
  <2>3. ToSet(sel \o new) = ToSet(sel) \cup ToSet(new)
    BY <1>2, <2>1, JoinLists, Zenon
  <2>4. Len(sel \o new) = Len(sel) + Len(new)
    BY <1>2, <2>1, JoinLists
  <2> QED BY <2>2, <2>3, <2>4
<1>4. Len(new) \in Nat
  BY <1>2 DEF IsList
<1>5. Len(sel) = limit => sel \o new = sel
  <2>1. SUFFICES ASSUME Len(sel) = limit PROVE sel \o new = sel
    OBVIOUS
  <2>2. Len(new) = 0 /\ new \in Seq(A) /\ sel \in Seq(A)
    BY <1>1, <1>2, <1>4, <2>1 DEF IsList
  <2>3. new = <<>>
    BY <2>2
  <2> QED BY <2>2, <2>3
<1>6. Len(sel \o new) <= limit /\ Len(sel) <= Len(sel \o new)
  BY <1>1, <1>2, <1>3, <1>4
<1>7. QED BY <1>2, <1>3, <1>5, <1>6 DEF new

LEMMA LeastNumber ==
    ASSUME NEW U \in SUBSET Nat, U # {}
    PROVE  Min(U) \in U /\ \A v \in U : Min(U) <= v
<1> DEFINE R == OpToRel(<, Nat)
<1>1. IsWellFoundedOn(R, Nat)
  BY NatLessThanWellFounded
<1>2. \E x \in U : \A y \in U : ~(<<y, x>> \in R)
  BY <1>1, WFMin
<1>3. \A x, y \in Nat : <<y, x>> \in R <=> y < x
  BY DEF OpToRel
<1> HIDE DEF R
<1>4. PICK x \in U : \A y \in U : ~(<<y, x>> \in R)
  BY <1>2
<1>5. \A v \in U : ~(v < x)
  BY <1>3, <1>4
<1>6. \A v \in U : x <= v
  BY <1>5
<1> QED BY <1>6 DEF Min

LEMMA LastExists ==
    ASSUME NEW n \in Nat, NEW U \in SUBSET (1 .. n), U # {}
    PROVE  LastOf(U) \in U
<1> DEFINE V == {n - i : i \in U}
<1>1. V \in SUBSET Nat /\ V # {}
  <2>1. \A i \in U : n - i \in Nat
    OBVIOUS
  <2>2. V \in SUBSET Nat
    BY <2>1
  <2> QED BY <2>2
<1>2. PICK i \in U : \A j \in U : n - i <= n - j
  <2> HIDE DEF V
  <2>1. Min(V) \in V /\ \A v \in V : Min(V) <= v
    BY <1>1, LeastNumber
  <2> USE DEF V
  <2> QED BY <2>1
<1>3. \A j \in U : j <= i
  BY <1>2
<1> QED BY <1>3 DEF LastOf

LEMMA GroupsAre == Len(groups) \in Nat /\ DOMAIN groups = 1 .. Len(groups)
<1> DEFINE names == {"permanent-residence", "exam-comparison", "registration-logistics",
                     "certificate-equivalence"}
<1>1. Intents \in Seq(names)
  BY DEF Intents
<1> HIDE DEF names
<1>2. Intended(question) \in Seq(names)
  BY <1>1, PlacesPick DEF Intended
<1>3. CASE Intended(question) # <<>>
  <2>1. DOMAIN Intended(question) = 1 .. Len(Intended(question)) /\ Len(Intended(question)) \in Nat
    BY <1>2
  <2>2. groups = [i \in DOMAIN Intended(question) |->
                    {Intended(question)[i]} \cup Shared(question)]
    BY <1>3 DEF groups, Groups
  <2>3. DOMAIN groups = 1 .. Len(Intended(question))
    BY <2>1, <2>2
  <2>4. groups \in Seq({{Intended(question)[i]} \cup Shared(question) : i \in DOMAIN Intended(question)})
    BY <2>1, <2>2
  <2> QED BY <2>4
<1>4. CASE Intended(question) = <<>>
  <2>1. groups = <<Shared(question)>> \/ groups = <<>>
    BY <1>4 DEF groups, Groups
  <2> QED BY <2>1
<1> QED BY <1>3, <1>4

\* The first place in a list that covers a group.
LEMMA ForemostIs ==
    ASSUME NEW A, NEW list \in Seq(A), NEW group
    PROVE  /\ Foremost(list, group) \in 0 .. Len(list)
           /\ Foremost(list, group) # 0 => Covers(list[Foremost(list, group)], group)
           /\ Foremost(list, group) = 0 => \A i \in DOMAIN list : ~Covers(list[i], group)
<1> DEFINE I == {i \in 1 .. Len(list) : Covers(list[i], group)}
<1>1. Foremost(list, group) = IF I # {} THEN Min(I) ELSE 0
  BY DEF Foremost, SelectInSeq
<1>2. I # {} => Min(I) \in I
  <2>1. I \in SUBSET Nat
    OBVIOUS
  <2> HIDE DEF I
  <2> QED BY <2>1, LeastNumber
<1>3. DOMAIN list = 1 .. Len(list) /\ Len(list) \in Nat
  OBVIOUS
<1> QED BY <1>1, <1>2, <1>3

\* The best of every group, each once: as many as the groups at most.
LEMMA ReservedPicks ==
    ASSUME NEW A, NEW list, IsList(list, A)
    PROVE  /\ IsList(Reserved(list), A) /\ ToSet(Reserved(list)) \subseteq ToSet(list)
           /\ Len(Reserved(list)) <= Len(groups)
           /\ \A i \in DOMAIN groups : (\E d \in ToSet(list) : Covers(d, groups[i]))
                 => \E d \in ToSet(Reserved(list)) : Covers(d, groups[i])
<1> DEFINE best == [i \in DOMAIN groups |-> Foremost(list, groups[i])]
           new == {i \in DOMAIN groups : best[i] # 0 /\ \A j \in 1 .. (i - 1) : best[j] # best[i]}
           m == Len(groups)
           picks == Places(best, new)
<1>1. m \in Nat /\ DOMAIN groups = 1 .. m
  BY GroupsAre
<1>2. list \in Seq(A) /\ Len(list) \in Nat /\ DOMAIN list = 1 .. Len(list)
  BY DEF IsList
<1>3. \A i \in DOMAIN groups : best[i] \in 0 .. Len(list)
  BY <1>2, ForemostIs
<1>4. best \in Seq(0 .. Len(list)) /\ DOMAIN best = 1 .. m
  BY <1>1, <1>3
<1>5. \A i, j \in new : best[i] = best[j] => i = j
  <2> HIDE DEF best
  <2> SUFFICES ASSUME NEW i \in new, NEW j \in new, best[i] = best[j], i # j PROVE FALSE
    OBVIOUS
  <2>1. i \in 1 .. (j - 1) \/ j \in 1 .. (i - 1)
    BY <1>1
  <2> QED BY <2>1
<1>6. Reserved(list) = [k \in 1 .. Cardinality(new) |-> list[picks[k]]]
  BY DEF Reserved
<1>7. new \in SUBSET DOMAIN best /\ new \in SUBSET (1 .. m)
  BY <1>1
<1>8. \A i \in new : best[i] \in 1 .. Len(list)
  BY <1>2, <1>3, <1>1
<1>9. \A i \in DOMAIN groups : best[i] # 0 => Covers(list[best[i]], groups[i])
  BY <1>2, ForemostIs
<1>10. \A i \in DOMAIN groups : best[i] = 0 => \A k \in DOMAIN list : ~Covers(list[k], groups[i])
  BY <1>2, ForemostIs
<1>11. ASSUME NEW i \in DOMAIN groups, best[i] # 0 PROVE \E j \in new : best[j] = best[i]
  <2> DEFINE same == {j \in 1 .. m : best[j] = best[i]}
  <2>1. same \in SUBSET Nat /\ same # {}
    BY <1>1
  <2>2. Min(same) \in same /\ \A j \in same : Min(same) <= j
    BY <2>1, LeastNumber
  <2>3. \A j \in 1 .. (Min(same) - 1) : best[j] # best[Min(same)]
    <3>1. ASSUME NEW j \in 1 .. (Min(same) - 1), best[j] = best[Min(same)] PROVE FALSE
      <4> HIDE DEF best
      <4>1. j \in 1 .. m /\ best[j] = best[i]
        BY <1>1, <2>2, <3>1
      <4>2. j \in same /\ ~(Min(same) <= j)
        BY <1>1, <2>2, <4>1
      <4> QED BY <2>2, <4>2
    <3> QED BY <3>1
  <2> QED BY <1>1, <1>11, <2>2, <2>3
<1> HIDE DEF best, new
<1>12. /\ Cardinality(new) \in Nat /\ Len(picks) = Cardinality(new)
       /\ picks \in Seq(0 .. Len(list)) /\ ToSet(picks) = {best[i] : i \in new}
       /\ IsInjective(picks)
  BY <1>4, <1>5, <1>7, PlacesPick
<1> HIDE DEF picks
<1>13. DOMAIN picks = 1 .. Cardinality(new)
  BY <1>12
<1>14. \A k \in 1 .. Cardinality(new) : picks[k] \in 1 .. Len(list)
  BY <1>8, <1>12, <1>13 DEF ToSet
<1>15. Cardinality(new) <= m
  <2>1. IsFiniteSet(1 .. m) /\ Cardinality(1 .. m) = m
    BY <1>1, UpToSize
  <2> QED BY <1>7, <2>1, FS_Subset
<1>16. Reserved(list) \in Seq(A) /\ Len(Reserved(list)) = Cardinality(new)
  BY <1>2, <1>6, <1>12, <1>14
<1>17. IsInjective(Reserved(list))
  BY <1>2, <1>6, <1>12, <1>13, <1>14 DEF IsInjective, IsList
<1>18. ToSet(Reserved(list)) = {list[best[i]] : i \in new}
  <2>1. ToSet(Reserved(list)) = {list[picks[k]] : k \in 1 .. Cardinality(new)}
    BY <1>6 DEF ToSet
  <2>2. {picks[k] : k \in 1 .. Cardinality(new)} = {best[i] : i \in new}
    BY <1>12, <1>13 DEF ToSet
  <2> QED BY <2>1, <2>2
<1>19. ToSet(Reserved(list)) \subseteq ToSet(list)
  BY <1>2, <1>8, <1>18 DEF ToSet
<1>20. ASSUME NEW i \in DOMAIN groups, NEW d \in ToSet(list), Covers(d, groups[i])
       PROVE  \E e \in ToSet(Reserved(list)) : Covers(e, groups[i])
  <2>1. best[i] # 0
    BY <1>10, <1>20 DEF ToSet
  <2>2. PICK j \in new : best[j] = best[i]
    BY <1>11, <2>1
  <2>3. list[best[j]] \in ToSet(Reserved(list))
    BY <1>18
  <2> QED BY <1>9, <2>1, <2>2, <2>3
<1> QED BY <1>15, <1>16, <1>17, <1>19, <1>20 DEF IsList

LEMMA PlacesList ==
    ASSUME NEW A, NEW s, IsList(s, A), NEW P \in SUBSET DOMAIN s
    PROVE  IsList(Places(s, P), A) /\ ToSet(Places(s, P)) = {s[i] : i \in P}
<1>1. s \in Seq(A) /\ \A i, j \in P : s[i] = s[j] => i = j
  BY DEF IsList, IsInjective
<1> QED BY <1>1, PlacesPick DEF IsList

LEMMA FilledAdds ==
    ASSUME NEW A, NEW sel, NEW list, IsList(sel, A), IsList(list, A),
           NEW limit \in Nat, Len(sel) <= limit
    PROVE  LET all == Filled(sel, list, limit)
           IN  /\ IsList(all, A) /\ Len(all) <= limit /\ Len(sel) <= Len(all)
               /\ ToSet(sel) \subseteq ToSet(all) /\ ToSet(all) \subseteq ToSet(sel) \cup ToSet(list)
               /\ Len(sel) = limit => all = sel
<1> DEFINE P == {i \in DOMAIN list : ~Contains(sel, list[i])}
           more == Places(list, P)
<1>1. IsList(more, A) /\ ToSet(more) = {list[i] : i \in P}
  BY PlacesList
<1>2. ToSet(more) \subseteq ToSet(list)
  BY <1>1 DEF ToSet
<1>3. Apart(sel, more)
  <2>1. DOMAIN sel = 1 .. Len(sel)
    BY DEF IsList
  <2> QED BY <1>1, <2>1 DEF Apart, ToSet, Contains
<1>4. Filled(sel, list, limit) = sel \o Take(more, limit - Len(sel))
  BY DEF Filled
<1>5. IsList(more, A)
  BY <1>1
<1> HIDE DEF more
<1> QED BY <1>2, <1>3, <1>4, <1>5, AddUpTo

LEMMA WithSourcesAdds ==
    ASSUME NEW A, NEW sel, NEW list, IsList(sel, A), IsList(list, A),
           NEW limit \in Nat, Len(sel) <= limit
    PROVE  LET all == WithSources(sel, list, limit)
           IN  /\ IsList(all, A) /\ Len(all) <= limit /\ Len(sel) <= Len(all)
               /\ ToSet(sel) \subseteq ToSet(all) /\ ToSet(all) \subseteq ToSet(sel) \cup ToSet(list)
               /\ Len(sel) = limit => all = sel
<1> DEFINE P == {i \in DOMAIN list :
                    /\ docs[list[i]].source \notin Sources(sel)
                    /\ \A j \in 1 .. (i - 1) : docs[list[j]].source # docs[list[i]].source}
           more == Places(list, P)
<1>1. IsList(more, A) /\ ToSet(more) = {list[i] : i \in P}
  BY PlacesList
<1>2. ToSet(more) \subseteq ToSet(list)
  BY <1>1 DEF ToSet
<1>3. Apart(sel, more)
  BY <1>1 DEF Apart, ToSet, Sources
<1>4. WithSources(sel, list, limit) = sel \o Take(more, limit - Len(sel))
  BY DEF WithSources
<1>5. IsList(more, A)
  BY <1>1
<1> HIDE DEF more
<1> QED BY <1>2, <1>3, <1>4, <1>5, AddUpTo

\* Sorting by rank neither loses nor adds a result.
LEMMA InOrderSorts ==
    ASSUME NEW A, NEW sel, NEW list, IsList(sel, A), IsList(list, A)
    PROVE  /\ IsList(InOrder(sel, list), A) /\ ToSet(InOrder(sel, list)) = ToSet(sel)
           /\ Len(InOrder(sel, list)) = Len(sel)
<1> DEFINE P == {i \in DOMAIN list : Contains(sel, list[i])}
           Q == {i \in DOMAIN sel : ~Contains(list, sel[i])}
           front == Places(list, P)
           back == Places(sel, Q)
<1>1. IsList(front, A) /\ ToSet(front) = {list[i] : i \in P}
  BY PlacesList
<1>2. IsList(back, A) /\ ToSet(back) = {sel[i] : i \in Q}
  BY PlacesList
<1>3. DOMAIN sel = 1 .. Len(sel) /\ DOMAIN list = 1 .. Len(list)
  BY DEF IsList
<1>4. \A x : x \in ToSet(front) <=> x \in ToSet(sel) /\ x \in ToSet(list)
  BY <1>1, <1>3 DEF ToSet, Contains
<1>5. \A x : x \in ToSet(back) <=> x \in ToSet(sel) /\ x \notin ToSet(list)
  BY <1>2, <1>3 DEF ToSet, Contains
<1>6. InOrder(sel, list) = front \o back
  BY DEF InOrder
<1>11. IsList(front, A) /\ IsList(back, A)
  BY <1>1, <1>2
<1> HIDE DEF front, back
<1>7. Apart(front, back)
  BY <1>4, <1>5 DEF Apart
<1>8. /\ IsList(InOrder(sel, list), A)
      /\ \A x : x \in ToSet(InOrder(sel, list)) <=> x \in ToSet(front) \/ x \in ToSet(back)
  BY <1>6, <1>7, <1>11, JoinLists
<1>9. ToSet(InOrder(sel, list)) = ToSet(sel)
  BY <1>4, <1>5, <1>8
<1>10. Len(InOrder(sel, list)) = Len(sel)
  BY <1>8, <1>9, ListSize
<1> QED BY <1>8, <1>9, <1>10

\* A list keeps a document for every group that another one has a document for.
Keeps(list, S) ==
    \A i \in DOMAIN groups :
        (\E d \in S : Covers(d, groups[i])) => \E d \in ToSet(list) : Covers(d, groups[i])

LEMMA ChannelKeeps ==
    ASSUME NEW A, NEW list, IsList(list, A)
    PROVE  /\ IsList(Channel(list), A) /\ ToSet(Channel(list)) \subseteq ToSet(list)
           /\ Len(groups) <= ChannelLimit => Keeps(Channel(list), ToSet(list))
<1>1. ChannelLimit \in Nat
  BY RetrievalAssumption
<1>2. CASE groups = <<>>
  <2>1. Channel(list) = Take(list, ChannelLimit)
    BY <1>2 DEF Channel
  <2>2. DOMAIN groups = {}
    BY <1>2
  <2> QED BY <1>1, <2>1, <2>2, TakeList DEF Keeps
<1>3. CASE groups # <<>>
  <2> DEFINE first == Take(Reserved(list), ChannelLimit)
             all == Filled(first, list, ChannelLimit)
  <2>1. Channel(list) = InOrder(all, list)
    BY <1>3 DEF Channel
  <2>2. IsList(Reserved(list), A) /\ ToSet(Reserved(list)) \subseteq ToSet(list)
        /\ Len(Reserved(list)) <= Len(groups) /\ Keeps(Reserved(list), ToSet(list))
    BY ReservedPicks DEF Keeps
  <2>3. /\ IsList(first, A) /\ ToSet(first) \subseteq ToSet(Reserved(list))
        /\ Len(first) <= ChannelLimit
        /\ Len(Reserved(list)) <= ChannelLimit => first = Reserved(list)
    BY <1>1, <2>2, TakeList
  <2> HIDE DEF first
  <2>4. /\ IsList(all, A) /\ ToSet(first) \subseteq ToSet(all)
        /\ ToSet(all) \subseteq ToSet(first) \cup ToSet(list)
    BY <1>1, <2>3, FilledAdds
  <2> HIDE DEF all
  <2>5. IsList(Channel(list), A) /\ ToSet(Channel(list)) = ToSet(all)
    BY <2>1, <2>4, InOrderSorts
  <2>6. ASSUME Len(groups) <= ChannelLimit PROVE Keeps(Channel(list), ToSet(list))
    <3>1. Len(groups) \in Nat /\ Len(Reserved(list)) \in Nat
      BY <2>2, GroupsAre DEF IsList
    <3>2. first = Reserved(list)
      BY <1>1, <2>2, <2>3, <2>6, <3>1
    <3> QED BY <2>2, <2>4, <2>5, <3>2 DEF Keeps
  <2> QED BY <2>2, <2>3, <2>4, <2>5, <2>6
<1> QED BY <1>2, <1>3

LEMMA ExamSets ==
    \A S \in SUBSET Examinations : IsFiniteSet(S) /\ Cardinality(S) \in Nat
<1>1. IsFiniteSet({"pd1"} \cup {"pd2"} \cup {"pd3"} \cup {"studieproeven"})
  <2>1. \A S, x : IsFiniteSet(S) => IsFiniteSet(S \cup {x})
    BY FS_AddElement
  <2>2. IsFiniteSet({"pd1"})
    BY FS_Singleton
  <2>3. IsFiniteSet({"pd1"} \cup {"pd2"})
    BY <2>1, <2>2
  <2>4. IsFiniteSet({"pd1"} \cup {"pd2"} \cup {"pd3"})
    BY <2>1, <2>3
  <2> QED BY <2>1, <2>4
<1>2. Examinations = {"pd1"} \cup {"pd2"} \cup {"pd3"} \cup {"studieproeven"}
  BY DEF Examinations
<1>3. IsFiniteSet(Examinations)
  BY <1>1, <1>2
<1> QED BY <1>3, FS_Subset, FS_CardinalityType

Asked == corpus \in Corpora /\ question \in Questions

LEMMA DocumentsAre ==
    ASSUME Asked
    PROVE  /\ Len(docs) \in Nat /\ Ids = 1 .. Len(docs)
           /\ IsFiniteSet(Ids) /\ Ids \subseteq Nat
           /\ \A d \in Ids : docs[d].index \in Nat /\ docs[d].exams \subseteq Examinations
           /\ question.exams \subseteq Examinations
<1>1. docs \in Seq(Range(docs)) /\ \A d \in DOMAIN docs :
          docs[d].index \in Nat /\ docs[d].exams \subseteq Examinations
  BY RetrievalAssumption DEF Asked, docs
<1> HIDE DEF docs
<1>2. Len(docs) \in Nat /\ DOMAIN docs = 1 .. Len(docs)
  BY <1>1
<1>3. IsFiniteSet(1 .. Len(docs))
  BY <1>2, UpToSize
<1>4. question.exams \subseteq Examinations
  BY RetrievalAssumption DEF Asked
<1> QED BY <1>1, <1>2, <1>3, <1>4 DEF Ids

-----------------------------------------------------------------------------
(* The fusion ranks what the rankings hold, each once. *)

Together(rankings) == UNION {ToSet(rankings[c]) : c \in DOMAIN rankings}

LEMMA WeightIs ==
    ASSUME Asked, NEW rankings, NEW n \in Nat, DOMAIN rankings = 1 .. n,
           \A c \in 1 .. n : rankings[c] \in Seq(Ids), NEW d \in Together(rankings)
    PROVE  /\ d \in Ids /\ Score(rankings, d) \in Int
           /\ Best(rankings, d) \in Int /\ First(rankings, d) \in Int
<1>1. \A c \in 1 .. n : Len(rankings[c]) \in Nat /\ DOMAIN rankings[c] = 1 .. Len(rankings[c])
  OBVIOUS
<1>2. Ranking(rankings, d) \in SUBSET Nat /\ Ranking(rankings, d) # {}
  <2>1. PICK c \in 1 .. n : d \in ToSet(rankings[c])
    BY DEF Together
  <2>2. Contains(rankings[c], d)
    BY <1>1, <2>1 DEF Contains, ToSet
  <2>3. Ranking(rankings, d) \in SUBSET Nat
    BY DEF Ranking
  <2> QED BY <2>1, <2>2, <2>3 DEF Ranking
<1>3. d \in Ids
  BY <1>1 DEF Together, ToSet
<1>4. ASSUME NEW c \in Ranking(rankings, d) PROVE Rank(rankings[c], d) \in Nat \ {0}
  <2> DEFINE I == {i \in 1 .. Len(rankings[c]) : rankings[c][i] = d}
  <2>1. I # {} /\ I \in SUBSET Nat
    BY DEF Ranking, Contains
  <2>2. Rank(rankings[c], d) = Min(I)
    BY <2>1 DEF Rank, SelectInSeq
  <2>3. Min(I) \in I
    <3> HIDE DEF I
    <3> QED BY <2>1, LeastNumber
  <2> QED BY <1>1, <2>2, <2>3 DEF Ranking
<1>5. First(rankings, d) \in Int
  BY <1>2, LeastNumber DEF First
<1>6. Best(rankings, d) \in Int
  <2> DEFINE R == {Rank(rankings[c], d) : c \in Ranking(rankings, d)}
  <2>1. R \in SUBSET Nat /\ R # {}
    BY <1>2, <1>4
  <2>2. Best(rankings, d) = Min(R)
    BY DEF Best
  <2> HIDE DEF R
  <2>3. Min(R) \in R
    BY <2>1, LeastNumber
  <2>4. Min(R) \in Nat
    BY <2>1, <2>3
  <2> QED BY <2>2, <2>4
<1>7. Score(rankings, d) \in Int
  <2> DEFINE Part(c) == IF c \in Ranking(rankings, d)
                        THEN Scale \div (K + Rank(rankings[c], d)) ELSE 0
  <2>1. \A c \in 1 .. 3 : Part(c) \in Int
    <3> SUFFICES ASSUME NEW c \in 1 .. 3, c \in Ranking(rankings, d)
                 PROVE  Scale \div (K + Rank(rankings[c], d)) \in Int
      OBVIOUS
    <3>1. K + Rank(rankings[c], d) \in Nat \ {0} /\ Scale \in Nat
      BY <1>4, RetrievalAssumption
    <3> HIDE DEF Part
    <3> QED BY <3>1
  <2>2. Score(rankings, d) = Part(1) + Part(2) + Part(3)
    BY DEF Score
  <2> HIDE DEF Part
  <2> QED BY <2>1, <2>2
<1> QED BY <1>3, <1>5, <1>6, <1>7

Lower(v, w) ==
    \/ v[1] < w[1]
    \/ v[1] = w[1] /\ v[2] < w[2]
    \/ v[1] = w[1] /\ v[2] = w[2] /\ v[3] < w[3]
    \/ v[1] = w[1] /\ v[2] = w[2] /\ v[3] = w[3] /\ v[4] < w[4]

LEMMA BeforeIs == \A v, w : Before(v, w) <=> Lower(v, w)
<1> SUFFICES ASSUME NEW v, NEW w PROVE Before(v, w) <=> Lower(v, w)
  OBVIOUS
<1> DEFINE Here(i) == v[i] < w[i] /\ \A j \in 1 .. (i - 1) : v[j] = w[j]
<1>1. Before(v, w) <=> Here(1) \/ Here(2) \/ Here(3) \/ Here(4)
  BY DEF Before
<1>2. 1 .. (1 - 1) = {} /\ 1 .. (2 - 1) = {1} /\ 1 .. (3 - 1) = {1, 2} /\ 1 .. (4 - 1) = {1, 2, 3}
  OBVIOUS
<1> QED BY <1>1, <1>2 DEF Lower

LEMMA FusionLists ==
    ASSUME Asked, NEW rankings, NEW n \in Nat, DOMAIN rankings = 1 .. n,
           \A c \in 1 .. n : rankings[c] \in Seq(Ids)
    PROVE  /\ IsList(Fusion(rankings), Ids)
           /\ ToSet(Fusion(rankings)) = Together(rankings)
<1> DEFINE all == Together(rankings)
           W(d) == Weight(rankings, d)
           weights == {W(d) : d \in all}
           order == {p \in weights \X weights : Before(p[1], p[2])}
           sorted == Sorted(weights, order)
           size == Cardinality(weights)
<1>1. \A d \in all : /\ d \in Ids /\ W(d)[4] = d
                     /\ W(d)[1] \in Int /\ W(d)[2] \in Int /\ W(d)[3] \in Int
  BY WeightIs DEF Weight
<1>2. Ids \subseteq Int /\ IsFiniteSet(Ids)
  BY DocumentsAre
<1> HIDE DEF all, W
<1>3. IsFiniteSet(weights)
  <2>1. IsFiniteSet(all)
    <3>1. all \in SUBSET Ids
      BY <1>1
    <3> QED BY <1>2, <3>1, FS_Subset
  <2>2. [d \in all |-> W(d)] \in Surjection(all, weights)
    BY DEF Surjection
  <2> QED BY <2>1, <2>2, FS_Surjection
<1>4. Orders(weights, order)
  <2>1. \A v \in weights : /\ v = W(v[4]) /\ v[4] \in Int
                           /\ v[1] \in Int /\ v[2] \in Int /\ v[3] \in Int
    BY <1>1, <1>2
  <2>2. \A v, w \in weights : <<v, w>> \in order <=> Before(v, w)
    OBVIOUS
  <2>3. \A v, w \in weights : v # w => v[4] # w[4]
    BY <2>1
  <2> HIDE DEF weights, order
  <2>4. \A v \in weights : <<v, v>> \notin order
    BY <2>1, <2>2, BeforeIs DEF Lower
  <2>5. \A u, v, w \in weights : <<u, v>> \in order /\ <<v, w>> \in order => <<u, w>> \in order
    <3> SUFFICES ASSUME NEW u \in weights, NEW v \in weights, NEW w \in weights,
                        Before(u, v), Before(v, w)
                 PROVE  Before(u, w)
      BY <2>2
    <3>1. Lower(u, v) /\ Lower(v, w)
      BY BeforeIs
    <3>2. /\ u[1] \in Int /\ u[2] \in Int /\ u[3] \in Int /\ u[4] \in Int
          /\ v[1] \in Int /\ v[2] \in Int /\ v[3] \in Int /\ v[4] \in Int
          /\ w[1] \in Int /\ w[2] \in Int /\ w[3] \in Int /\ w[4] \in Int
      BY <2>1
    <3>3. Lower(u, w)
      <4> USE <3>1, <3>2 DEF Lower
      <4>1. CASE u[1] < v[1] \/ v[1] < w[1]
        <5>1. u[1] <= v[1] /\ v[1] <= w[1]
          BY <4>1
        <5>2. u[1] < w[1]
          BY <4>1, <5>1
        <5> QED BY <5>2
      <4>2. CASE u[1] = v[1] /\ v[1] = w[1] /\ (u[2] < v[2] \/ v[2] < w[2])
        <5>1. v[2] <= w[2] /\ u[2] <= v[2]
          BY <4>2
        <5>2. u[1] = w[1] /\ u[2] < w[2]
          BY <4>2, <5>1
        <5> QED BY <5>2
      <4>3. CASE u[1] = v[1] /\ v[1] = w[1] /\ u[2] = v[2] /\ v[2] = w[2]
        BY <4>3
      <4> QED BY <4>1, <4>2, <4>3
    <3> QED BY <3>3, BeforeIs
  <2>6. \A v, w \in weights : v # w => <<v, w>> \in order \/ <<w, v>> \in order
    <3> SUFFICES ASSUME NEW v \in weights, NEW w \in weights, v # w
                 PROVE  Before(v, w) \/ Before(w, v)
      BY <2>2
    <3>1. /\ v[1] \in Int /\ v[2] \in Int /\ v[3] \in Int /\ v[4] \in Int
          /\ w[1] \in Int /\ w[2] \in Int /\ w[3] \in Int /\ w[4] \in Int
          /\ v[4] # w[4]
      BY <2>1, <2>3
    <3>2. Lower(v, w) \/ Lower(w, v)
      BY <3>1 DEF Lower
    <3> QED BY <3>2, BeforeIs
  <2> QED BY <2>4, <2>5, <2>6 DEF Orders
<1> HIDE DEF order, weights
<1>5. /\ size \in Nat /\ sorted \in [1 .. size -> weights] /\ IsInjective(sorted)
      /\ \A v \in weights : \E k \in 1 .. size : sorted[k] = v
  BY <1>3, <1>4, SortedIsBijection
<1>6. Fusion(rankings) = [k \in DOMAIN sorted |-> sorted[k][4]]
  BY DEF Fusion, all, W, weights, order, Together
<1> HIDE DEF sorted, size
<1>7. \A v \in weights : v[4] \in all /\ v = W(v[4])
  BY <1>1 DEF weights
<1>8. Fusion(rankings) = [k \in 1 .. size |-> sorted[k][4]]
  BY <1>5, <1>6
<1>9. \A k \in 1 .. size : sorted[k] \in weights
  BY <1>5
<1>10. Fusion(rankings) \in Seq(Ids)
  BY <1>1, <1>5, <1>7, <1>8, <1>9
<1>11. IsInjective(Fusion(rankings))
  <2> SUFFICES ASSUME NEW i \in 1 .. size, NEW j \in 1 .. size, sorted[i][4] = sorted[j][4]
               PROVE  i = j
    BY <1>8 DEF IsInjective
  <2>1. sorted[i] = sorted[j]
    BY <1>7, <1>9
  <2> QED BY <1>5, <2>1 DEF IsInjective
<1>12. ToSet(Fusion(rankings)) = all
  <2>1. ToSet(Fusion(rankings)) = {sorted[k][4] : k \in 1 .. size}
    BY <1>8 DEF ToSet
  <2>2. \A d \in all : W(d) \in weights /\ W(d)[4] = d
    BY <1>1 DEF weights
  <2> QED BY <1>5, <1>7, <1>9, <2>1, <2>2
<1> QED BY <1>10, <1>11, <1>12 DEF IsList, all

-----------------------------------------------------------------------------
(* The other steps between the channels and the selection. *)

\* The passages of a source are put in another order, each in one place.
LEMMA PreferredSorts ==
    ASSUME Asked, NEW list, IsList(list, Ids)
    PROVE  IsList(Preferred(list), Ids) /\ ToSet(Preferred(list)) = ToSet(list)
<1> DEFINE n == Len(list)
           own(i) == OfSource(list, i)
           order(i) == {p \in own(i) \X own(i) : Sooner(list, p[1], p[2])}
           sorted(i) == Sorted(own(i), order(i))
           upto(i) == {j \in own(i) : j <= i}
           place(i) == sorted(i)[Cardinality(upto(i))]
<1>1. list \in Seq(Ids) /\ n \in Nat /\ DOMAIN list = 1 .. n
  BY DEF IsList
<1>2. IsFiniteSet(1 .. n) /\ Cardinality(1 .. n) = n
  BY <1>1, UpToSize
<1>3. \A i \in 1 .. n : About(list[i]) \in Nat
  <2> SUFFICES ASSUME NEW i \in 1 .. n PROVE About(list[i]) \in Nat
    OBVIOUS
  <2>1. list[i] \in Ids
    BY <1>1
  <2>2. docs[list[i]].exams \in SUBSET Examinations
    BY <2>1, DocumentsAre
  <2>3. Cardinality(docs[list[i]].exams) \in Nat
    BY <2>2, ExamSets
  <2> QED BY <2>3 DEF About
<1>4. ASSUME NEW i \in 1 .. n
      PROVE  /\ own(i) \in SUBSET (1 .. n) /\ IsFiniteSet(own(i)) /\ i \in own(i)
             /\ \A j \in own(i) : own(j) = own(i)
  <2>1. own(i) \in SUBSET (1 .. n) /\ i \in own(i)
    BY <1>1 DEF OfSource
  <2>2. \A j \in own(i) : own(j) = own(i)
    BY DEF OfSource
  <2> HIDE DEF own
  <2> QED BY <1>2, <2>1, <2>2, FS_Subset
<1> HIDE DEF own
<1>5. ASSUME NEW i \in 1 .. n
      PROVE  /\ Cardinality(own(i)) \in Nat
             /\ sorted(i) \in [1 .. Cardinality(own(i)) -> own(i)] /\ IsInjective(sorted(i))
  <2>1. \A j, k \in own(i) : <<j, k>> \in order(i) <=> Sooner(list, j, k)
    OBVIOUS
  <2> HIDE DEF order
  <2>2. \A j \in own(i) : About(list[j]) \in Nat /\ j \in Nat
    BY <1>1, <1>3, <1>4
  <2>3. Orders(own(i), order(i))
    BY <2>1, <2>2 DEF Orders, Sooner
  <2> QED BY <1>4, <2>3, SortedIsBijection
<1>6. ASSUME NEW i \in 1 .. n PROVE Cardinality(upto(i)) \in 1 .. Cardinality(own(i))
  <2>1. upto(i) \in SUBSET own(i) /\ i \in upto(i)
    BY <1>4
  <2> HIDE DEF upto
  <2>2. IsFiniteSet(upto(i)) /\ Cardinality(upto(i)) <= Cardinality(own(i))
    BY <1>4, <2>1, FS_Subset
  <2>3. Cardinality(upto(i)) \in Nat /\ Cardinality(upto(i)) # 0
    BY <2>1, <2>2, FS_CardinalityType, FS_EmptySet
  <2> QED BY <1>5, <2>2, <2>3
<1>7. ASSUME NEW i \in 1 .. n, NEW j \in own(i), Cardinality(upto(i)) = Cardinality(upto(j))
      PROVE  i = j
  <2>1. own(j) = own(i) /\ j \in 1 .. n /\ j \in own(j)
    BY <1>4
  <2>2. ASSUME NEW k \in 1 .. n, NEW l \in own(k), own(l) = own(k), k < l
        PROVE  Cardinality(upto(k)) < Cardinality(upto(l))
    <3>1. upto(k) \in SUBSET upto(l) /\ upto(k) # upto(l) /\ upto(l) \in SUBSET own(k)
      <4>1. l \in upto(l) /\ l \notin upto(k)
        BY <1>1, <1>4, <2>2
      <4>2. upto(k) \in SUBSET upto(l)
        BY <1>1, <1>4, <2>2
      <4> QED BY <2>2, <4>1, <4>2
    <3> HIDE DEF upto
    <3>2. IsFiniteSet(upto(l))
      BY <1>4, <3>1, FS_Subset
    <3>3. /\ IsFiniteSet(upto(k)) /\ Cardinality(upto(k)) <= Cardinality(upto(l))
          /\ Cardinality(upto(l)) # Cardinality(upto(k))
      BY <3>1, <3>2, FS_Subset
    <3> QED BY <3>2, <3>3, FS_CardinalityType
  <2>4. Cardinality(upto(i)) \in Nat /\ Cardinality(upto(j)) \in Nat
    BY <1>5, <1>6, <2>1
  <2> HIDE DEF upto
  <2>5. ~(i < j) /\ ~(j < i)
    BY <1>4, <1>7, <2>1, <2>2, <2>4
  <2> QED BY <1>1, <2>1, <2>5
<1> HIDE DEF sorted, upto
<1>8. \A i \in 1 .. n : place(i) \in own(i) /\ place(i) \in 1 .. n
  BY <1>4, <1>5, <1>6
<1>9. ASSUME NEW i \in 1 .. n, NEW j \in 1 .. n, place(i) = place(j) PROVE i = j
  <2>1. own(place(i)) = own(i) /\ own(place(j)) = own(j)
    BY <1>4, <1>8
  <2>2. own(i) = own(j) /\ j \in own(i)
    BY <1>4, <1>9, <2>1
  <2>3. sorted(i) = sorted(j)
    BY <2>2 DEF sorted, order
  <2>4. Cardinality(upto(i)) = Cardinality(upto(j))
    <3>1. sorted(i)[Cardinality(upto(i))] = sorted(i)[Cardinality(upto(j))]
      BY <1>9, <2>3
    <3>2. /\ Cardinality(upto(i)) \in 1 .. Cardinality(own(i))
          /\ Cardinality(upto(j)) \in 1 .. Cardinality(own(i))
      BY <1>6, <2>2
    <3> QED BY <1>5, <3>1, <3>2 DEF IsInjective
  <2> QED BY <1>7, <2>2, <2>4
<1> DEFINE new == [i \in 1 .. n |-> list[place(i)]]
           map == [i \in 1 .. n |-> place(i)]
<1>10. map \in Injection(1 .. n, 1 .. n)
  BY <1>8, <1>9 DEF Injection, IsInjective
<1>11. map \in Surjection(1 .. n, 1 .. n)
  BY <1>2, <1>10, FS_Injection
<1>12. \A j \in 1 .. n : \E i \in 1 .. n : place(i) = j
  BY <1>11 DEF Surjection
<1>13. Preferred(list) = list \/ Preferred(list) = new
  BY <1>1 DEF Preferred, place, sorted, order, own, upto
<1> HIDE DEF place
<1>14. new \in Seq(Ids)
  BY <1>1, <1>8
<1>15. IsInjective(new)
  BY <1>1, <1>8, <1>9 DEF IsInjective, IsList
<1>16. ToSet(new) = ToSet(list)
  BY <1>1, <1>8, <1>12 DEF ToSet
<1> QED BY <1>13, <1>14, <1>15, <1>16 DEF IsList

LEMMA RepresentativesFit ==
    ASSUME Asked, NEW list, IsList(list, Ids), NEW titles \in SetToAllKPermutations(Sources(list))
    PROVE  /\ Representatives(list, titles) \in Seq(Ids)
           /\ ToSet(Representatives(list, titles)) \subseteq ToSet(list)
<1> DEFINE n == Len(list)
           rep(i) == SelectInSeq(list, LAMBDA d : docs[d].source = titles[i])
<1>1. list \in Seq(Ids) /\ n \in Nat /\ DOMAIN list = 1 .. n
  BY DEF IsList
<1>2. PICK S \in SUBSET Sources(list) : titles \in SetToSeqs(S)
  BY DEF SetToAllKPermutations
<1>3. IsFiniteSet(S)
  <2> DEFINE source == [i \in 1 .. n |-> docs[list[i]].source]
  <2>1. source \in Surjection(1 .. n, Sources(list))
    BY <1>1 DEF Surjection, Sources
  <2>2. IsFiniteSet(1 .. n)
    BY <1>1, UpToSize
  <2> HIDE DEF source
  <2>3. IsFiniteSet(Sources(list))
    BY <2>1, <2>2, FS_Surjection
  <2> QED BY <2>3, FS_Subset
<1>4. PICK m \in Nat : titles \in [1 .. m -> S]
  BY <1>2, <1>3, FS_CardinalityType DEF SetToSeqs
<1>5. ASSUME NEW i \in 1 .. m PROVE rep(i) \in 1 .. n
  <2> DEFINE I == {k \in 1 .. Len(list) : docs[list[k]].source = titles[i]}
  <2>1. titles[i] \in Sources(list)
    BY <1>4
  <2>2. I # {} /\ I \in SUBSET Nat
    BY <1>1, <2>1 DEF Sources
  <2>3. rep(i) = Min(I)
    BY <2>2 DEF SelectInSeq
  <2>4. Min(I) \in I
    <3> HIDE DEF I
    <3> QED BY <2>2, LeastNumber
  <2> QED BY <2>3, <2>4
<1>6. Representatives(list, titles) = [i \in 1 .. m |-> list[rep(i)]]
  BY <1>4 DEF Representatives
<1> HIDE DEF rep
<1>7. \A i \in 1 .. m : list[rep(i)] \in Ids /\ list[rep(i)] \in ToSet(list)
  BY <1>1, <1>5 DEF ToSet
<1>8. Representatives(list, titles) \in Seq(Ids)
  BY <1>6, <1>7
<1>9. ToSet(Representatives(list, titles)) = {list[rep(i)] : i \in 1 .. m}
  BY <1>6 DEF ToSet
<1> QED BY <1>7, <1>8, <1>9

-----------------------------------------------------------------------------
(* What holds at each step of a retrieval. *)

\* A selection of results.
Selection(sel) ==
    /\ IsList(sel, Ids) /\ Len(sel) <= Limit
    /\ ToSet(sel) \subseteq Candidates /\ ToSet(Protected) \subseteq ToSet(sel)

Supported ==
    /\ phase \in {"found", "ranked"} =>
          IsList(lexical, Ids) /\ ToSet(lexical) \subseteq Candidates
    /\ phase = "ranked" =>
          /\ IsList(dense, Ids) /\ ToSet(dense) \subseteq Candidates
          /\ Len(groups) <= ChannelLimit => Keeps(dense, Candidates)
    /\ phase \in {"fused", "covering", "selected", "done"} =>
          /\ IsList(ranked, Ids) /\ ToSet(ranked) \subseteq Candidates
          /\ Len(groups) <= ChannelLimit => Keeps(ranked, Candidates)
    /\ phase \in {"covering", "selected"} => Selection(chosen)
    /\ phase \in {"selected", "done"} => Selection(result)
    /\ phase = "selected" => ToSet(Protected) \subseteq kept
    /\ next \in Nat \ {0}

\* The examinations that were covered before a place was given, and what a
\* document would add to them.
Had(s, n) == UNION {docs[s[i]].exams : i \in 1 .. n}
Added(d, had) == Cardinality(docs[d].exams \cap (question.exams \ had))

\* Beyond the protected places, each went to a document that added most.
Greedy(s) ==
    /\ Len(Protected) <= Len(s) /\ \A i \in 1 .. Len(Protected) : s[i] = Protected[i]
    /\ \A j \in (Len(Protected) + 1) .. Len(s) :
          /\ Added(s[j], Had(s, j - 1)) > 0
          /\ \A d \in ToSet(ranked) : Added(d, Had(s, j - 1)) <= Added(s[j], Had(s, j - 1))

Unserved(s) == \E d \in ToSet(ranked) : docs[d].exams \cap (question.exams \ Exams(s)) # {}

Covered ==
    /\ phase = "covering" => Greedy(chosen)
    /\ phase \in {"selected", "done"} /\ corpus.chunked =>
          /\ IsList(chosen, Ids) /\ Len(chosen) <= Len(result)
          /\ Unserved(chosen) => Len(chosen) = Limit /\ Greedy(chosen)
          /\ Exams(chosen) \cap question.exams \subseteq Exams(result)

RetrievalInv == Asked /\ Supported /\ Covered

LEMMA InputsStay ==
    ASSUME UNCHANGED <<corpus, question, evaluatedAt>>
    PROVE  /\ docs' = docs /\ Ids' = Ids /\ groups' = groups /\ Candidates' = Candidates
           /\ Asked => Asked'
<1>1. docs' = docs /\ Ids' = Ids /\ groups' = groups
  BY DEF docs, Ids, groups
<1>2. \A d : Matches(d)' <=> Matches(d)
  BY <1>1 DEF Matches, Covers
<1>3. \A d : Eligible(d)' <=> Eligible(d)
  BY <1>1 DEF Eligible
<1>4. Candidates' = Candidates
  BY <1>1, <1>2, <1>3 DEF Candidates
<1> QED BY <1>1, <1>4 DEF Asked

LEMMA ProtectedStays ==
    ASSUME UNCHANGED <<corpus, question, evaluatedAt, ranked>>
    PROVE  Protected' = Protected
<1>1. docs' = docs /\ groups' = groups
  BY InputsStay
<1>2. \A group : Foremost(ranked, group)' = Foremost(ranked, group)
  BY <1>1 DEF Foremost, SelectInSeq, Covers
<1> DEFINE best == [i \in DOMAIN groups |-> Foremost(ranked, groups[i])]
           Picked(b) ==
               LET new == {i \in DOMAIN groups : b[i] # 0 /\ \A j \in 1 .. (i - 1) : b[j] # b[i]}
               IN  [k \in 1 .. Cardinality(new) |-> ranked[Places(b, new)[k]]]
<1>3. Reserved(ranked)' = Reserved(ranked)
  <2>1. best' = best
    BY <1>1, <1>2
  <2>2. \A b : Picked(b)' = Picked(b)
    BY <1>1
  <2>3. Reserved(ranked) = Picked(best) /\ Reserved(ranked)' = (Picked(best))'
    BY DEF Reserved
  <2> HIDE DEF Picked, best
  <2> QED BY <2>1, <2>2, <2>3
<1> QED BY <1>3 DEF Protected

LEMMA PermutationList ==
    ASSUME Asked, NEW S \in SUBSET Candidates, NEW s \in SetToSeqs(S)
    PROVE  IsList(s, Ids) /\ ToSet(s) = S
<1> DEFINE n == Cardinality(S)
<1>1. S \in SUBSET Ids /\ IsFiniteSet(S)
  <2>1. S \in SUBSET Ids
    BY DEF Candidates
  <2> QED BY <2>1, DocumentsAre, FS_Subset
<1>2. n \in Nat
  BY <1>1, FS_CardinalityType
<1>3. s \in [1 .. n -> S] /\ \A i, j \in 1 .. n : i # j => s[i] # s[j]
  BY DEF SetToSeqs
<1>4. s \in Injection(1 .. n, S)
  BY <1>3 DEF Injection, IsInjective
<1>5. s \in Surjection(1 .. n, S)
  BY <1>1, <1>2, <1>4, UpToSize, FS_Injection
<1> HIDE DEF n
<1>6. ToSet(s) = S
  BY <1>3, <1>5 DEF Surjection, ToSet
<1>7. IsList(s, Ids)
  BY <1>1, <1>2, <1>3 DEF IsList, IsInjective
<1> QED BY <1>6, <1>7

LEMMA RetrievalInitHolds == RetrievalInit => RetrievalInv
BY DEF RetrievalInit, RetrievalInv, Asked, Supported, Covered

LEMMA ReadClockKeeps == ASSUME RetrievalInv, ReadClock PROVE RetrievalInv'
BY DEF ReadClock, RetrievalInv, Asked, Supported, Covered

LEMMA LexicalSearchKeeps == ASSUME RetrievalInv, LexicalSearch PROVE RetrievalInv'
<1>1. PICK found \in SetToAllKPermutations(Candidates) : lexical' = Channel(found)
  BY DEF LexicalSearch
<1>2. PICK S \in SUBSET Candidates : found \in SetToSeqs(S)
  BY DEF SetToAllKPermutations
<1>3. IsList(found, Ids) /\ ToSet(found) \subseteq Candidates
  BY <1>2, PermutationList DEF RetrievalInv
<1>4. IsList(lexical', Ids) /\ ToSet(lexical') \subseteq Candidates
  BY <1>1, <1>3, ChannelKeeps
<1>5. Ids' = Ids /\ Candidates' = Candidates /\ Asked'
  BY InputsStay DEF LexicalSearch, RetrievalInv
<1> QED BY <1>4, <1>5 DEF LexicalSearch, RetrievalInv, Supported, Covered

LEMMA DenseSearchKeeps == ASSUME RetrievalInv, DenseSearch PROVE RetrievalInv'
<1>1. PICK found \in SetToSeqs(Candidates) : dense' = Channel(found)
  BY DEF DenseSearch
<1>2. IsList(found, Ids) /\ ToSet(found) = Candidates
  BY PermutationList DEF RetrievalInv
<1>3. /\ IsList(dense', Ids) /\ ToSet(dense') \subseteq Candidates
      /\ Len(groups) <= ChannelLimit => Keeps(dense', Candidates)
  BY <1>1, <1>2, ChannelKeeps
<1>4. Ids' = Ids /\ Candidates' = Candidates /\ Asked' /\ groups' = groups /\ docs' = docs
  BY InputsStay DEF DenseSearch, RetrievalInv
<1>5. Len(groups) <= ChannelLimit => Keeps(dense, Candidates)'
  BY <1>3, <1>4 DEF Keeps, Covers
<1>6. IsList(lexical', Ids) /\ ToSet(lexical') \subseteq Candidates
  BY DEF DenseSearch, RetrievalInv, Supported
<1> QED BY <1>3, <1>4, <1>5, <1>6 DEF DenseSearch, RetrievalInv, Supported, Covered

LEMMA EmbeddingFailsKeeps == ASSUME RetrievalInv, EmbeddingFails PROVE RetrievalInv'
BY DEF EmbeddingFails, RetrievalInv, Asked, Supported, Covered

\* What is usable of a ranking.
LEMMA UsablesAre ==
    ASSUME NEW list, IsList(list, Ids)
    PROVE  /\ IsList(Usables(list), Ids)
           /\ \A d : d \in ToSet(Usables(list)) <=> d \in ToSet(list) /\ d \in Candidates
<1> DEFINE P == {i \in DOMAIN list : list[i] \in Candidates}
<1>1. IsList(Places(list, P), Ids) /\ ToSet(Places(list, P)) = {list[i] : i \in P}
  BY PlacesList
<1> QED BY <1>1 DEF Usables, ToSet

LEMMA FuseKeeps == ASSUME RetrievalInv, Fuse PROVE RetrievalInv'
<1> DEFINE once == Fusion(<<lexical, dense>>)
<1>1. /\ IsList(lexical, Ids) /\ ToSet(lexical) \subseteq Candidates
      /\ IsList(dense, Ids) /\ ToSet(dense) \subseteq Candidates
      /\ Len(groups) <= ChannelLimit => Keeps(dense, Candidates)
      /\ Asked
  BY DEF Fuse, RetrievalInv, Supported
<1>2. IsList(once, Ids) /\ ToSet(once) = Together(<<lexical, dense>>)
  <2>1. /\ DOMAIN <<lexical, dense>> = 1 .. 2
        /\ \A c \in 1 .. 2 : <<lexical, dense>>[c] \in Seq(Ids)
    BY <1>1 DEF IsList
  <2> QED BY <1>1, <2>1, FusionLists
<1>3. IsList(ranked', Ids) /\ ToSet(ranked') \subseteq Candidates /\ ToSet(dense) \subseteq ToSet(ranked')
  <2>1. CASE ~corpus.chunked
    <3>1. ranked' = Usables(once)
      BY <2>1 DEF Fuse
    <3>2. ToSet(dense) \subseteq ToSet(once)
      BY <1>2 DEF Together
    <3> HIDE DEF once
    <3> QED BY <1>1, <1>2, <3>1, <3>2, UsablesAre
  <2>2. CASE corpus.chunked
    <3>1. PICK titles \in SetToAllKPermutations(Sources(once)) :
             ranked' = Preferred(Usables(Fusion(<<lexical, dense, Representatives(once, titles)>>)))
      BY <2>2 DEF Fuse
    <3> DEFINE reps == Representatives(once, titles)
               twice == Fusion(<<lexical, dense, reps>>)
    <3> HIDE DEF once
    <3>2. reps \in Seq(Ids)
      BY <1>1, <1>2, RepresentativesFit
    <3> HIDE DEF reps
    <3>3. IsList(twice, Ids) /\ ToSet(twice) = Together(<<lexical, dense, reps>>)
      <4>1. /\ DOMAIN <<lexical, dense, reps>> = 1 .. 3
            /\ \A c \in 1 .. 3 : <<lexical, dense, reps>>[c] \in Seq(Ids)
        BY <1>1, <3>2 DEF IsList
      <4> QED BY <1>1, <4>1, FusionLists
    <3>4. ToSet(dense) \subseteq ToSet(twice)
      BY <3>3 DEF Together
    <3>5. ranked' = Preferred(Usables(twice))
      BY <3>1 DEF reps
    <3> HIDE DEF twice
    <3>6. /\ IsList(Usables(twice), Ids)
          /\ \A d : d \in ToSet(Usables(twice)) <=> d \in ToSet(twice) /\ d \in Candidates
      BY <3>3, UsablesAre
    <3>7. IsList(ranked', Ids) /\ ToSet(ranked') = ToSet(Usables(twice))
      BY <1>1, <3>5, <3>6, PreferredSorts
    <3> QED BY <1>1, <3>4, <3>6, <3>7
  <2> QED BY <2>1, <2>2
<1>4. Ids' = Ids /\ Candidates' = Candidates /\ Asked' /\ groups' = groups /\ docs' = docs
  BY InputsStay DEF Fuse, RetrievalInv
<1>5. Len(groups) <= ChannelLimit => Keeps(ranked, Candidates)'
  BY <1>1, <1>3, <1>4 DEF Keeps, Covers
<1> QED BY <1>3, <1>4, <1>5 DEF Fuse, RetrievalInv, Supported, Covered

LEMMA AppendList ==
    ASSUME NEW A, NEW s, IsList(s, A), NEW x \in A, x \notin ToSet(s)
    PROVE  /\ IsList(Append(s, x), A) /\ Len(Append(s, x)) = Len(s) + 1
           /\ \A y : y \in ToSet(Append(s, x)) <=> y \in ToSet(s) \/ y = x
           /\ \A i \in 1 .. Len(s) : Append(s, x)[i] = s[i]
           /\ Append(s, x)[Len(s) + 1] = x
<1> DEFINE t == Append(s, x)
<1>1. s \in Seq(A) /\ Len(s) \in Nat /\ DOMAIN s = 1 .. Len(s)
  BY DEF IsList
<1>2. /\ t \in Seq(A) /\ Len(t) = Len(s) + 1 /\ DOMAIN t = 1 .. (Len(s) + 1)
      /\ \A i \in 1 .. Len(s) : t[i] = s[i]
      /\ t[Len(s) + 1] = x
  BY <1>1
<1> HIDE DEF t
<1>3. \A y : y \in ToSet(t) <=> y \in ToSet(s) \/ y = x
  <2>1. \A i \in 1 .. (Len(s) + 1) : i \in 1 .. Len(s) \/ i = Len(s) + 1
    BY <1>1
  <2>2. 1 .. Len(s) \subseteq 1 .. (Len(s) + 1) /\ Len(s) + 1 \in 1 .. (Len(s) + 1)
    BY <1>1
  <2> QED BY <1>1, <1>2, <2>1, <2>2 DEF ToSet
<1>4. IsInjective(t)
  <2> SUFFICES ASSUME NEW i \in 1 .. (Len(s) + 1), NEW j \in 1 .. (Len(s) + 1), t[i] = t[j], i < j
               PROVE  FALSE
    BY <1>1, <1>2 DEF IsInjective
  <2>1. i \in 1 .. Len(s) /\ s[i] \in ToSet(s)
    BY <1>1 DEF ToSet
  <2>2. CASE j = Len(s) + 1
    BY <1>2, <2>1, <2>2
  <2>3. CASE j # Len(s) + 1
    <3>1. j \in 1 .. Len(s) /\ s[i] = s[j]
      BY <1>1, <1>2, <2>1, <2>3
    <3> QED BY <1>1, <2>1, <3>1 DEF IsList, IsInjective
  <2> QED BY <2>2, <2>3
<1> QED BY <1>2, <1>3, <1>4 DEF IsList, t

LEMMA ReplacedList ==
    ASSUME NEW A, NEW s, IsList(s, A), NEW i \in DOMAIN s, NEW x \in A, x \notin ToSet(s)
    PROVE  /\ IsList(Replaced(s, i, x), A) /\ Len(Replaced(s, i, x)) = Len(s)
           /\ \A y \in ToSet(Replaced(s, i, x)) : y = x \/ y \in ToSet(s)
           /\ \A y \in ToSet(s) : y # s[i] => y \in ToSet(Replaced(s, i, x))
<1> DEFINE t == Replaced(s, i, x)
<1>1. s \in Seq(A) /\ Len(s) \in Nat /\ DOMAIN s = 1 .. Len(s)
  BY DEF IsList
<1>2. t \in Seq(A) /\ Len(t) = Len(s) /\ DOMAIN t = DOMAIN s
  BY <1>1 DEF Replaced
<1>3. \A j \in DOMAIN s : t[j] = IF j = i THEN x ELSE s[j]
  BY <1>1 DEF Replaced
<1> HIDE DEF t
<1>4. IsInjective(t)
  BY <1>1, <1>2, <1>3 DEF IsList, IsInjective, ToSet
<1> QED BY <1>2, <1>3, <1>4 DEF IsList, ToSet, t

LEMMA Limits == Limit \in Nat /\ ChannelLimit \in Nat /\ Limit <= ChannelLimit
BY RetrievalAssumption

LEMMA ProtectedIs ==
    ASSUME IsList(ranked, Ids)
    PROVE  /\ IsList(Protected, Ids) /\ Len(Protected) <= Limit
           /\ ToSet(Protected) \subseteq ToSet(ranked)
           /\ Len(groups) <= Limit => Protected = Reserved(ranked)
<1>1. /\ IsList(Reserved(ranked), Ids) /\ ToSet(Reserved(ranked)) \subseteq ToSet(ranked)
      /\ Len(Reserved(ranked)) <= Len(groups)
  BY ReservedPicks
<1>2. Len(groups) \in Nat /\ Len(Reserved(ranked)) \in Nat
  BY <1>1, GroupsAre DEF IsList
<1> QED BY <1>1, <1>2, Limits, TakeList DEF Protected

LEMMA AddedIs ==
    ASSUME Asked, NEW d \in Ids, NEW had
    PROVE  /\ Added(d, had) \in Nat
           /\ Added(d, had) = 0 <=> docs[d].exams \cap (question.exams \ had) = {}
<1>1. docs[d].exams \cap (question.exams \ had) \in SUBSET Examinations
  BY DocumentsAre
<1> QED BY <1>1, ExamSets, FS_EmptySet DEF Added

LEMMA ReserveKeeps == ASSUME RetrievalInv, Reserve PROVE RetrievalInv'
<1>1. /\ IsList(ranked, Ids) /\ ToSet(ranked) \subseteq Candidates
      /\ Len(groups) <= ChannelLimit => Keeps(ranked, Candidates)
  BY DEF Reserve, RetrievalInv, Supported
<1>2. UNCHANGED <<corpus, question, evaluatedAt, ranked>> /\ chosen' = Protected
  BY DEF Reserve
<1>3. Ids' = Ids /\ Candidates' = Candidates /\ Asked' /\ groups' = groups /\ docs' = docs
  BY <1>2, InputsStay DEF RetrievalInv
<1>4. Protected' = Protected
  BY <1>2, ProtectedStays
<1>5. /\ IsList(Protected, Ids) /\ Len(Protected) <= Limit
      /\ ToSet(Protected) \subseteq ToSet(ranked) /\ Len(Protected) \in Nat
  BY <1>1, ProtectedIs DEF IsList
<1>6. Selection(chosen)'
  BY <1>1, <1>2, <1>3, <1>4, <1>5 DEF Selection
<1>7. Greedy(chosen)'
  <2>1. (Len(Protected) + 1) .. Len(Protected) = {}
    BY <1>5
  <2> QED BY <1>2, <1>4, <1>5, <2>1 DEF Greedy
<1>8. Len(groups) <= ChannelLimit => Keeps(ranked, Candidates)'
  BY <1>1, <1>2, <1>3 DEF Keeps, Covers
<1> QED BY <1>1, <1>2, <1>3, <1>6, <1>7, <1>8 DEF Reserve, RetrievalInv, Supported, Covered

LEMMA ReturnKeeps == ASSUME RetrievalInv, Return PROVE RetrievalInv'
<1>1. /\ IsList(ranked, Ids) /\ ToSet(ranked) \subseteq Candidates
      /\ Len(groups) <= ChannelLimit => Keeps(ranked, Candidates)
      /\ Selection(result)
  BY DEF Return, RetrievalInv, Supported
<1>2. /\ UNCHANGED <<corpus, question, evaluatedAt, ranked, chosen>>
      /\ result' = InOrder(result, ranked)
  BY DEF Return
<1>3. Ids' = Ids /\ Candidates' = Candidates /\ Asked' /\ groups' = groups /\ docs' = docs
  BY <1>2, InputsStay DEF RetrievalInv
<1>4. Protected' = Protected
  BY <1>2, ProtectedStays
<1>5. IsList(result', Ids) /\ ToSet(result') = ToSet(result) /\ Len(result') = Len(result)
  BY <1>1, <1>2, InOrderSorts DEF Selection
<1>6. Selection(result)'
  BY <1>1, <1>3, <1>4, <1>5 DEF Selection
<1>7. Len(groups) <= ChannelLimit => Keeps(ranked, Candidates)'
  BY <1>1, <1>2, <1>3 DEF Keeps, Covers
<1>8. Exams(result') = Exams(result)
  <2>1. \A s : Exams(s) = UNION {docs[d].exams : d \in ToSet(s)}
    BY DEF Exams, ToSet
  <2> QED BY <1>5, <2>1
<1>9. Covered'
  <2>1. corpus.chunked =>
          /\ IsList(chosen, Ids) /\ Len(chosen) <= Len(result)
          /\ Unserved(chosen) => Len(chosen) = Limit /\ Greedy(chosen)
          /\ Exams(chosen) \cap question.exams \subseteq Exams(result)
    BY DEF Return, RetrievalInv, Covered
  <2>2. Unserved(chosen)' <=> Unserved(chosen)
    BY <1>2, <1>3 DEF Unserved, Exams
  <2>3. Greedy(chosen)' <=> Greedy(chosen)
    BY <1>2, <1>3, <1>4 DEF Greedy, Added, Had
  <2>4. Exams(chosen)' = Exams(chosen) /\ Exams(result)' = Exams(result)
    BY <1>2, <1>3, <1>8 DEF Exams
  <2> QED BY <1>2, <1>3, <1>5, <2>1, <2>2, <2>3, <2>4 DEF Return, Covered
<1> QED BY <1>1, <1>2, <1>3, <1>6, <1>7, <1>9 DEF Return, RetrievalInv, Supported

LEMMA HadAll == ASSUME NEW s, NEW A, IsList(s, A) PROVE Had(s, Len(s)) = Exams(s)
BY DEF IsList, Had, Exams

LEMMA CoverExamsKeeps == ASSUME RetrievalInv, CoverExams PROVE RetrievalInv'
<1>1. /\ IsList(ranked, Ids) /\ ToSet(ranked) \subseteq Candidates
      /\ Len(groups) <= ChannelLimit => Keeps(ranked, Candidates)
      /\ Selection(chosen) /\ Greedy(chosen) /\ Asked
  BY DEF CoverExams, RetrievalInv, Supported, Covered
<1>2. UNCHANGED <<corpus, question, evaluatedAt, ranked>>
  BY DEF CoverExams
<1>3. Ids' = Ids /\ Candidates' = Candidates /\ Asked' /\ groups' = groups /\ docs' = docs
  BY <1>1, <1>2, InputsStay
<1>4. Protected' = Protected
  BY <1>2, ProtectedStays
<1>5. PICK i \in DOMAIN ranked :
         /\ \A j \in DOMAIN ranked : Gain(ranked[j]) <= Gain(ranked[i])
         /\ chosen' = Append(chosen, ranked[i])
  BY DEF CoverExams
<1> DEFINE d == ranked[i]
           n == Len(chosen)
<1>6. d \in Ids /\ d \in Candidates /\ d \in ToSet(ranked)
  BY <1>1 DEF IsList, ToSet
<1>7. \A e : Gain(e) = Added(e, Had(chosen, n))
  BY <1>1, HadAll DEF Gain, Added, Selection
<1>8. \A e \in ToSet(ranked) : Added(e, Had(chosen, n)) <= Added(d, Had(chosen, n))
  BY <1>5, <1>7 DEF ToSet
<1>9. Added(d, Had(chosen, n)) > 0
  <2>1. PICK j \in DOMAIN ranked : Gain(ranked[j]) > 0
    BY DEF CoverExams, Covering
  <2>2. ranked[j] \in Ids
    BY <1>1 DEF IsList
  <2>3. Added(ranked[j], Had(chosen, n)) \in Nat /\ Added(d, Had(chosen, n)) \in Nat
    BY <1>1, <1>6, <2>2, AddedIs
  <2> QED BY <1>5, <1>7, <2>1, <2>3
<1>10. d \notin ToSet(chosen)
  <2>1. docs[d].exams \cap (question.exams \ Had(chosen, n)) # {}
    BY <1>1, <1>6, <1>9, AddedIs
  <2>2. Had(chosen, n) = Exams(chosen)
    BY <1>1, HadAll DEF Selection
  <2> QED BY <2>1, <2>2 DEF Exams, ToSet
<1>11. n \in Nat /\ n + 1 <= Limit
  BY <1>1, Limits DEF CoverExams, Covering, Selection, IsList
<1>12. /\ IsList(chosen', Ids) /\ Len(chosen') = n + 1
       /\ \A y : y \in ToSet(chosen') <=> y \in ToSet(chosen) \/ y = d
       /\ \A k \in 1 .. n : chosen'[k] = chosen[k]
       /\ chosen'[n + 1] = d
  BY <1>1, <1>5, <1>6, <1>10, AppendList DEF Selection
<1> HIDE DEF d, n
<1>13. Selection(chosen)'
  BY <1>1, <1>3, <1>4, <1>6, <1>11, <1>12 DEF Selection
<1>14. Greedy(chosen)'
  <2> DEFINE p == Len(Protected)
  <2>1. /\ p \in Nat /\ p <= n /\ \A k \in 1 .. p : chosen[k] = Protected[k]
        /\ \A j \in (p + 1) .. n :
              /\ Added(chosen[j], Had(chosen, j - 1)) > 0
              /\ \A e \in ToSet(ranked) : Added(e, Had(chosen, j - 1)) <= Added(chosen[j], Had(chosen, j - 1))
    BY <1>1, ProtectedIs DEF Greedy, n, IsList
  <2> HIDE DEF p
  <2>2. \A k \in 0 .. n : Had(chosen', k) = Had(chosen, k)
    BY <1>11, <1>12 DEF Had
  <2>3. ASSUME NEW j \in (p + 1) .. (n + 1)
        PROVE  /\ Added(chosen'[j], Had(chosen', j - 1)) > 0
               /\ \A e \in ToSet(ranked) :
                     Added(e, Had(chosen', j - 1)) <= Added(chosen'[j], Had(chosen', j - 1))
    <3>1. CASE j = n + 1
      <4>1. j - 1 = n /\ chosen'[j] = d /\ Had(chosen', j - 1) = Had(chosen, n)
        BY <1>11, <1>12, <2>2, <3>1
      <4> QED BY <1>8, <1>9, <4>1
    <3>2. CASE j # n + 1
      <4>1. j \in (p + 1) .. n /\ j - 1 \in 0 .. n /\ j \in 1 .. n
        BY <1>11, <2>1, <3>2
      <4>2. chosen'[j] = chosen[j] /\ Had(chosen', j - 1) = Had(chosen, j - 1)
        BY <1>12, <2>2, <4>1
      <4> QED BY <2>1, <4>1, <4>2
    <3> QED BY <3>1, <3>2
  <2>4. p <= n + 1 /\ \A k \in 1 .. p : chosen'[k] = Protected[k]
    BY <1>11, <1>12, <2>1
  <2>5. Greedy(chosen')
    BY <1>12, <2>3, <2>4 DEF Greedy, p
  <2>6. Greedy(chosen)' <=> Greedy(chosen')
    BY <1>2, <1>3, <1>4 DEF Greedy, Added, Had
  <2> QED BY <2>5, <2>6
<1>15. Len(groups) <= ChannelLimit => Keeps(ranked, Candidates)'
  BY <1>1, <1>2, <1>3 DEF Keeps, Covers
<1> QED BY <1>1, <1>2, <1>3, <1>13, <1>14, <1>15 DEF CoverExams, RetrievalInv, Supported, Covered

LEMMA FillKeeps == ASSUME RetrievalInv, Fill PROVE RetrievalInv'
<1> DEFINE spread == IF corpus.chunked THEN WithSources(chosen, ranked, Limit) ELSE chosen
<1>1. /\ IsList(ranked, Ids) /\ ToSet(ranked) \subseteq Candidates
      /\ Len(groups) <= ChannelLimit => Keeps(ranked, Candidates)
      /\ Selection(chosen) /\ Greedy(chosen) /\ Asked
  BY DEF Fill, RetrievalInv, Supported, Covered
<1>2. /\ UNCHANGED <<corpus, question, evaluatedAt, ranked, next>> /\ ~Covering
      /\ chosen' = Filled(spread, ranked, Limit) /\ result' = chosen' /\ kept' = ToSet(Protected)
  BY DEF Fill
<1>3. Ids' = Ids /\ Candidates' = Candidates /\ Asked' /\ groups' = groups /\ docs' = docs
  BY <1>1, <1>2, InputsStay
<1>4. Protected' = Protected
  BY <1>2, ProtectedStays
<1>5. /\ IsList(spread, Ids) /\ Len(spread) <= Limit
      /\ ToSet(chosen) \subseteq ToSet(spread) /\ ToSet(spread) \subseteq ToSet(chosen) \cup ToSet(ranked)
      /\ Len(chosen) = Limit => spread = chosen
  BY <1>1, Limits, WithSourcesAdds DEF Selection
<1> HIDE DEF spread
<1>6. /\ IsList(chosen', Ids) /\ Len(chosen') <= Limit
      /\ ToSet(spread) \subseteq ToSet(chosen') /\ ToSet(chosen') \subseteq ToSet(spread) \cup ToSet(ranked)
      /\ Len(spread) = Limit => chosen' = spread
  BY <1>1, <1>2, <1>5, Limits, FilledAdds
<1>7. Selection(chosen)' /\ Selection(result)'
  BY <1>1, <1>2, <1>3, <1>4, <1>5, <1>6 DEF Selection
<1>8. ASSUME corpus.chunked, Unserved(chosen)' PROVE Len(chosen') = Limit /\ Greedy(chosen)'
  <2>1. PICK d \in ToSet(ranked) : docs[d].exams \cap (question.exams \ Exams(chosen')) # {}
    <3>1. Exams(chosen)' = Exams(chosen')
      BY <1>3 DEF Exams
    <3> QED BY <1>2, <1>3, <1>8, <3>1 DEF Unserved
  <2>2. Exams(chosen) \subseteq Exams(chosen')
    <3>1. \A s : Exams(s) = UNION {docs[e].exams : e \in ToSet(s)}
      BY DEF Exams, ToSet
    <3> QED BY <1>5, <1>6, <3>1
  <2>3. d \in Ids /\ Gain(d) = Added(d, Exams(chosen))
    BY <1>1 DEF Gain, Added, Candidates
  <2>4. Gain(d) > 0
    BY <1>1, <2>1, <2>2, <2>3, AddedIs
  <2>5. Len(chosen) = Limit
    BY <1>1, <1>2, <1>8, <2>4, Limits DEF Covering, ToSet, Selection, IsList
  <2>6. chosen' = chosen
    BY <1>5, <1>6, <2>5
  <2>7. Greedy(chosen)' <=> Greedy(chosen)
    BY <1>2, <1>3, <1>4, <2>6 DEF Greedy, Added, Had
  <2> QED BY <1>1, <2>5, <2>6, <2>7
<1>9. Len(groups) <= ChannelLimit => Keeps(ranked, Candidates)'
  BY <1>1, <1>2, <1>3 DEF Keeps, Covers
<1>10. Covered'
  <2>1. IsList(chosen, Ids)' /\ Len(chosen') <= Len(result')
    BY <1>2, <1>3, <1>6 DEF IsList
  <2>2. Exams(chosen)' = Exams(result)'
    BY <1>2, <1>3 DEF Exams
  <2>3. phase' = "selected"
    BY DEF Fill
  <2> QED BY <1>2, <1>8, <2>1, <2>2, <2>3 DEF Covered
<1>11. ToSet(Protected)' \subseteq kept'
  BY <1>2, <1>4 DEF ToSet
<1> QED BY <1>1, <1>2, <1>3, <1>7, <1>9, <1>10, <1>11 DEF Fill, RetrievalInv, Supported

LEMMA NearestIs ==
    ASSUME Asked, NEW d \in Ids, Introductions(d) # {}
    PROVE  Nearest(d) \in Introductions(d)
<1> DEFINE all == Introductions(d)
           far == {docs[d].index - docs[c].index : c \in all}
<1>1. \A c \in all : c \in Ids /\ docs[c].index < docs[d].index
  BY DEF Introductions, Candidates
<1>2. \A c \in all : docs[d].index - docs[c].index \in Nat /\ docs[c].index \in Nat
  BY <1>1, DocumentsAre
<1>3. docs[d].index \in Nat
  BY DocumentsAre
<1>4. far \in SUBSET Nat /\ far # {}
  BY <1>2
<1>5. PICK c \in all : \A o \in all :
         docs[d].index - docs[c].index <= docs[d].index - docs[o].index
  <2> HIDE DEF far
  <2>1. Min(far) \in far /\ \A v \in far : Min(far) <= v
    BY <1>4, LeastNumber
  <2> USE DEF far
  <2> HIDE DEF all
  <2> QED BY <2>1
<1>6. \A o \in all : docs[o].index <= docs[c].index
  BY <1>2, <1>3, <1>5
<1> QED BY <1>6 DEF Nearest

LEMMA AddContextKeeps == ASSUME RetrievalInv, AddContext PROVE RetrievalInv'
<1> DEFINE d == chosen[next]
           c == Nearest(d)
           free == Replaceable(result, d, c)
<1>1. /\ IsList(ranked, Ids) /\ ToSet(ranked) \subseteq Candidates
      /\ Len(groups) <= ChannelLimit => Keeps(ranked, Candidates)
      /\ Selection(chosen) /\ Selection(result) /\ Asked
      /\ next \in Nat \ {0} /\ ToSet(Protected) \subseteq kept
  BY DEF AddContext, RetrievalInv, Supported
<1>2. UNCHANGED <<corpus, question, evaluatedAt, ranked, chosen>> /\ next' = next + 1
  BY DEF AddContext
<1>3. Ids' = Ids /\ Candidates' = Candidates /\ Asked' /\ groups' = groups /\ docs' = docs
  BY <1>1, <1>2, InputsStay
<1>4. Protected' = Protected
  BY <1>2, ProtectedStays
<1>5. d \in Ids
  <2>1. next \in 1 .. Len(chosen) /\ chosen \in Seq(Ids)
    BY <1>1 DEF AddContext, Selection, IsList
  <2> QED BY <2>1
<1>6. Introductions(d) # {} => c \in Candidates
  BY <1>1, <1>5, NearestIs DEF Introductions
<1>7. \/ result' = result /\ kept \subseteq kept'
      \/ /\ Introductions(d) # {} /\ ~Contains(result, c) /\ kept \subseteq kept'
         /\ \/ Len(result) < Limit /\ result' = Append(result, c)
            \/ free # {} /\ result' = Replaced(result, LastOf(free), c)
  BY DEF AddContext
<1>8. /\ IsList(result, Ids) /\ Len(result) \in Nat /\ DOMAIN result = 1 .. Len(result)
      /\ Len(result) <= Limit /\ ToSet(result) \subseteq Candidates
      /\ ToSet(Protected) \subseteq ToSet(result)
  BY <1>1 DEF Selection, IsList
<1>9. ~Contains(result, c) => c \notin ToSet(result)
  BY <1>8 DEF Contains, ToSet
<1>10. Candidates \subseteq Ids
  BY DEF Candidates
<1>11. \A s : Exams(s) = UNION {docs[e].exams : e \in ToSet(s)}
  BY DEF Exams, ToSet
<1> HIDE DEF d, c
<1>12. /\ IsList(result', Ids) /\ Len(result) <= Len(result') /\ Len(result') <= Limit
       /\ ToSet(result') \subseteq Candidates /\ ToSet(Protected) \subseteq ToSet(result')
       /\ Exams(result) \cap question.exams \subseteq Exams(result')
       /\ kept \subseteq kept'
  <2>1. CASE result' = result /\ kept \subseteq kept'
    BY <1>8, <2>1
  <2>2. CASE /\ Introductions(d) # {} /\ ~Contains(result, c) /\ kept \subseteq kept'
             /\ Len(result) < Limit /\ result' = Append(result, c)
    <3>1. c \in Ids /\ c \in Candidates /\ c \notin ToSet(result)
      BY <1>6, <1>9, <1>10, <2>2
    <3>2. /\ IsList(result', Ids) /\ Len(result') = Len(result) + 1
          /\ \A y : y \in ToSet(result') <=> y \in ToSet(result) \/ y = c
      BY <1>8, <2>2, <3>1, AppendList
    <3>3. Len(result) <= Len(result') /\ Len(result') <= Limit
      BY <1>8, <2>2, <3>2, Limits
    <3>4. Exams(result) \subseteq Exams(result')
      BY <1>11, <3>2
    <3> QED BY <1>8, <2>2, <3>1, <3>2, <3>3, <3>4
  <2>3. CASE /\ Introductions(d) # {} /\ ~Contains(result, c) /\ kept \subseteq kept'
             /\ free # {} /\ result' = Replaced(result, LastOf(free), c)
    <3>1. c \in Ids /\ c \in Candidates /\ c \notin ToSet(result)
      BY <1>6, <1>9, <1>10, <2>3
    <3>2. PICK i \in free : result' = Replaced(result, i, c)
      <4>1. free \in SUBSET (1 .. Len(result))
        BY <1>8 DEF Replaceable
      <4> HIDE DEF free
      <4> QED BY <1>8, <2>3, <4>1, LastExists
    <3>3. /\ i \in DOMAIN result /\ result[i] \notin kept
          /\ Exams(result) \cap question.exams \subseteq Exams(Replaced(result, i, c))
      BY DEF Replaceable
    <3>4. /\ IsList(result', Ids) /\ Len(result') = Len(result)
          /\ \A y \in ToSet(result') : y = c \/ y \in ToSet(result)
          /\ \A y \in ToSet(result) : y # result[i] => y \in ToSet(result')
      BY <1>8, <3>1, <3>2, <3>3, ReplacedList
    <3>5. ToSet(Protected) \subseteq ToSet(result')
      BY <1>1, <1>8, <3>3, <3>4
    <3> QED BY <1>8, <2>3, <3>1, <3>2, <3>3, <3>4, <3>5
  <2> QED BY <1>7, <2>1, <2>2, <2>3
<1>13. Selection(result)'
  BY <1>3, <1>4, <1>12 DEF Selection
<1>14. Selection(chosen)'
  BY <1>1, <1>2, <1>3, <1>4 DEF Selection
<1>15. Len(groups) <= ChannelLimit => Keeps(ranked, Candidates)'
  BY <1>1, <1>2, <1>3 DEF Keeps, Covers
<1>16. Covered'
  <2>1. phase = "selected" /\ phase' = "selected"
    BY DEF AddContext
  <2>2. corpus.chunked =>
          /\ IsList(chosen, Ids) /\ Len(chosen) <= Len(result) /\ Len(chosen) \in Nat
          /\ Unserved(chosen) => Len(chosen) = Limit /\ Greedy(chosen)
          /\ Exams(chosen) \cap question.exams \subseteq Exams(result)
    BY <2>1 DEF RetrievalInv, Covered, IsList
  <2>3. Unserved(chosen)' <=> Unserved(chosen)
    BY <1>2, <1>3 DEF Unserved, Exams
  <2>4. Greedy(chosen)' <=> Greedy(chosen)
    BY <1>2, <1>3, <1>4 DEF Greedy, Added, Had
  <2>5. Exams(chosen)' = Exams(chosen) /\ Exams(result)' = Exams(result')
    BY <1>2, <1>3 DEF Exams
  <2>6. Len(result) <= Len(result') /\ Len(result') \in Nat
    BY <1>12 DEF IsList
  <2>7. corpus.chunked => Len(chosen) <= Len(result')
    BY <1>8, <2>2, <2>6
  <2> QED BY <1>2, <1>3, <1>12, <2>1, <2>2, <2>3, <2>4, <2>5, <2>7 DEF Covered
<1>17. ToSet(Protected)' \subseteq kept'
  BY <1>1, <1>4, <1>12 DEF ToSet
<1>18. phase' = "selected" /\ next' \in Nat \ {0}
  BY <1>1, <1>2 DEF AddContext
<1> QED BY <1>1, <1>2, <1>3, <1>13, <1>14, <1>15, <1>16, <1>17, <1>18 DEF RetrievalInv, Supported

LEMMA RetrievalStutters == ASSUME RetrievalInv, UNCHANGED retrievalVars PROVE RetrievalInv'
<1>1. UNCHANGED <<corpus, question, phase, evaluatedAt, lexical, dense, ranked, chosen, result,
                  kept, next>>
  BY DEF retrievalVars
<1>2. Ids' = Ids /\ Candidates' = Candidates /\ Asked' /\ groups' = groups /\ docs' = docs
  BY <1>1, InputsStay DEF RetrievalInv
<1>3. Protected' = Protected
  BY <1>1, ProtectedStays
<1>4. Supported'
  BY <1>1, <1>2, <1>3 DEF RetrievalInv, Supported, Selection, Keeps, Covers
<1>5. Covered'
  <2>1. /\ Greedy(chosen)' <=> Greedy(chosen)
        /\ Unserved(chosen)' <=> Unserved(chosen)
        /\ Exams(chosen)' = Exams(chosen) /\ Exams(result)' = Exams(result)
    BY <1>1, <1>2, <1>3 DEF Greedy, Added, Had, Unserved, Exams
  <2> QED BY <1>1, <1>2, <2>1 DEF RetrievalInv, Covered
<1> QED BY <1>2, <1>4, <1>5 DEF RetrievalInv

THEOREM RetrievalInvariant == RetrievalSpec => []RetrievalInv
<1>1. ASSUME RetrievalInv, [RetrievalNext]_retrievalVars PROVE RetrievalInv'
  <2>1. CASE ReadClock
    BY <1>1, <2>1, ReadClockKeeps
  <2>2. CASE LexicalSearch
    BY <1>1, <2>2, LexicalSearchKeeps
  <2>3. CASE DenseSearch
    BY <1>1, <2>3, DenseSearchKeeps
  <2>4. CASE EmbeddingFails
    BY <1>1, <2>4, EmbeddingFailsKeeps
  <2>5. CASE Fuse
    BY <1>1, <2>5, FuseKeeps
  <2>6. CASE Reserve
    BY <1>1, <2>6, ReserveKeeps
  <2>7. CASE CoverExams
    BY <1>1, <2>7, CoverExamsKeeps
  <2>8. CASE Fill
    BY <1>1, <2>8, FillKeeps
  <2>9. CASE AddContext
    BY <1>1, <2>9, AddContextKeeps
  <2>10. CASE Return
    BY <1>1, <2>10, ReturnKeeps
  <2>11. CASE Finished \/ UNCHANGED retrievalVars
    BY <1>1, <2>11, RetrievalStutters DEF Finished
  <2> QED BY <1>1, <2>1, <2>2, <2>3, <2>4, <2>5, <2>6, <2>7, <2>8, <2>9, <2>10, <2>11
       DEF RetrievalNext
<1> QED BY <1>1, RetrievalInitHolds, PTL DEF RetrievalSpec

\* Results are usable, of the question's filter, distinct and no more than asked for.
THEOREM ResultsAreSupported == RetrievalSpec => []ResultsSupported
<1>1. ASSUME RetrievalInv PROVE ResultsSupported
  <2> SUFFICES ASSUME phase = "done"
               PROVE  /\ Results \subseteq Candidates
                      /\ Len(result) <= Limit /\ Cardinality(Results) = Len(result)
    BY DEF ResultsSupported
  <2>1. IsList(result, Ids) /\ Len(result) <= Limit /\ ToSet(result) \subseteq Candidates
    BY <1>1 DEF RetrievalInv, Supported, Selection
  <2> QED BY <2>1, ListSize DEF Results
<1> QED BY <1>1, RetrievalInvariant, PTL

THEOREM IntentsAreAnswered == RetrievalSpec => []IntentsAnswered
<1>1. ASSUME RetrievalInv PROVE IntentsAnswered
  <2> SUFFICES ASSUME phase = "done", Len(groups) <= Limit, NEW i \in DOMAIN groups,
                      NEW d \in Candidates, Covers(d, groups[i])
               PROVE  \E e \in Results : Covers(e, groups[i])
    BY DEF IntentsAnswered
  <2>1. /\ IsList(ranked, Ids) /\ Selection(result)
        /\ Len(groups) <= ChannelLimit => Keeps(ranked, Candidates)
    BY <1>1 DEF RetrievalInv, Supported
  <2>2. Keeps(ranked, Candidates)
    BY <2>1, Limits, GroupsAre
  <2>3. \E e \in ToSet(ranked) : Covers(e, groups[i])
    BY <2>2 DEF Keeps
  <2>4. \E e \in ToSet(Reserved(ranked)) : Covers(e, groups[i])
    BY <2>1, <2>3, ReservedPicks
  <2>5. Protected = Reserved(ranked)
    BY <2>1, ProtectedIs
  <2> QED BY <2>1, <2>4, <2>5 DEF Selection, Results
<1> QED BY <1>1, RetrievalInvariant, PTL

-----------------------------------------------------------------------------
(* Why the context of a list leaves no idle passage: there are four         *)
(* examinations, one of them unserved, so the places beyond the protected   *)
(* ones that went to examinations are three at most - and no fewer          *)
(* documents name what those chosen greedily do.                            *)

LEMMA AtLeastTwo ==
    ASSUME NEW S \in SUBSET Examinations, NEW y \in S, NEW z \in S, y # z
    PROVE  Cardinality(S) >= 2
<1>1. IsFiniteSet(S) /\ IsFiniteSet({y}) /\ Cardinality({y}) = 1
  BY ExamSets, FS_Singleton
<1>2. IsFiniteSet({y} \cup {z}) /\ Cardinality({y} \cup {z}) = 2
  <2>1. \A U : IsFiniteSet(U) /\ z \notin U =>
               IsFiniteSet(U \cup {z}) /\ Cardinality(U \cup {z}) = Cardinality(U) + 1
    BY FS_AddElement
  <2>2. z \notin {y}
    OBVIOUS
  <2>3. IsFiniteSet({y} \cup {z}) /\ Cardinality({y} \cup {z}) = Cardinality({y}) + 1
    BY <1>1, <2>1, <2>2
  <2> QED BY <1>1, <2>3
<1>3. {y} \cup {z} \in SUBSET S
  OBVIOUS
<1>4. Cardinality({y} \cup {z}) <= Cardinality(S) /\ Cardinality(S) \in Nat
  BY <1>1, <1>3, FS_Subset, FS_CardinalityType
<1> QED BY <1>2, <1>4

LEMMA Irreplaceable ==
    ASSUME Asked, IsList(ranked, Ids), NEW s, IsList(s, Ids), Len(s) = Limit, Greedy(s),
           NEW x \in question.exams, x \notin Exams(s),
           NEW R \in SUBSET ToSet(ranked), IsFiniteSet(R), Cardinality(R) = Limit,
           ToSet(Protected) \subseteq R, Exams(s) \cap question.exams \subseteq Named(R),
           NEW d \in R, d \notin ToSet(Protected)
    PROVE  Named(R \ {d}) # Named(R)
<1> SUFFICES ASSUME Named(R \ {d}) = Named(R) PROVE FALSE
  OBVIOUS
<1> DEFINE p == Len(Protected)
           T == (R \ ToSet(Protected)) \ {d}
           E == question.exams
           own(j) == docs[s[j]].exams
<1>1. /\ s \in Seq(Ids) /\ DOMAIN s = 1 .. Limit /\ p \in Nat /\ p <= Limit /\ Limit \in Nat
      /\ IsList(Protected, Ids) /\ DOMAIN Protected = 1 .. p
  BY ProtectedIs, Limits DEF IsList
<1>2. /\ \A i \in 1 .. p : s[i] = Protected[i]
      /\ \A j \in (p + 1) .. Limit :
            /\ Added(s[j], Had(s, j - 1)) > 0
            /\ \A e \in ToSet(ranked) : Added(e, Had(s, j - 1)) <= Added(s[j], Had(s, j - 1))
  BY DEF Greedy
<1>3. /\ IsFiniteSet(T) /\ Cardinality(T) = (Limit - p) - 1 /\ Limit - p >= 1
      /\ T \subseteq ToSet(ranked)
  <2>1. IsFiniteSet(ToSet(Protected)) /\ Cardinality(ToSet(Protected)) = p
    BY <1>1, ListSize
  <2> DEFINE X == ToSet(Protected)
             V == R \ X
  <2>2. R \cap X = X /\ V \in SUBSET R /\ d \in V /\ T = V \ {d}
    OBVIOUS
  <2>3. IsFiniteSet(V) /\ Cardinality(V) = Cardinality(R) - Cardinality(R \cap X)
    BY FS_Difference
  <2>4. Cardinality(V) = Limit - p
    BY <2>1, <2>2, <2>3
  <2> HIDE DEF T, V
  <2>5. IsFiniteSet(T) /\ Cardinality(T) = (Limit - p) - 1 /\ T \subseteq R
    BY <2>2, <2>3, <2>4, FS_RemoveElement
  <2>6. Cardinality(T) \in Nat
    BY <2>5, FS_CardinalityType
  <2> HIDE DEF p
  <2>7. Limit - p >= 1
    BY <1>1, <2>5, <2>6
  <2> QED BY <2>5, <2>7
<1>4. Had(s, p) = Exams(Protected)
  BY <1>1, <1>2 DEF Had, Exams
<1>5. \A y \in E : y \in Exams(s) /\ y \notin Had(s, p) => \E t \in T : y \in docs[t].exams
  <2> SUFFICES ASSUME NEW y \in E, y \in Exams(s), y \notin Had(s, p)
               PROVE  \E t \in T : y \in docs[t].exams
    OBVIOUS
  <2>1. y \in Named(R \ {d})
    OBVIOUS
  <2>2. PICK t \in R \ {d} : y \in docs[t].exams
    BY <2>1 DEF Named
  <2>3. t \notin ToSet(Protected)
    BY <1>4, <2>2 DEF Exams, ToSet
  <2> QED BY <2>2, <2>3
<1>6. \A j \in 1 .. Limit : s[j] \in Ids /\ own(j) \subseteq Examinations /\ own(j) \subseteq Exams(s)
  <2>1. \A j \in 1 .. Limit : s[j] \in Ids
    BY <1>1
  <2> QED BY <1>1, <2>1, DocumentsAre DEF Exams
<1>7. \A j \in (p + 1) .. Limit : \E y \in E : y \in own(j) /\ y \notin Had(s, j - 1)
  <2> SUFFICES ASSUME NEW j \in (p + 1) .. Limit
               PROVE  \E y \in E : y \in own(j) /\ y \notin Had(s, j - 1)
    OBVIOUS
  <2>1. s[j] \in Ids
    BY <1>1, <1>6
  <2>2. Added(s[j], Had(s, j - 1)) > 0
    BY <1>2
  <2>3. docs[s[j]].exams \cap (question.exams \ Had(s, j - 1)) # {}
    BY <2>1, <2>2, AddedIs
  <2> QED BY <2>3
<1>8. \A j \in 1 .. Limit : \A i \in 1 .. (j - 1) : own(i) \subseteq Had(s, j - 1)
  BY DEF Had
<1>9. \A j \in (p + 1) .. Limit : Had(s, p) \subseteq Had(s, j - 1)
  BY <1>1 DEF Had
<1>10. E \subseteq Examinations /\ \A j \in 1 .. Limit : x \notin own(j)
  BY <1>6, DocumentsAre
<1> DEFINE first == own(p + 1) \cap (E \ Had(s, p))
           other(t) == docs[t].exams \cap (E \ Had(s, p))
<1>11. /\ \A t \in T : other(t) \in SUBSET Examinations /\ Cardinality(other(t)) <= Cardinality(first)
       /\ first \in SUBSET Examinations
  <2>1. p + 1 \in (p + 1) .. Limit /\ (p + 1) - 1 = p
    BY <1>1, <1>3
  <2>2. \A t \in T : Added(t, Had(s, p)) <= Added(s[p + 1], Had(s, p))
    BY <1>2, <1>3, <2>1
  <2> QED BY <1>10, <2>2 DEF Added
<1> HIDE DEF p, T, E, own, first, other
<1>12. PICK y1 \in E : y1 \in own(p + 1) /\ y1 \notin Had(s, p)
  <2>1. p + 1 \in (p + 1) .. Limit /\ (p + 1) - 1 = p
    BY <1>1, <1>3
  <2> QED BY <1>7, <2>1
<1>13. y1 \in Examinations /\ y1 \in Exams(s) /\ y1 # x /\ x \in Examinations
  BY <1>1, <1>3, <1>6, <1>10, <1>12 DEF E
<1>14. CASE Limit - p = 1
  <2>1. T = {}
    BY <1>3, <1>14, FS_EmptySet
  <2> QED BY <1>5, <1>12, <1>13, <2>1
<1>15. ASSUME Limit - p >= 2
       PROVE  \E y \in E : /\ y \in own(p + 2) /\ y \notin Had(s, p) /\ y \notin own(p + 1)
                           /\ y \notin Had(s, p + 1)
                           /\ y \in Examinations /\ y \in Exams(s) /\ y # x
  <2>1. /\ p + 2 \in (p + 1) .. Limit /\ p + 2 \in 1 .. Limit /\ (p + 2) - 1 = p + 1
        /\ p + 1 \in 1 .. (p + 1)
    BY <1>1, <1>15
  <2>2. PICK y \in E : y \in own(p + 2) /\ y \notin Had(s, p + 1)
    BY <1>7, <2>1
  <2>3. y \notin own(p + 1)
    BY <1>8, <2>1, <2>2
  <2>4. y \notin Had(s, p)
    BY <1>9, <2>1, <2>2
  <2> QED BY <1>6, <1>10, <2>1, <2>2, <2>3, <2>4
<1>16. CASE Limit - p = 2
  <2>1. Cardinality(T) = 1
    BY <1>1, <1>3, <1>16
  <2>2. PICK t : T = {t}
    BY <1>3, <2>1, FS_Singleton
  <2>3. PICK y2 \in E : /\ y2 \notin Had(s, p) /\ y2 \notin own(p + 1) /\ y2 \in Exams(s)
    BY <1>1, <1>15, <1>16
  <2>4. first \cup {y2} \in SUBSET other(t) /\ y2 \notin first
    <3>1. p + 1 \in 1 .. Limit
      BY <1>1, <1>16
    <3>2. own(p + 1) \subseteq Exams(s)
      BY <1>6, <3>1
    <3> QED BY <1>5, <2>2, <2>3, <3>2 DEF first, other
  <2>5. IsFiniteSet(first) /\ Cardinality(first) \in Nat /\ IsFiniteSet(other(t))
        /\ Cardinality(other(t)) \in Nat /\ Cardinality(other(t)) <= Cardinality(first)
    BY <1>11, <2>2, ExamSets
  <2>6. /\ IsFiniteSet(first \cup {y2}) /\ Cardinality(first \cup {y2}) = Cardinality(first) + 1
    BY <2>4, <2>5, FS_AddElement
  <2>7. Cardinality(first \cup {y2}) <= Cardinality(other(t))
    BY <2>4, <2>5, FS_Subset
  <2> QED BY <2>5, <2>6, <2>7
<1>17. ASSUME Limit - p >= 3
       PROVE  \E y \in E : /\ y \in own(p + 3) /\ y \notin Had(s, p) /\ y \notin own(p + 1)
                           /\ y \notin own(p + 2) /\ y \notin Had(s, p + 2)
                           /\ y \in Examinations /\ y \in Exams(s) /\ y # x
  <2>1. /\ p + 3 \in (p + 1) .. Limit /\ p + 3 \in 1 .. Limit /\ (p + 3) - 1 = p + 2
        /\ p + 1 \in 1 .. (p + 2) /\ p + 2 \in 1 .. (p + 2)
    BY <1>1, <1>17
  <2>2. PICK y \in E : y \in own(p + 3) /\ y \notin Had(s, p + 2)
    BY <1>7, <2>1
  <2>3. y \notin own(p + 1) /\ y \notin own(p + 2)
    BY <1>8, <2>1, <2>2
  <2>4. y \notin Had(s, p)
    BY <1>9, <2>1, <2>2
  <2> QED BY <1>6, <1>10, <2>1, <2>2, <2>3, <2>4
<1>18. CASE Limit - p = 3
  <2>1. PICK t1 : t1 \in T
    BY <1>1, <1>3, <1>18, FS_EmptySet
  <2>2. PICK t2 : T \ {t1} = {t2}
    <3>1. IsFiniteSet(T \ {t1}) /\ Cardinality(T \ {t1}) = 1
      BY <1>1, <1>3, <1>18, <2>1, FS_RemoveElement
    <3> QED BY <3>1, FS_Singleton
  <2>3. PICK y2 \in E : /\ y2 \in own(p + 2) /\ y2 \notin Had(s, p) /\ y2 \notin own(p + 1)
                        /\ y2 \in Examinations /\ y2 \in Exams(s) /\ y2 # x
    BY <1>1, <1>15, <1>18
  <2>4. PICK y3 \in E : /\ y3 \notin Had(s, p) /\ y3 \notin own(p + 1) /\ y3 \notin own(p + 2)
                        /\ y3 \in Examinations /\ y3 \in Exams(s) /\ y3 # x
    BY <1>1, <1>17, <1>18
  <2>5. y1 # y2 /\ y1 # y3 /\ y2 # y3
    BY <1>12, <2>3, <2>4
  <2>6. \A y \in Examinations : y = y1 \/ y = y2 \/ y = y3 \/ y = x
    BY <1>13, <2>3, <2>4, <2>5 DEF Examinations
  <2>7. first = {y1}
    <3>1. x \notin own(p + 1)
      BY <1>1, <1>10, <1>18
    <3> QED BY <1>11, <1>12, <2>3, <2>4, <2>6, <3>1 DEF first
  <2>8. Cardinality(first) = 1
    BY <2>7, FS_Singleton
  <2>9. \A y \in {y1, y2, y3} : y \in other(t1) \/ y \in other(t2)
    BY <1>5, <1>12, <1>13, <2>2, <2>3, <2>4 DEF other
  <2>10. \E t \in T : \E y, z \in other(t) : y # z
    BY <2>1, <2>2, <2>5, <2>9
  <2>11. PICK t \in T : Cardinality(other(t)) >= 2
    BY <1>11, <2>10, AtLeastTwo
  <2>12. Cardinality(other(t)) \in Nat
    BY <1>11, ExamSets
  <2> QED BY <1>11, <2>8, <2>11, <2>12
<1>19. CASE Limit - p >= 4
  <2>1. PICK y2 \in E : /\ y2 \in own(p + 2) /\ y2 \notin own(p + 1)
                        /\ y2 \in Examinations /\ y2 # x
    BY <1>1, <1>15, <1>19
  <2>2. PICK y3 \in E : /\ y3 \in own(p + 3) /\ y3 \notin own(p + 1) /\ y3 \notin own(p + 2)
                        /\ y3 \in Examinations /\ y3 # x
    BY <1>1, <1>17, <1>19
  <2>3. /\ p + 4 \in (p + 1) .. Limit /\ p + 4 \in 1 .. Limit /\ (p + 4) - 1 = p + 3
        /\ p + 1 \in 1 .. (p + 3) /\ p + 2 \in 1 .. (p + 3) /\ p + 3 \in 1 .. (p + 3)
    BY <1>1, <1>19
  <2>4. PICK y4 \in E : y4 \in own(p + 4) /\ y4 \notin Had(s, p + 3)
    BY <1>7, <2>3
  <2>5. y4 \notin own(p + 1) /\ y4 \notin own(p + 2) /\ y4 \notin own(p + 3)
    BY <1>8, <2>3, <2>4
  <2>6. y4 \in Examinations /\ y4 # x
    BY <1>6, <1>10, <2>3, <2>4
  <2>7. y1 # y2 /\ y1 # y3 /\ y1 # y4 /\ y2 # y3 /\ y2 # y4 /\ y3 # y4
    BY <1>12, <2>1, <2>2, <2>4, <2>5
  <2> QED BY <1>13, <2>1, <2>2, <2>6, <2>7 DEF Examinations
<1> QED BY <1>1, <1>3, <1>14, <1>16, <1>18, <1>19

\* No result without an intent or an examination of its own stands where an
\* examination that was asked for is missing.
THEOREM NamedExamsComeFirst == RetrievalSpec => []NamedExamsFirst
<1>1. ASSUME RetrievalInv PROVE NamedExamsFirst
  <2> SUFFICES ASSUME phase = "done", corpus.chunked, NEW x \in question.exams \ Named(Results),
                      NEW r \in ToSet(ranked), x \in docs[r].exams
               PROVE  /\ Len(result) = Limit
                      /\ Results \subseteq ToSet(ranked) => \A d \in Results : ~Idle(d)
    BY DEF NamedExamsFirst
  <2>1. /\ IsList(ranked, Ids) /\ Selection(result) /\ Asked
        /\ IsList(chosen, Ids) /\ Len(chosen) <= Len(result)
        /\ Unserved(chosen) => Len(chosen) = Limit /\ Greedy(chosen)
        /\ Exams(chosen) \cap question.exams \subseteq Exams(result)
    BY <1>1 DEF RetrievalInv, Supported, Covered
  <2>2. Exams(result) \cap question.exams = Named(Results)
    <3>1. Exams(result) = UNION {docs[d].exams : d \in Results}
      BY DEF Exams, Results, ToSet
    <3> QED BY <3>1 DEF Named
  <2>3. x \in question.exams /\ x \notin Exams(chosen)
    BY <2>1, <2>2
  <2>4. Len(chosen) = Limit /\ Greedy(chosen)
    BY <2>1, <2>3 DEF Unserved
  <2>5. IsList(result, Ids) /\ Len(result) <= Limit /\ ToSet(Protected) \subseteq Results
    BY <2>1 DEF Selection, Results
  <2>6. IsFiniteSet(Results) /\ Cardinality(Results) = Len(result) /\ Len(result) \in Nat
    BY <2>5, ListSize DEF Results
  <2>7. Len(result) = Limit
    BY <2>1, <2>4, <2>5, <2>6, Limits
  <2>8. ASSUME Results \subseteq ToSet(ranked), NEW d \in Results, d \notin ToSet(Protected)
        PROVE  Named(Results \ {d}) # Named(Results)
    <3>1. Exams(chosen) \cap question.exams \subseteq Named(Results)
      BY <2>1, <2>2
    <3> HIDE DEF Results
    <3> QED BY <2>1, <2>3, <2>4, <2>5, <2>6, <2>7, <2>8, <3>1, Irreplaceable
  <2> QED BY <2>7, <2>8 DEF Idle, Without
<1> QED BY <1>1, RetrievalInvariant, PTL
==============================================================================
