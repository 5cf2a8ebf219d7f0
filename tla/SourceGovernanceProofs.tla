----------------------- MODULE SourceGovernanceProofs -----------------------
(* What SourceGovernance guarantees of what the application loads, for any  *)
(* texts, limits, dates, trust roots, keys and numbers of builds.           *)
EXTENDS SourceGovernance, FiniteSetTheorems, TLAPS

(***************************************************************************)
(* The invariant.                                                          *)
(***************************************************************************)
\* The fields of a source record.
Record(r) ==
    r = [source |-> r.source, state |-> r.state, text |-> r.text, due |-> r.due,
         block |-> r.block, declared |-> r.declared, reviewers |-> r.reviewers]
Records == Record(entry) /\ (check # None => Record(check))

\* The files of the directory and the two commands that work on it.
Shapes ==
    /\ dir = [documents |-> dir.documents, manifest |-> dir.manifest,
              signature |-> dir.signature]
    /\ build # None => build = [step |-> build.step, key |-> build.key,
                                documents |-> build.documents, manifest |-> build.manifest]
    /\ install # None => install = [step |-> install.step, manifest |-> install.manifest,
                                    documents |-> install.documents, copy |-> install.copy]
    /\ active # None => active = [record |-> active.record, files |-> active.files,
                                  indexed |-> active.indexed]

\* An approved text is in the registry for good; what a check found is approved
\* when it is the registry's and the check calls it eligible.
TextsReviewed ==
    /\ entry.reviewers => entry.text \in reviewed
    /\ check # None /\ check.state \in EligibleStates /\ check.reviewers =>
          check.text \in reviewed

\* The records of a source and of a manifest, as the steps read them.
Justified(manifest) == SourceValid(manifest.source) => manifest.source.text \in reviewed
Manifests ==
    /\ build # None => Justified(build.manifest)
    /\ dir.manifest # None => Justified(dir.manifest)
    /\ install # None => Justified(install.manifest)

\* A release of the model's one source has one document.
OneDocument(chunks) == \A i \in DOMAIN chunks : chunks[i].document = "document"
\* From its first step on a build has written documents, and no step unwrites them.
Written ==
    \/ build # None /\ build.step # "documents"
    \/ dir.manifest # None
    \/ install # None
Documents ==
    /\ build # None => OneDocument(build.documents)
    /\ Written => OneDocument(dir.documents)

\* What has been read for the index, and the index.
Indexed ==
    /\ install # None /\ install.step \in {"documents", "manifest", "signature", "copied"} =>
          Spelled(install.documents) \in reviewed
    /\ active # None \/ opening => Spelled(active.indexed) \in reviewed

IInv == Shapes /\ Records /\ TextsReviewed /\ Manifests /\ Documents /\ Indexed /\ LoadedAsReviewed

-----------------------------------------------------------------------------
(* Chunks.                                                                  *)

LEMMA ChunksAreOfDocument ==
    ASSUME NEW text, NEW record
    PROVE  OneDocument(Chunks(Document(text, record), record))
BY DEF OneDocument, Chunks, Document

\* Documents that pass for a manifest spell the text of its source.
LEMMA ValidContentsSpell ==
    ASSUME NEW manifest, NEW documents, OneDocument(documents),
           ContentsValid(manifest, documents)
    PROVE  SourceValid(manifest.source) /\ Spelled(documents) = manifest.source.text
<1> DEFINE r == manifest.source
<1>1. /\ \E i \in DOMAIN documents : documents[i].source = r.source
      /\ \A i \in DOMAIN documents :
            /\ documents[i].source = r.source
            /\ SequenceValid(documents,
                   OfDocument(documents, documents[i].source, documents[i].document), r)
  BY DEF ContentsValid, ChunksValid
<1>2. PICK i \in DOMAIN documents : documents[i].source = r.source
  BY <1>1
<1>3. OfDocument(documents, documents[i].source, documents[i].document) = DOMAIN documents
  BY <1>1, <1>2 DEF OfDocument, OneDocument
<1>4. SequenceValid(documents, DOMAIN documents, r)
  BY <1>1, <1>2, <1>3
<1>5. FlattenSeq(InSequence(documents, DOMAIN documents)) = r.text
  BY <1>4 DEF SequenceValid
<1> QED BY <1>5 DEF ContentsValid, Spelled

\* A check calls eligible only the text it found in the registry.
LEMMA EligibleIsUnchanged ==
    ASSUME NEW record, NEW outcome, NEW text, NEW t,
           StateOfCheck(record, outcome, text, t) \in EligibleStates
    PROVE  text = record.text
BY DEF StateOfCheck, EligibleStates

-----------------------------------------------------------------------------
(* The steps.                                                               *)

LEMMA InitHolds == Init => IInv
BY DEF Init, IInv, Shapes, Records, Record, TextsReviewed, Manifests, Documents, Written,
   Indexed, LoadedAsReviewed

\* The maintainers' steps only add to what has been approved.
LEMMA GovernanceKeeps ==
    ASSUME IInv, CheckSource \/ ApproveCheck \/ Admit \/ NoteState \/ Tick
    PROVE  IInv'
<1>1. Records' /\ TextsReviewed'
  <2>1. CASE CheckSource
    <3>1. PICK outcome \in Outcomes, page \in Texts : check' = Captured(outcome, page)
      BY <2>1 DEF CheckSource
    <3> DEFINE text == IF outcome \in {"served", "moved"} THEN Normalized(page) ELSE None
               state == StateOfCheck(entry, outcome, text, now)
               declared == IF state \in EligibleStates THEN "current" ELSE state
    <3>2. check' = [source |-> entry.source, state |-> state, text |-> text,
                    due |-> entry.due, block |-> entry.block, declared |-> declared,
                    reviewers |-> entry.reviewers]
      <4>1. check' = [entry EXCEPT !.state = state, !.text = text, !.declared = declared]
        BY <3>1 DEF Captured
      <4>2. Record(entry)
        BY DEF IInv, Records
      <4> HIDE DEF text, state, declared
      <4> QED BY <4>1, <4>2 DEF Record
    <3>3. state \in EligibleStates => text = entry.text
      BY EligibleIsUnchanged
    <3> HIDE DEF text, state, declared
    <3> QED BY <2>1, <3>2, <3>3 DEF CheckSource, IInv, Records, Record, TextsReviewed
  <2>2. CASE ApproveCheck
    BY <2>2 DEF ApproveCheck, IInv, Records, Record, TextsReviewed
  <2>3. CASE Admit \/ NoteState \/ Tick
    BY <2>3 DEF Admit, NoteState, Tick, IInv, Records, Record, TextsReviewed
  <2> QED BY <2>1, <2>2, <2>3
<1>2. reviewed \subseteq reviewed' /\ UNCHANGED <<assembly, runtime>>
  BY DEF CheckSource, ApproveCheck, Admit, NoteState, Tick
<1>3. Shapes' /\ Manifests' /\ Documents' /\ Indexed' /\ LoadedAsReviewed'
  BY <1>2 DEF IInv, Shapes, Manifests, Justified, Documents, Written, Indexed, LoadedAsReviewed,
     assembly, runtime
<1> QED BY <1>1, <1>3 DEF IInv

LEMMA BuildKeeps ==
    ASSUME IInv,
           \/ BeginBuild \/ WriteDocuments \/ WriteManifest \/ SignManifest \/ EndBuild
    PROVE  IInv'
<1>1. UNCHANGED <<entry, check, reviewed, install, active, opening, loaded>>
  BY DEF BeginBuild, WriteDocuments, WriteManifest, SignManifest, EndBuild, governance,
     runtime
<1>2. Records' /\ TextsReviewed' /\ Indexed' /\ LoadedAsReviewed'
  BY <1>1 DEF IInv, Records, Record, TextsReviewed, Indexed, LoadedAsReviewed
<1>3. Shapes' /\ Manifests' /\ Documents'
  <2>1. CASE BeginBuild
    <3>1. PICK record \in {entry, check} \ {None}, text \in Texts,
               version \in Versions, root \in DOMAIN Roots, key \in Keys :
             /\ record.state \in EligibleStates /\ record.reviewers
             /\ build' = [step |-> "documents", key |-> key,
                          documents |-> Chunks(Document(text, record), record),
                          manifest |-> [source |-> record, version |-> version, root |-> root,
                                        documents |-> Chunks(Document(text, record), record)]]
      BY <2>1 DEF BeginBuild
    <3>2. record.text \in reviewed
      BY <3>1 DEF IInv, TextsReviewed
    <3>3. DEFINE chunks == Chunks(Document(text, record), record)
    <3>4. OneDocument(chunks)
      BY ChunksAreOfDocument
    <3> HIDE DEF chunks
    <3>5. /\ build' = [step |-> "documents", key |-> key, documents |-> chunks,
                       manifest |-> build'.manifest]
          /\ build'.manifest.source = record
      BY <3>1 DEF chunks
    <3>6. UNCHANGED dir
      BY <2>1 DEF BeginBuild
    <3>7. Shapes'
      BY <1>1, <3>5, <3>6 DEF IInv, Shapes
    <3>8. Manifests'
      BY <1>1, <3>2, <3>5, <3>6 DEF IInv, Manifests, Justified
    <3>9. Documents'
      BY <1>1, <3>4, <3>5, <3>6 DEF IInv, Documents, Written
    <3> QED BY <3>7, <3>8, <3>9
  <2>2. CASE WriteDocuments \/ WriteManifest \/ SignManifest
    <3>1. build # None /\ \E to : build' = [build EXCEPT !.step = to]
      BY <2>2 DEF WriteDocuments, WriteManifest, SignManifest, Assembles
    <3>2. \E to : build' = [step |-> to, key |-> build.key, documents |-> build.documents,
                            manifest |-> build.manifest]
      BY <3>1 DEF IInv, Shapes
    <3>3. \/ dir' = [dir EXCEPT !.documents = build.documents]
          \/ build.step # "documents" /\ dir' = [dir EXCEPT !.manifest = build.manifest]
          \/ /\ build.step # "documents"
             /\ \E signature : dir' = [dir EXCEPT !.signature = signature]
      BY <2>2 DEF WriteDocuments, WriteManifest, SignManifest, Assembles
    <3>4. /\ dir' = [documents |-> dir'.documents, manifest |-> dir'.manifest,
                     signature |-> dir'.signature]
          /\ \/ dir'.documents = build.documents
             \/ dir'.documents = dir.documents /\ build.step # "documents"
          /\ dir'.manifest \in {dir.manifest, build.manifest}
      BY <3>3 DEF IInv, Shapes
    <3>5. Shapes'
      BY <1>1, <3>2, <3>4 DEF IInv, Shapes
    <3>6. Manifests'
      BY <1>1, <3>1, <3>2, <3>4 DEF IInv, Manifests, Justified
    <3>7. OneDocument(build.documents) /\ OneDocument(dir'.documents)
      BY <3>1, <3>4 DEF IInv, Documents, Written
    <3>8. Documents'
      BY <3>2, <3>7 DEF Documents
    <3> QED BY <3>5, <3>6, <3>8
  <2>3. CASE EndBuild
    BY <1>1, <2>3 DEF EndBuild, IInv, Shapes, Manifests, Documents, Written, Justified
  <2> QED BY <2>1, <2>2, <2>3
<1> QED BY <1>2, <1>3 DEF IInv

\* Only documents that are valid for a justified manifest are read for the index.
LEMMA InstallKeeps ==
    ASSUME IInv,
           \/ ReadManifest \/ VerifySignature \/ HashDocuments \/ ReadDocuments
           \/ CopyFile \/ Activate \/ InstallFails
    PROVE  IInv'
<1>1. UNCHANGED <<entry, check, reviewed, build, dir, opening, loaded>>
  BY DEF ReadManifest, VerifySignature, HashDocuments, ReadDocuments, CopyFile, Copies,
     Activate, InstallFails, Installing, governance, assembly
<1>2. Records' /\ TextsReviewed' /\ LoadedAsReviewed'
  BY <1>1 DEF IInv, Records, Record, TextsReviewed, LoadedAsReviewed
<1>3. Documents'
  <2>1. install # None \/ dir.manifest # None
    BY DEF ReadManifest, VerifySignature, HashDocuments, ReadDocuments, CopyFile, Copies,
       Activate, InstallFails, Goes
  <2> QED BY <1>1, <2>1 DEF IInv, Documents, Written
<1>4. Shapes' /\ Manifests' /\ Indexed'
  <2>1. CASE ReadManifest
    BY <1>1, <2>1 DEF ReadManifest, IInv, Shapes, Manifests, Justified, Indexed
  <2>2. CASE VerifySignature \/ HashDocuments
    <3>1. /\ install # None /\ UNCHANGED active
          /\ \E to \in {"hash", "read"} : install' = [install EXCEPT !.step = to]
      BY <2>2 DEF VerifySignature, HashDocuments, Goes, Installing
    <3>2. \E to \in {"hash", "read"} :
             install' = [step |-> to, manifest |-> install.manifest,
                         documents |-> install.documents, copy |-> install.copy]
      BY <3>1 DEF IInv, Shapes
    <3> QED BY <1>1, <3>1, <3>2 DEF IInv, Shapes, Manifests, Justified, Indexed
  <2>3. CASE ReadDocuments
    <3>1. /\ install # None /\ ContentsValid(install.manifest, dir.documents)
          /\ install' = [install EXCEPT !.step = "documents", !.documents = dir.documents]
          /\ UNCHANGED active
      BY <2>3 DEF ReadDocuments, Installing
    <3>2. install' = [step |-> "documents", manifest |-> install.manifest,
                      documents |-> dir.documents, copy |-> install.copy]
      BY <3>1 DEF IInv, Shapes
    <3>3. Spelled(dir.documents) \in reviewed
      <4>1. OneDocument(dir.documents) /\ Justified(install.manifest)
        BY <3>1 DEF IInv, Documents, Written, Manifests
      <4> QED BY <3>1, <4>1, ValidContentsSpell DEF Justified
    <3> QED BY <1>1, <3>1, <3>2, <3>3 DEF IInv, Shapes, Manifests, Justified, Indexed
  <2>4. CASE CopyFile
    <3>1. PICK file \in {"documents", "manifest", "signature"},
               to \in {"manifest", "signature", "copied"} : Copies(file, to)
      BY <2>4 DEF CopyFile
    <3> DEFINE copy == [install.copy EXCEPT ![file] = dir[file]]
    <3>2. /\ install # None /\ install.step = file /\ UNCHANGED active
          /\ install' = [step |-> to, manifest |-> install.manifest,
                         documents |-> install.documents, copy |-> copy]
      BY <3>1 DEF Copies, Installing, IInv, Shapes
    <3> HIDE DEF copy
    <3> QED BY <3>2, <1>1, <3>1 DEF IInv, Shapes, Manifests, Justified, Indexed
  <2>5. CASE Activate
    BY <1>1, <2>5 DEF Activate, IInv, Shapes, Manifests, Justified, Indexed
  <2>6. CASE InstallFails
    BY <1>1, <2>6 DEF InstallFails, IInv, Shapes, Manifests, Justified, Indexed
  <2> QED BY <2>1, <2>2, <2>3, <2>4, <2>5, <2>6
<1> QED BY <1>2, <1>3, <1>4 DEF IInv

\* What is loaded is what the index was made of.
LEMMA LoadKeeps == ASSUME IInv, ValidatePair \/ Load PROVE IInv'
<1>1. UNCHANGED <<entry, check, reviewed, build, dir, install, active>>
  BY DEF ValidatePair, Load, governance, assembly
<1>2. Spelled(active.indexed) \in reviewed
  BY DEF ValidatePair, Load, IInv, Indexed
<1>3. loaded' \in {None, active.indexed}
  BY DEF ValidatePair, Load, MatchesIndex
<1>4. LoadedAsReviewed'
  BY <1>1, <1>2, <1>3 DEF LoadedAsReviewed
<1> QED BY <1>1, <1>2, <1>4 DEF IInv, Shapes, Records, Record, TextsReviewed, Manifests, Justified,
           Documents, Written, Indexed

LEMMA SpoilKeeps == ASSUME IInv, Spoil PROVE IInv'
<1>1. CASE active # None /\ UNCHANGED <<install, opening, loaded, governance, assembly>>
           /\ \E chunks : active' = [active EXCEPT !.files.documents = chunks]
  <2>1. \E files : active' = [active EXCEPT !.files = files]
    BY <1>1
  <2>2. \E files : active' = [record |-> active.record, files |-> files,
                             indexed |-> active.indexed]
    BY <1>1, <2>1 DEF IInv, Shapes
  <2> QED BY <1>1, <2>2 DEF governance, assembly, IInv, Shapes, Records, Record,
             TextsReviewed, Manifests, Justified, Documents, Written, Indexed,
             LoadedAsReviewed
<1>2. CASE dir.manifest # None /\ UNCHANGED <<build, governance, runtime>>
           /\ \E chunks \in Spoilt(dir.manifest.source) :
                 dir' = [dir EXCEPT !.documents = chunks]
  <2>1. PICK chunks \in Spoilt(dir.manifest.source) : dir' = [dir EXCEPT !.documents = chunks]
    BY <1>2
  <2>2. OneDocument(chunks)
    BY ChunksAreOfDocument DEF Spoilt
  <2>3. dir' = [documents |-> chunks, manifest |-> dir.manifest, signature |-> dir.signature]
    BY <2>1 DEF IInv, Shapes
  <2> QED BY <1>2, <2>2, <2>3 DEF governance, runtime, IInv, Shapes, Records, Record,
             TextsReviewed, Manifests, Justified, Documents, Written, Indexed,
             LoadedAsReviewed
<1> QED BY <1>1, <1>2 DEF Spoil

LEMMA NextKeeps == IInv /\ [Next]_vars => IInv'
<1> SUFFICES ASSUME IInv, [Next]_vars PROVE IInv'
  OBVIOUS
<1>1. CASE Next
  BY <1>1, GovernanceKeeps, BuildKeeps, InstallKeeps, LoadKeeps, SpoilKeeps DEF Next
<1>2. CASE UNCHANGED vars
  BY <1>2 DEF vars, governance, assembly, runtime, IInv, Shapes, Records, Record,
     TextsReviewed, Manifests, Justified, Documents, Written, Indexed, LoadedAsReviewed
<1> QED BY <1>1, <1>2

-----------------------------------------------------------------------------
(* The theorems.                                                            *)

\* The application answers from texts that a person approved, whatever is
\* replaced or spoilt between the reads of an installation or a load
\* (_install_verified_release_from_staging, open_installed_release).
THEOREM LoadedTextsAreReviewed == Spec => []LoadedAsReviewed
<1>1. Spec => []IInv
  BY InitHolds, NextKeeps, PTL DEF Spec
<1> QED BY <1>1, PTL DEF IInv

\* Whatever dates a source has, the application judges it no fresher than the
\* maintainers' check of the unchanged page (assess_source_freshness and
\* _review_state_for_check).
THEOREM NeverFresherThanChecked == Spec => []FreshAsChecked
<1>1. FreshAsChecked
  BY DEF FreshAsChecked, Freshness, Dated, DatedState, BaseEligible, Passed, EligibleStates,
     MarkedOverdue, OverdueAllowed, Blocked, Usable, Current, Level
<1> QED BY <1>1, PTL
-----------------------------------------------------------------------------
(* What a build makes, the verification accepts.  How a text is cut into    *)
(* units is a computation over data, which TLC checks on texts; that the    *)
(* numbers and the names given to the units agree with those the            *)
(* verification counts out is proved here for units of any kind.            *)

\* Chunks spell the units, numbered without a gap and named apart, and their
\* names are those the verification counts out of the units.
Numbered(chunks, own, units) ==
    /\ DOMAIN chunks = DOMAIN units /\ own = DOMAIN chunks
    /\ Cardinality({chunks[i].id : i \in DOMAIN chunks}) = Len(chunks)
    /\ {chunks[i].index : i \in own} = 0 .. (Cardinality(own) - 1)
    /\ InSequence(chunks, own) = units
    /\ \A i \in own :
          chunks[i].id = ChunkId(chunks[i].source, chunks[i].document, chunks[i].content,
              Cardinality({k \in 1 .. chunks[i].index : units[k] = chunks[i].content}))

\* The chunks of a document are so numbered and named, though units repeat.
LEMMA ChunksAreNumbered ==
    ASSUME NEW document, NEW record, NEW A, NEW units \in Seq(A), units = Units(document.text)
    PROVE  LET chunks == Chunks(document, record)
           IN  Numbered(chunks, OfDocument(chunks, document.source, document.id), units)
<1> DEFINE chunks == Chunks(document, record)
           own == OfDocument(chunks, document.source, document.id)
           n == Len(units)
           name(i) == ChunkId(document.source, document.id, units[i], Occurrence(units, i))
<1>1. n \in Nat /\ DOMAIN units = 1 .. n
  OBVIOUS
<1>2. chunks = [i \in 1 .. n |->
                  [id |-> name(i), source |-> document.source, document |-> document.id,
                   index |-> i - 1, content |-> units[i], normalized |-> record.text,
                   review |-> document.review]]
  BY <1>1 DEF Chunks
<1> HIDE DEF chunks, n
<1>3. /\ DOMAIN chunks = 1 .. n /\ Len(chunks) = n
      /\ \A i \in 1 .. n : /\ chunks[i].id = name(i) /\ chunks[i].index = i - 1
                           /\ chunks[i].source = document.source
                           /\ chunks[i].document = document.id /\ chunks[i].content = units[i]
  BY <1>1, <1>2
<1>4. own = 1 .. n
  BY <1>3 DEF OfDocument
<1>5. IsFiniteSet(1 .. n) /\ Cardinality(1 .. n) = n
  <2>1. \A m \in Nat : IsFiniteSet(1 .. m) /\ Cardinality(1 .. m) = m
    BY FS_Interval
  <2> QED BY <1>1, <2>1
<1>6. {chunks[i].index : i \in 1 .. n} = 0 .. (n - 1)
  <2>1. \A k \in 0 .. (n - 1) : k + 1 \in 1 .. n /\ chunks[k + 1].index = k
    BY <1>1, <1>3
  <2>2. \A i \in 1 .. n : chunks[i].index \in 0 .. (n - 1)
    BY <1>1, <1>3
  <2> QED BY <2>1, <2>2
<1>7. \A k \in 1 .. n : At(chunks, 1 .. n, k - 1) = k
  <2> SUFFICES ASSUME NEW k \in 1 .. n PROVE At(chunks, 1 .. n, k - 1) = k
    OBVIOUS
  <2>1. \A i \in 1 .. n : chunks[i].index = k - 1 <=> i = k
    BY <1>1, <1>3
  <2> QED BY <2>1 DEF At
<1>8. InSequence(chunks, 1 .. n) = units
  <2>1. InSequence(chunks, 1 .. n) = [k \in 1 .. n |-> units[k]]
    BY <1>3, <1>5, <1>7 DEF InSequence
  <2>2. units = [k \in 1 .. n |-> units[k]]
    BY <1>1
  <2> QED BY <2>1, <2>2
<1>9. \A i \in 1 .. n : {j \in 1 .. (i - 1) : units[j] = units[i]}
                        = {k \in 1 .. chunks[i].index : units[k] = chunks[i].content}
  BY <1>3
<1>10. \A i \in 1 .. n :
          chunks[i].id = ChunkId(chunks[i].source, chunks[i].document, chunks[i].content,
              Cardinality({k \in 1 .. chunks[i].index : units[k] = chunks[i].content}))
  BY <1>3, <1>9 DEF Occurrence
<1>11. ASSUME NEW i \in 1 .. n, NEW j \in 1 .. n, i < j, units[i] = units[j]
       PROVE  Occurrence(units, i) # Occurrence(units, j)
  <2> DEFINE before(k) == {l \in 1 .. (k - 1) : units[l] = units[k]}
  <2>1. before(i) \in SUBSET before(j) /\ i \in before(j) /\ i \notin before(i)
    BY <1>1, <1>11
  <2>2. before(j) \in SUBSET (1 .. n)
    BY <1>1
  <2>3. Occurrence(units, i) = Cardinality(before(i)) /\ Occurrence(units, j) = Cardinality(before(j))
    BY DEF Occurrence
  <2> HIDE DEF before
  <2>4. IsFiniteSet(before(j))
    BY <1>5, <2>2, FS_Subset
  <2>5. before(i) # before(j)
    BY <2>1
  <2> QED BY <2>1, <2>3, <2>4, <2>5, FS_Subset
<1>12. \A i, j \in 1 .. n : chunks[i].id = chunks[j].id => i = j
  <2> SUFFICES ASSUME NEW i \in 1 .. n, NEW j \in 1 .. n, chunks[i].id = chunks[j].id, i < j
               PROVE  FALSE
    BY <1>1
  <2>1. units[i] = units[j] /\ Occurrence(units, i) = Occurrence(units, j)
    BY <1>3 DEF ChunkId
  <2> QED BY <1>11, <2>1
<1>13. Cardinality({chunks[i].id : i \in 1 .. n}) = n
  <2> DEFINE ids == {chunks[i].id : i \in 1 .. n}
             f == [i \in 1 .. n |-> chunks[i].id]
  <2>1. f \in Injection(1 .. n, ids) /\ f \in Surjection(1 .. n, ids)
    BY <1>12 DEF Injection, Surjection, IsInjective
  <2> HIDE DEF f, ids
  <2>2. Cardinality(ids) = n
    BY <1>5, <2>1, FS_Surjection
  <2> QED BY <2>2 DEF ids
<1> QED BY <1>1, <1>3, <1>4, <1>5, <1>6, <1>8, <1>10, <1>13 DEF chunks, Numbered

\* What a build begins with, an eligible reviewed source and its document, and
\* the chunks it makes of them, pass the verification.
LEMMA ChunkableIsValid ==
    ASSUME NEW text \in Texts, CutWhole(text), NEW manifest,
           manifest.source.state \in EligibleStates, manifest.source.reviewers,
           Chunkable(Document(text, manifest.source), manifest.source),
           \A i \in DOMAIN manifest.source.text : Len(manifest.source.text[i]) <= MaxLetters
    PROVE  ContentsValid(manifest, Chunks(Document(text, manifest.source), manifest.source))
<1> DEFINE r == manifest.source
           document == Document(text, r)
           chunks == Chunks(document, r)
           own == OfDocument(chunks, document.source, document.id)
<1>1. /\ document.text = text /\ document.source = r.source /\ document.id = "document"
      /\ document.review = r.state /\ r.text = Normalized(text)
  BY DEF Document, Chunkable
<1>2. SourceValid(r)
  BY <1>1, NoneIsNoText DEF SourceValid
<1>3. Numbered(chunks, own, Units(text))
  <2>1. Units(text) \in Seq(Range(Units(text))) /\ Units(text) = Units(document.text)
    BY <1>1 DEF CutWhole
  <2> HIDE DEF document
  <2> QED BY <2>1, ChunksAreNumbered
<1>4. FlattenSeq(Units(text)) = r.text
  BY <1>1 DEF CutWhole
<1>5. \A i \in DOMAIN chunks : /\ chunks[i].source = r.source /\ chunks[i].document = document.id
                               /\ chunks[i].review = r.state /\ chunks[i].normalized = r.text
  BY <1>1 DEF Chunks
<1> HIDE DEF chunks, document
<1>6. SequenceValid(chunks, own, r)
  BY <1>3, <1>4 DEF Numbered, SequenceValid
<1>7. \A i \in DOMAIN chunks : OfDocument(chunks, chunks[i].source, chunks[i].document) = own
  BY <1>1, <1>5
<1>8. \E i \in DOMAIN chunks : TRUE
  <2>1. 1 \in DOMAIN Units(text)
    BY DEF CutWhole
  <2> QED BY <1>3, <2>1 DEF Numbered
<1>9. ChunksValid(chunks, {r})
  BY <1>3, <1>5, <1>6, <1>7, <1>8 DEF Numbered, ChunksValid
<1> QED BY <1>2, <1>9 DEF ContentsValid, chunks, document

\* A build that has written nothing yet holds what it began with.
Began ==
    build # None /\ build.step = "documents" =>
        LET source == build.manifest.source
        IN  /\ source.state \in EligibleStates /\ source.reviewers
            /\ \E text \in Texts : /\ Chunkable(Document(text, source), source)
                                   /\ build.documents = Chunks(Document(text, source), source)

LEMMA BeganHolds == Spec => []Began
<1>1. Init => Began
  BY DEF Init, Began
<1>2. ASSUME Began, Shapes, [Next]_vars PROVE Began'
  <2>1. CASE BeginBuild
    <3>1. PICK record \in {entry, check} \ {None}, text \in Texts,
               version \in Versions, root \in DOMAIN Roots, key \in Keys :
             /\ record.state \in EligibleStates /\ record.reviewers
             /\ Chunkable(Document(text, record), record)
             /\ build' = [step |-> "documents", key |-> key,
                          documents |-> Chunks(Document(text, record), record),
                          manifest |-> [source |-> record, version |-> version, root |-> root,
                                        documents |-> Chunks(Document(text, record), record)]]
      BY <2>1 DEF BeginBuild
    <3>2. /\ build'.manifest.source = record
          /\ build'.documents = Chunks(Document(text, record), record)
      BY <3>1
    <3> QED BY <3>1, <3>2 DEF Began
  <2>2. CASE WriteDocuments \/ WriteManifest \/ SignManifest \/ EndBuild
    <3>1. build' = None \/ \E to \in {"manifest", "signature", "written"} :
             build' = [build EXCEPT !.step = to]
      BY <2>2 DEF WriteDocuments, WriteManifest, SignManifest, EndBuild, Assembles
    <3>2. build' # None /\ build'.step = "documents" => build' = build
      <4>1. build # None
        BY <2>2 DEF WriteDocuments, WriteManifest, SignManifest, EndBuild, Assembles
      <4>2. ASSUME NEW to \in {"manifest", "signature", "written"},
                   build' = [build EXCEPT !.step = to]
            PROVE  build'.step # "documents"
        BY <1>2, <4>1, <4>2 DEF Shapes
      <4> QED BY <3>1, <4>2
    <3> QED BY <1>2, <3>2 DEF Began
  <2>3. CASE UNCHANGED build
    BY <1>2, <2>3 DEF Began
  <2>4. ASSUME Next, ~BeginBuild, ~(WriteDocuments \/ WriteManifest \/ SignManifest \/ EndBuild)
        PROVE  UNCHANGED build
    BY <2>4 DEF Next, CheckSource, ApproveCheck, Admit, NoteState, Tick, ReadManifest,
       VerifySignature, HashDocuments, ReadDocuments, CopyFile, Copies, Installing, Activate,
       InstallFails, ValidatePair, Load, Spoil, assembly
  <2>5. UNCHANGED vars => UNCHANGED build
    BY DEF vars, assembly
  <2> QED BY <1>2, <2>1, <2>2, <2>3, <2>4, <2>5
<1>3. Spec => []IInv
  BY InitHolds, NextKeeps, PTL DEF Spec
<1>4. IInv => Shapes
  BY DEF IInv
<1> QED BY <1>1, <1>2, <1>3, <1>4, PTL DEF Spec

\* Whatever reviewed source a build takes, the installation accepts what it makes
\* of it, provided the cutting of its texts loses no word.
THEOREM BuildsAreAccepted ==
    ASSUME \A text \in Texts : CutWhole(text)
    PROVE  Spec => []BuildsAreValid
<1>1. ASSUME Began PROVE BuildsAreValid
  <2> SUFFICES ASSUME build # None, build.step = "documents",
                      \A i \in DOMAIN build.manifest.source.text :
                          Len(build.manifest.source.text[i]) <= MaxLetters
               PROVE  ContentsValid(build.manifest, build.documents)
    BY DEF BuildsAreValid
  <2> DEFINE source == build.manifest.source
  <2>1. PICK text \in Texts : /\ Chunkable(Document(text, source), source)
                              /\ build.documents = Chunks(Document(text, source), source)
    BY <1>1 DEF Began
  <2>2. source.state \in EligibleStates /\ source.reviewers
    BY <1>1 DEF Began
  <2> QED BY <2>1, <2>2, ChunkableIsValid
<1> QED BY <1>1, BeganHolds, PTL
=============================================================================
