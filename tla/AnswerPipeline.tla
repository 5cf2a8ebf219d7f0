---------------------------- MODULE AnswerPipeline ----------------------------
(***************************************************************************)
(* The evidence-bounded answer (answer_pipeline.py, answer_verification.py): *)
(* a local model drafts an answer from the retrieved evidence, a separate  *)
(* request to the model judges every statement of the draft, a rejected    *)
(* draft is repaired once, and what then remains is a partial answer or a  *)
(* failure.  Every exchange with the model is a step, with whatever reply  *)
(* a local provider may give: a well-formed one, an invalid one (re-asked  *)
(* once), a truncated one, or none.                                        *)
(*                                                                         *)
(* A section is its kind, its text and its citations.  What texts say is   *)
(* left to constant sets: which of them contain a pronoun that depends on  *)
(* another statement, and which contain a phrase that, to a safety-         *)
(* sensitive question, is a prohibited personal conclusion.                *)
(***************************************************************************)
EXTENDS Naturals, Sequences, FiniteSets

CONSTANTS
    ModelSections, \* sections the model may write
    MaxSections,   \* bound on the sections of a draft
    Dependent,     \* texts with a pronoun or cross-reference
    Prohibited     \* texts with a prohibited phrase

\* The model's own summary, and the texts the application writes.
Freeform == "freeform summary"
RefusalText == "refusal of a personal decision"
WarningText == "source warning"
NoticeText == "notice that the answer is partial"
NoEvidenceText == "no approved evidence"

SectionKinds == {"official_fact", "interpretation", "refusal", "source_warning"}

ASSUME ConstantsAssumption ==
    /\ \A s \in ModelSections : s.kind \in SectionKinds
    /\ MaxSections \in Nat \ {0}

VARIABLES
    pc,       \* "idle", the exchange in progress, or "done"
    safety,   \* the safety decision: none, refuse a part, refuse all
    warned,   \* does the evidence call for a source warning?
    draft,    \* the draft as it will be verified
    attempt,  \* 0, or 1 once a draft has been rejected
    verTry,   \* verification requests for this draft that were answered
    chatTry,  \* invalid replies in this exchange
    verdicts, \* the verification response the outcome rests on
    calls,    \* model requests made for this question
    outcome   \* what the question got

vars == <<pc, safety, warned, draft, attempt, verTry, chatTry, verdicts, calls,
          outcome>>

Checks == {"supported", "unfaithful", "unsupported", "non_factual",
           "malformed", "malformed_negative"}
Drafts == [summary : {Freeform},
           sections : UNION {[1 .. n -> ModelSections] : n \in 1 .. MaxSections}]
NoDraft == [summary |-> Freeform, sections |-> <<>>]
NoOutcome == [kind |-> "none", summary |-> Freeform, sections |-> <<>>]
NoResponse == [complete |-> FALSE, checks |-> <<>>]

Cites(sections) == UNION {sections[i].cites : i \in DOMAIN sections}

\* What the verifier checks: the summary, then every section (_entries).
Entries(d) ==
    <<[kind |-> "summary", text |-> d.summary, cites |-> Cites(d.sections)]>>
        \o d.sections

\* Complete, or with items missing or added: of those only matters whether a
\* claim is rejected.
Responses(d) ==
    LET items == 1 .. Len(d.sections) + 1 IN
    [complete : {TRUE}, checks : [items -> Checks]]
    \cup [complete : {FALSE}, checks : {[i \in items |-> check] :
             check \in {"malformed", "malformed_negative"}}]

TypeOK ==
    /\ pc \in {"idle", "generate", "verify", "repair", "done"}
    /\ safety \in {"none", "refuse", "skip"}
    /\ warned \in BOOLEAN
    /\ Len(draft.sections) <= MaxSections
    /\ \A i \in DOMAIN draft.sections : draft.sections[i] \in ModelSections
    /\ attempt \in 0 .. 1 /\ verTry \in 0 .. 1 /\ chatTry \in 0 .. 1
    /\ verdicts = NoResponse \/ verdicts \in Responses(draft)
    /\ calls \in Nat
    /\ outcome.kind \in {"none", "answer", "partial", "refusal", "clarification",
                         "unsupported", "invalid", "provider"}

Init ==
    /\ pc = "idle"
    /\ safety = "none" /\ warned = FALSE
    /\ draft = NoDraft
    /\ attempt = 0 /\ verTry = 0 /\ chatTry = 0
    /\ verdicts = NoResponse
    /\ calls = 0
    /\ outcome = NoOutcome

-----------------------------------------------------------------------------
(* Building answers *)

HasKind(sections, kind) == \E i \in DOMAIN sections : sections[i].kind = kind

\* The text of the first section of a kind.
FirstText(sections, kind) ==
    LET i == CHOOSE i \in DOMAIN sections :
                /\ sections[i].kind = kind
                /\ \A j \in 1 .. i - 1 : sections[j].kind # kind
    IN sections[i].text

\* _assemble_supported_summary: the first official fact, or the refusal.
Summary(sections, default) ==
    IF HasKind(sections, "official_fact") THEN FirstText(sections, "official_fact")
    ELSE IF HasKind(sections, "refusal") THEN FirstText(sections, "refusal")
    ELSE default

\* Mutant: the model's own summary is kept.
PreparedAsWritten(d) == d

\* prepare
Prepared(d) ==
    [d EXCEPT !.summary = Summary(d.sections, d.summary)]

AppSection(kind, text) == [kind |-> kind, text |-> text, cites |-> {}]
If(condition, section) == IF condition THEN <<section>> ELSE <<>>

\* _augment_generated_payload: the application's refusal, unless the draft has
\* it, and its source warning.
Augmented(sections) ==
    sections
    \o If(/\ safety # "none"
          /\ \A i \in DOMAIN sections :
                sections[i].kind = "refusal" => sections[i].text # RefusalText,
          AppSection("refusal", RefusalText))
    \o If(warned, AppSection("source_warning", WarningText))

\* _reject_prohibited_safety_claims
DrawsConclusion(summary, sections) ==
    /\ safety # "none"
    /\ \/ summary \in Prohibited
       \/ \E i \in DOMAIN sections :
             sections[i].kind # "refusal" /\ sections[i].text \in Prohibited

\* validate_answer, of the sections the model wrote
Valid(sections) ==
    /\ HasKind(sections, "official_fact") \/ HasKind(sections, "refusal")
    /\ \A i \in DOMAIN sections :
          sections[i].kind = "official_fact" => sections[i].cites # {}

\* _complete_verified_answer, of sections whose statements were all verified.
Completed(kind, sections) ==
    LET all == Augmented(sections)
                 \o If(kind = "partial", AppSection("refusal", NoticeText))
    IN [kind |-> kind, summary |-> Summary(all, Freeform), sections |-> all]

\* Mutant: only the sections are validated.
CompletesUnchecked(kind, sections) == Valid(sections)

Completes(kind, sections) ==
    /\ Valid(sections)
    /\ LET a == Completed(kind, sections) IN ~DrawsConclusion(a.summary, a.sections)

-----------------------------------------------------------------------------
(* Judging drafts *)

\* One entry of validate_verification: the witnesses support it, or there is
\* nothing in it to support.
Accepts(entry, check) ==
    \/ check = "supported" /\ entry.cites # {}
    \/ check = "non_factual" /\ entry.kind # "official_fact"

Verified(d, v) ==
    v.complete /\ \A i \in DOMAIN v.checks : Accepts(Entries(d)[i], v.checks[i])

\* verification_rejects_claim
RejectsClaim(v) ==
    \E i \in DOMAIN v.checks : v.checks[i] \in {"unsupported", "malformed_negative"}

\* partial_verified_answer: a complete typed response is required.
Typed(d, v) ==
    /\ v.complete
    /\ \A i \in DOMAIN v.checks :
          /\ v.checks[i] \notin {"malformed", "malformed_negative"}
          /\ v.checks[i] = "non_factual" => Entries(d)[i].kind # "official_fact"

NegativeTexts(d, v) ==
    {Entries(d)[i].text : i \in {j \in DOMAIN v.checks : v.checks[j] = "unsupported"}}

\* Mutant: a text rejected in another section is kept in this one.
RetainsDuplicates(d, v, i) ==
    LET s == d.sections[i] IN
    /\ s.kind = "official_fact"
    /\ v.checks[i + 1] = "supported" /\ s.cites # {}
    /\ s.text \notin Dependent

\* Mutant: a positive verdict is enough, whatever its witnesses.
RetainsUnwitnessed(d, v, i) ==
    LET s == d.sections[i] IN
    /\ s.kind = "official_fact"
    /\ v.checks[i + 1] \in {"supported", "unfaithful"} /\ s.cites # {}
    /\ s.text \notin NegativeTexts(d, v)
    /\ s.text \notin Dependent

\* The section is kept: a fact with its own valid witnesses, that depends on
\* no other statement and whose text is rejected nowhere.
Retains(d, v, i) ==
    LET s == d.sections[i] IN
    /\ s.kind = "official_fact"
    /\ v.checks[i + 1] = "supported" /\ s.cites # {}
    /\ s.text \notin NegativeTexts(d, v)
    /\ s.text \notin Dependent

\* The k-th of a set of positions.
Kth(positions, k) ==
    CHOOSE i \in positions : Cardinality({j \in positions : j <= i}) = k

\* The sections that are kept, in their order.
RetainedSections(d, v) ==
    LET kept == {i \in DOMAIN d.sections : Retains(d, v, i)} IN
    [k \in 1 .. Cardinality(kept) |-> d.sections[Kth(kept, k)]]

\* Mutant: nothing needs to have been left out.
SalvageableWhole(d, v) ==
    /\ Typed(d, v)
    /\ RetainedSections(d, v) # <<>>

Salvageable(d, v) ==
    /\ Typed(d, v)
    /\ RetainedSections(d, v) # <<>>
    /\ RetainedSections(d, v) # d.sections

-----------------------------------------------------------------------------
(* The service *)

\* AnswerService.answer up to the first draft: a question may need
\* clarification, find no eligible evidence, or be refused as a whole.
Ask ==
    /\ pc = "idle"
    /\ safety' \in {"none", "refuse", "skip"} /\ warned' \in BOOLEAN
    /\ calls' = 0 /\ attempt' = 0 /\ verTry' = 0 /\ chatTry' = 0
    /\ draft' = NoDraft /\ verdicts' = NoResponse
    /\ \/ /\ pc' = "done"
          /\ outcome' = [NoOutcome EXCEPT !.kind = "clarification"]
       \/ /\ pc' = "done"
          /\ outcome' = [kind |-> "unsupported", summary |-> Freeform,
                         sections |-> <<AppSection("refusal", NoEvidenceText)>>
                             \o If(warned', AppSection("source_warning", WarningText))]
       \/ /\ safety' = "skip"
          /\ pc' = "done"
          /\ outcome' = [kind |-> "refusal", summary |-> RefusalText,
                         sections |-> <<AppSection("refusal", RefusalText)>>
                             \o If(warned', AppSection("source_warning", WarningText))]
       \/ /\ safety' # "skip"
          /\ pc' = "generate"
          /\ outcome' = NoOutcome

Answers(kind, sections, v) ==
    /\ pc' = "done"
    /\ outcome' = Completed(kind, sections)
    /\ verdicts' = v
    /\ UNCHANGED attempt

Fails(kind) ==
    /\ pc' = "done"
    /\ outcome' = [NoOutcome EXCEPT !.kind = kind]
    /\ UNCHANGED <<attempt, verdicts>>

\* Mutant: any rejected draft is sent back to the writer, again and again.
RepairsAgain(v) ==
    /\ pc' = "repair"
    /\ attempt' = 1
    /\ UNCHANGED <<verdicts, outcome>>

\* EvidenceBoundedAnswer.answer: the first rejection asks for a repair, the
\* second leaves what its own verification response supports.
Rejected(v) ==
    \/ /\ attempt = 0
       /\ attempt' = 1
       /\ pc' = "repair"
       /\ UNCHANGED <<verdicts, outcome>>
    \/ /\ attempt = 1
       /\ LET sections == RetainedSections(draft, v) IN
          IF /\ v # NoResponse /\ Salvageable(draft, v)
             /\ Completes("partial", sections)
          THEN Answers("partial", sections, v)
          ELSE Fails("invalid")

\* A request to the model is in progress.
Exchange ==
    pc \in {"generate", "repair"} \/ (pc = "verify" /\ draft # NoDraft)
Counted == calls' = calls + 1

\* generate, repair_answer: a draft, citing evidence by the labels it was given.
Draft(d) ==
    /\ pc \in {"generate", "repair"}
    /\ Counted
    /\ draft' = Prepared(d)
    /\ pc' = "verify"
    /\ verTry' = 0 /\ chatTry' = 0
    /\ UNCHANGED <<safety, warned, attempt, verdicts, outcome>>

\* An unknown, duplicate or overlapping citation label ends the question.
UnknownCitation ==
    /\ pc \in {"generate", "repair"}
    /\ Counted
    /\ Fails("invalid")
    /\ UNCHANGED <<safety, warned, draft, verTry, chatTry>>

\* The draft is no answer, or its verification request would be too long: it
\* is rejected without asking.
CannotVerify ==
    /\ pc = "verify"
    /\ Rejected(NoResponse)
    /\ chatTry' = 0
    /\ UNCHANGED <<safety, warned, draft, verTry, calls>>

\* verified_claims: one correction, never of a negative verdict.
Judge(v) ==
    \/ /\ Verified(draft, v)
       /\ IF Completes("answer", draft.sections)
          THEN Answers("answer", draft.sections, v)
          ELSE Rejected(NoResponse)
       /\ UNCHANGED verTry
    \/ /\ ~Verified(draft, v)
       /\ verTry = 0 /\ ~RejectsClaim(v)
       /\ verTry' = 1
       /\ UNCHANGED <<pc, attempt, verdicts, outcome>>
    \/ /\ ~Verified(draft, v)
       /\ verTry = 1 \/ RejectsClaim(v)
       /\ Rejected(v)
       /\ UNCHANGED verTry

Verify(v) ==
    /\ pc = "verify" /\ draft # NoDraft
    /\ v \in Responses(draft)
    /\ Counted
    /\ chatTry' = 0
    /\ Judge(v)
    /\ UNCHANGED <<safety, warned, draft>>

\* structured_chat: an empty reply or one that is not an object is re-asked once.
InvalidReply ==
    /\ Exchange
    /\ Counted
    /\ \/ /\ chatTry = 0 /\ chatTry' = 1
          /\ UNCHANGED <<pc, attempt, outcome, verdicts>>
       \/ /\ chatTry = 1 /\ chatTry' = 0
          /\ IF pc = "verify" THEN Rejected(NoResponse) ELSE Fails("invalid")
    /\ UNCHANGED <<safety, warned, draft, verTry>>

\* A reply cut off at the context length is not re-asked.
TruncatedReply ==
    /\ Exchange
    /\ Counted
    /\ IF pc = "verify" THEN Rejected(NoResponse) ELSE Fails("invalid")
    /\ chatTry' = 0
    /\ UNCHANGED <<safety, warned, draft, verTry>>

\* The provider cannot be reached, times out, or the privacy boundary refuses.
ProviderFails ==
    /\ Exchange
    /\ Counted
    /\ Fails("provider")
    /\ UNCHANGED <<safety, warned, draft, verTry, chatTry>>

\* The request handler takes the result.
Deliver ==
    /\ pc = "done"
    /\ pc' = "idle"
    /\ UNCHANGED <<safety, warned, draft, attempt, verTry, chatTry, verdicts,
                   calls, outcome>>

Answering ==
    \/ \E d \in Drafts \cup {NoDraft} : Draft(d)
    \/ UnknownCitation
    \/ CannotVerify
    \/ \E v \in Responses(draft) : Verify(v)
    \/ InvalidReply
    \/ TruncatedReply
    \/ ProviderFails

Next == Ask \/ Answering \/ Deliver

Spec == Init /\ [][Next]_vars

-----------------------------------------------------------------------------
(* Properties *)

Answered == outcome.kind \in {"answer", "partial"}
OfficialFacts == {i \in DOMAIN outcome.sections :
                     outcome.sections[i].kind = "official_fact"}

\* The retries of a reply, of a verification and of a draft multiply to at
\* most twelve model requests for one question (structured_chat,
\* verified_claims and EvidenceBoundedAnswer.answer together).
ModelCallsBounded == calls <= 12

\* Every official fact of an answer, whole or partial, is a section of the
\* draft that was judged last, and that judgement found its citations to
\* support it; a rejected draft's fact never rests on another draft's verdict.
Grounded ==
    Answered =>
        \A i \in OfficialFacts :
            \E j \in DOMAIN draft.sections :
                /\ outcome.sections[i] = draft.sections[j]
                /\ draft.sections[j].cites # {}
                /\ verdicts.checks[j + 1] = "supported"

\* What the summary of an answer says was itself verified: as the summary of
\* the judged draft, or, of a partial answer, as the section it repeats.
SummaryVerified ==
    /\ outcome.kind = "answer" =>
          /\ outcome.summary = draft.summary
          /\ verdicts.checks[1] \in {"supported", "non_factual"}
    /\ outcome.kind = "partial" =>
          \E i \in OfficialFacts : outcome.summary = outcome.sections[i].text

\* A text rejected anywhere in the judged draft comes back neither as a
\* duplicate of it nor as the summary.
RejectedTextsOmitted ==
    Answered =>
        /\ outcome.summary \notin NegativeTexts(draft, verdicts)
        /\ \A i \in OfficialFacts :
              outcome.sections[i].text \notin NegativeTexts(draft, verdicts)

\* An answer that says nothing of omissions has every section of the verified
\* draft, in its order; one that says it is partial has left something out.
OmissionsDisclosed ==
    LET facts == Cardinality(OfficialFacts) IN
    /\ outcome.kind = "answer" =>
          /\ Len(draft.sections) <= Len(outcome.sections)
          /\ \A i \in DOMAIN draft.sections :
                outcome.sections[i] = draft.sections[i]
    /\ outcome.kind = "partial" =>
          /\ 0 < facts /\ facts < Len(draft.sections)
          /\ outcome.sections[Len(outcome.sections)].text = NoticeText

\* A safety-sensitive question that is answered, wholly or in part, is
\* answered with the application's refusal of the personal decision, and
\* neither its summary nor any section but a refusal draws a prohibited
\* conclusion.  Refusals are exempt, also those the model wrote.
SafetyKept ==
    /\ (Answered \/ outcome.kind = "refusal") /\ safety # "none" =>
          \E i \in DOMAIN outcome.sections :
             /\ outcome.sections[i].kind = "refusal"
             /\ outcome.sections[i].text = RefusalText
    /\ Answered /\ safety # "none" =>
          /\ outcome.summary \notin Prohibited
          /\ \A i \in DOMAIN outcome.sections :
                outcome.sections[i].text \in Prohibited =>
                   outcome.sections[i].kind = "refusal"

\* The displayed summary repeats the refusal when no official fact exists
\* (docs/architecture.md:156): a verified draft that does no more than refuse,
\* in the application's own words, is delivered.
RefusalAnswered ==
    [][\A v \in Responses(draft) :
          /\ Verify(v) /\ Verified(draft, v)
          /\ \A i \in DOMAIN draft.sections :
                draft.sections[i].kind = "refusal"
                    /\ draft.sections[i].text = RefusalText
          => outcome'.kind = "answer"]_vars

\* README.md: "personal-eligibility conclusions [...] are declined explicitly":
\* no section of an answer to a safety-sensitive question draws one.
NoConclusionShown ==
    Answered /\ safety # "none" =>
        \A i \in DOMAIN outcome.sections : outcome.sections[i].text \notin Prohibited
=============================================================================
