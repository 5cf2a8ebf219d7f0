------------------------------ MODULE Retrieval ------------------------------
(***************************************************************************)
(* Hybrid retrieval (retrieval.py, HybridRetriever.retrieve): a question   *)
(* becomes a filter on topics, the lexical and the dense channel rank the  *)
(* documents, reciprocal rank fusion joins the rankings, and a selection   *)
(* reserves a place for every intent, covers the examinations named, adds  *)
(* other sources, and fetches the introduction of a list.                  *)
(*                                                                         *)
(* How well a text matches is data: a channel may rank the documents it    *)
(* finds in any order.  A document is                                      *)
(*   [source, index, language, tags, exams, intro, evidence]               *)
(* and is named by its position in the corpus; a question is               *)
(*   [cues, exams, generic]                                                *)
(* - the subjects its words point to, the examinations it names, and       *)
(* whether it asks about Danish examinations without naming one.           *)
(***************************************************************************)
EXTENDS TrustIndicators, SequencesExt

CONSTANTS
    Corpora,      \* the corpora: [chunked, documents]
    Questions,
    Languages,    \* REVIEWED_SOURCE_LANGUAGES
    Clocks,       \* the evaluation times
    ChannelLimit, \* RETRIEVAL_CHANNEL_LIMIT
    Limit,        \* limit
    K,            \* RRF_K
    Scale         \* a common multiple of the K + rank that occur

\* The examinations the application can name (_mentioned_exams).
Examinations == {"pd1", "pd2", "pd3", "studieproeven"}

ASSUME RetrievalAssumption ==
    /\ ChannelLimit \in Nat /\ Limit \in 0 .. ChannelLimit
    /\ K \in Nat /\ Scale \in Nat \ {0} /\ \A r \in 1 .. ChannelLimit : Scale % (K + r) = 0
    /\ \A c \in Corpora :
          /\ c.documents \in Seq(Range(c.documents))
          /\ \A i \in DOMAIN c.documents :
                c.documents[i].index \in Nat /\ c.documents[i].exams \subseteq Examinations
    /\ \A q \in Questions : q.exams \subseteq Examinations

VARIABLES
    corpus, question,
    phase,
    evaluatedAt,  \* read once, before the channels
    lexical, dense,
    ranked,       \* what the selection starts from
    chosen,       \* selected_ids, before the context of a list
    result, kept, \* selected_ids and protected, with the context of a list
    next          \* the chosen passage whose context comes next

retrievalVars == <<corpus, question, phase, evaluatedAt, lexical, dense, ranked,
                   chosen, result, kept, next>>

docs == corpus.documents
Ids == DOMAIN docs

\* The elements of a set in an order, a set of pairs; and the elements of a
\* sequence at a set of places.
Sorted(S, order) ==
    [k \in 1 .. Cardinality(S) |->
        CHOOSE x \in S : Cardinality({y \in S : <<y, x>> \in order}) = k - 1]
Places(s, P) ==
    [k \in 1 .. Cardinality(P) |-> s[Sorted(P, {p \in P \X P : p[1] < p[2]})[k]]]

(***************************************************************************)
(* The filter of a question.                                               *)
(***************************************************************************)
Intents == <<"permanent-residence", "exam-comparison", "registration-logistics",
             "certificate-equivalence">>

Intended(q) ==
    Places(Intents, {i \in DOMAIN Intents :
        /\ Intents[i] \in q.cues
        /\ Intents[i] = "permanent-residence" => "exam-comparison" \notin q.cues})
Shared(q) == q.cues \cap {"language-requirement"}

\* One group of required tags per intent; none at all is no filter on topics.
Groups(q) ==
    IF Intended(q) # <<>> THEN [i \in DOMAIN Intended(q) |-> {Intended(q)[i]} \cup Shared(q)]
    ELSE IF Shared(q) # {} THEN <<Shared(q)>> ELSE <<>>

groups == Groups(question)
Covers(d, group) == group \subseteq docs[d].tags
Matches(d) ==
    /\ docs[d].language \in Languages
    /\ groups = <<>> \/ \E i \in DOMAIN groups : Covers(d, groups[i])
Eligible(d) == AnswerEligible(docs[d].evidence, evaluatedAt)
Candidates == {d \in Ids : Eligible(d) /\ Matches(d)}

(***************************************************************************)
(* The selection of results.                                               *)
(***************************************************************************)
Sources(sel) == {docs[sel[i]].source : i \in DOMAIN sel}
Exams(sel) == UNION {docs[sel[i]].exams : i \in DOMAIN sel}
Take(s, n) == SubSeq(s, 1, IF Len(s) < n THEN Len(s) ELSE n)

\* The best document of every group, each once.
Foremost(list, group) == SelectInSeq(list, LAMBDA d : Covers(d, group))
Reserved(list) ==
    LET best == [i \in DOMAIN groups |-> Foremost(list, groups[i])]
        new == {i \in DOMAIN groups : best[i] # 0 /\ \A j \in 1 .. (i - 1) : best[j] # best[i]}
    IN  [k \in 1 .. Cardinality(new) |-> list[Places(best, new)[k]]]

\* The first of every source not yet selected, and whatever is not.
WithSources(sel, list, limit) ==
    sel \o Take(Places(list, {i \in DOMAIN list :
                    /\ docs[list[i]].source \notin Sources(sel)
                    /\ \A j \in 1 .. (i - 1) : docs[list[j]].source # docs[list[i]].source}),
                limit - Len(sel))
Filled(sel, list, limit) ==
    sel \o Take(Places(list, {i \in DOMAIN list : ~Contains(sel, list[i])}), limit - Len(sel))
InOrder(sel, list) ==
    Places(list, {i \in DOMAIN list : Contains(sel, list[i])})
        \o Places(sel, {i \in DOMAIN sel : ~Contains(list, sel[i])})

\* What a channel hands to the fusion.
Channel(list) ==
    IF groups = <<>> THEN Take(list, ChannelLimit)
    ELSE InOrder(Filled(Take(Reserved(list), ChannelLimit), list, ChannelLimit), list)

(***************************************************************************)
(* Reciprocal rank fusion.  Scores are scaled to whole numbers; ties go to *)
(* the better rank, then to the earlier channel, then to the identity.     *)
(***************************************************************************)
Rank(ranking, d) == SelectInSeq(ranking, LAMBDA o : o = d)
Ranking(rankings, d) == {c \in DOMAIN rankings : Contains(rankings[c], d)}
\* There are at most three rankings.
Score(rankings, d) ==
    LET Part(c) == IF c \in Ranking(rankings, d) THEN Scale \div (K + Rank(rankings[c], d)) ELSE 0
    IN  Part(1) + Part(2) + Part(3)
Best(rankings, d) == Min({Rank(rankings[c], d) : c \in Ranking(rankings, d)})
First(rankings, d) == Min(Ranking(rankings, d))

Weight(rankings, d) == <<-Score(rankings, d), Best(rankings, d), First(rankings, d), d>>
Before(v, w) == \E i \in 1 .. 4 : v[i] < w[i] /\ \A j \in 1 .. (i - 1) : v[j] = w[j]
Fusion(rankings) ==
    LET weights == {Weight(rankings, d) : d \in UNION {ToSet(rankings[c]) : c \in DOMAIN rankings}}
        sorted == Sorted(weights, {p \in weights \X weights : Before(p[1], p[2])})
    IN  [k \in DOMAIN sorted |-> sorted[k][4]]

(***************************************************************************)
(* The passages about the examinations asked for, within each source.      *)
(***************************************************************************)
About(d) ==
    IF question.exams # {} THEN IF docs[d].exams \cap question.exams # {} THEN 1 ELSE 0
    ELSE Cardinality(docs[d].exams)

\* A source keeps its places in the ranking; its passages are put into them by
\* how far they are about the examinations, equal ones in their order.
OfSource(list, i) == {j \in DOMAIN list : docs[list[j]].source = docs[list[i]].source}
Sooner(list, j, i) ==
    \/ About(list[j]) > About(list[i])
    \/ About(list[j]) = About(list[i]) /\ j < i
Preferred(list) ==
    LET own(i) == OfSource(list, i)
        sorted(i) == Sorted(own(i), {p \in own(i) \X own(i) : Sooner(list, p[1], p[2])})
    IN  IF question.exams = {} /\ ~question.generic THEN list
        ELSE [i \in DOMAIN list |-> list[sorted(i)[Cardinality({j \in own(i) : j <= i})]]]

\* One passage for each source whose title the question's words match.
Representatives(list, sources) ==
    [i \in DOMAIN sources |-> list[SelectInSeq(list, LAMBDA d : docs[d].source = sources[i])]]

(***************************************************************************)
(* The introduction of a list that a selected passage may belong to.       *)
(***************************************************************************)
\* Mutant: any introduction of the source, usable or not.
AnyIntroductions(d) ==
    {c \in Ids : /\ docs[c].source = docs[d].source
                 /\ docs[c].intro /\ docs[c].index < docs[d].index}

Introductions(d) ==
    {c \in Candidates : /\ docs[c].source = docs[d].source
                        /\ docs[c].intro /\ docs[c].index < docs[d].index}
Nearest(d) ==
    CHOOSE c \in Introductions(d) : \A o \in Introductions(d) : docs[o].index <= docs[c].index

Replaced(sel, i, c) == [sel EXCEPT ![i] = c]
\* Mutant: a replacement may lose an examination.
ReplaceableUnnamed(sel, d, c) == {i \in DOMAIN sel : sel[i] \notin kept \cup {d}}
\* Mutant: the places of the intents are not protected.
ReplaceableReserved(sel, d, c) ==
    {i \in DOMAIN sel : /\ sel[i] # d
                        /\ Exams(sel) \cap question.exams \subseteq Exams(Replaced(sel, i, c))}

Replaceable(sel, d, c) ==
    {i \in DOMAIN sel : /\ sel[i] \notin kept \cup {d}
                        /\ Exams(sel) \cap question.exams \subseteq Exams(Replaced(sel, i, c))}
LastOf(S) == CHOOSE i \in S : \A j \in S : j <= i

AsksForLists == corpus.chunked /\ \E i \in DOMAIN groups : "certificate-equivalence" \in groups[i]

(***************************************************************************)
(* One retrieval, step by step.                                            *)
(***************************************************************************)
RetrievalInit ==
    /\ corpus \in Corpora /\ question \in Questions
    /\ phase = "asked" /\ evaluatedAt = 0
    /\ lexical = <<>> /\ dense = <<>> /\ ranked = <<>> /\ chosen = <<>> /\ result = <<>>
    /\ kept = {} /\ next = 1

ReadClock ==
    /\ phase = "asked" /\ phase' = "timed"
    /\ evaluatedAt' \in Clocks
    /\ UNCHANGED <<corpus, question, lexical, dense, ranked, chosen, result, kept, next>>

\* The words of the question are found in any of the candidates, in any order.
LexicalSearch ==
    /\ phase = "timed" /\ phase' = "found"
    /\ \E found \in SetToAllKPermutations(Candidates) : lexical' = Channel(found)
    /\ UNCHANGED <<corpus, question, evaluatedAt, dense, ranked, chosen, result, kept, next>>

\* Every document has a vector, so every candidate is ranked.
DenseSearch ==
    /\ phase = "found" /\ phase' = "ranked"
    /\ \E found \in SetToSeqs(Candidates) : dense' = Channel(found)
    /\ UNCHANGED <<corpus, question, evaluatedAt, lexical, ranked, chosen, result, kept, next>>

\* The provider does not answer, or with a vector of other dimensions.
EmbeddingFails ==
    /\ phase = "found" /\ phase' = "failed"
    /\ UNCHANGED <<corpus, question, evaluatedAt, lexical, dense, ranked, chosen, result, kept, next>>

Usables(list) == Places(list, {i \in DOMAIN list : list[i] \in Candidates})
Fuse ==
    /\ phase = "ranked" /\ phase' = "fused"
    /\ LET once == Fusion(<<lexical, dense>>)
       IN  IF corpus.chunked
           THEN \E titles \in SetToAllKPermutations(Sources(once)) :
                    ranked' = Preferred(Usables(
                        Fusion(<<lexical, dense, Representatives(once, titles)>>)))
           ELSE ranked' = Usables(once)
    /\ UNCHANGED <<corpus, question, evaluatedAt, lexical, dense, chosen, result, kept, next>>

Protected == Take(Reserved(ranked), Limit)
Reserve ==
    /\ phase = "fused" /\ phase' = "covering"
    /\ chosen' = Protected
    /\ UNCHANGED <<corpus, question, evaluatedAt, lexical, dense, ranked, result, kept, next>>

\* While examinations are missing: the first of those that name most of them.
Gain(d) == Cardinality(docs[d].exams \cap (question.exams \ Exams(chosen)))
Covering == corpus.chunked /\ Len(chosen) < Limit /\ \E i \in DOMAIN ranked : Gain(ranked[i]) > 0
CoverExams ==
    /\ phase = "covering" /\ Covering
    /\ \E i \in DOMAIN ranked :
          /\ \A j \in DOMAIN ranked : Gain(ranked[j]) <= Gain(ranked[i])
          /\ \A j \in 1 .. (i - 1) : Gain(ranked[j]) < Gain(ranked[i])
          /\ chosen' = Append(chosen, ranked[i])
    /\ UNCHANGED <<corpus, question, phase, evaluatedAt, lexical, dense, ranked, result, kept, next>>

Fill ==
    /\ phase = "covering" /\ ~Covering /\ phase' = "selected"
    /\ LET spread == IF corpus.chunked THEN WithSources(chosen, ranked, Limit) ELSE chosen
       IN  chosen' = Filled(spread, ranked, Limit)
    /\ result' = chosen' /\ kept' = ToSet(Protected)
    /\ UNCHANGED <<corpus, question, evaluatedAt, lexical, dense, ranked, next>>

\* The context of the next chosen passage takes a free place, or that of the last
\* result that neither an intent, an examination nor an earlier context needs.
AddContext ==
    /\ phase = "selected" /\ AsksForLists /\ next <= Len(chosen)
    /\ LET d == chosen[next]
           c == Nearest(d)
           free == Replaceable(result, d, c)
           Keep(sel) == result' = sel /\ kept' = kept \cup {d, c}
       IN  IF ~Contains(result, d) \/ docs[d].intro \/ Introductions(d) = {}
           THEN UNCHANGED <<result, kept>>
           ELSE IF Contains(result, c) THEN Keep(result)
           ELSE IF Len(result) < Limit THEN Keep(Append(result, c))
           ELSE IF free = {} THEN UNCHANGED <<result, kept>>
           ELSE Keep(Replaced(result, LastOf(free), c))
    /\ next' = next + 1
    /\ UNCHANGED <<corpus, question, phase, evaluatedAt, lexical, dense, ranked, chosen>>

Return ==
    /\ phase = "selected" /\ (AsksForLists => next > Len(chosen)) /\ phase' = "done"
    /\ result' = InOrder(result, ranked)
    /\ UNCHANGED <<corpus, question, evaluatedAt, lexical, dense, ranked, chosen, kept, next>>

Finished == phase \in {"done", "failed"} /\ UNCHANGED retrievalVars

RetrievalNext ==
    \/ ReadClock \/ LexicalSearch \/ DenseSearch \/ EmbeddingFails
    \/ Fuse \/ Reserve \/ CoverExams \/ Fill \/ AddContext \/ Return \/ Finished

RetrievalSpec == RetrievalInit /\ [][RetrievalNext]_retrievalVars

(***************************************************************************)
(* Properties.                                                             *)
(***************************************************************************)
Results == ToSet(result)

\* What a question gets is usable at the one time that was read, and within its
\* filter: also a list's introduction, which no channel ranked for the question
\* (_include_introductory_list_context looks at every document of the release).
ResultsSupported ==
    phase = "done" => /\ Results \subseteq Candidates
                      /\ Len(result) <= Limit /\ Cardinality(Results) = Len(result)

\* No intent of a compound question is crowded out - by the cut of a channel,
\* by the fusion, by examinations or by the context of a list: when any usable
\* document of the release serves it, a result does, provided the places are
\* as many as the intents.
IntentsAnswered ==
    phase = "done" /\ Len(groups) <= Limit =>
        \A i \in DOMAIN groups :
            (\E d \in Candidates : Covers(d, groups[i])) => \E d \in Results : Covers(d, groups[i])

\* A result that serves no intent and names no examination of its own does not
\* take the place of a passage about an examination that was asked for - unless
\* the context of a list did that the channels had cut off.
Without(d) == Results \ {d}
Named(S) == (UNION {docs[d].exams : d \in S}) \cap question.exams
Idle(d) == d \notin ToSet(Protected) /\ Named(Without(d)) = Named(Results)
NamedExamsFirst ==
    phase = "done" /\ corpus.chunked =>
        \A x \in question.exams \ Named(Results) :
            (\E d \in ToSet(ranked) : x \in docs[d].exams) =>
                /\ Len(result) = Limit
                /\ Results \subseteq ToSet(ranked) => \A d \in Results : ~Idle(d)
================================================================================
