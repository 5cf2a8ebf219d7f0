------------------------- MODULE AnswerPipelineProofs -------------------------
(***************************************************************************)
(* What an answer rests on, and what it costs, proved for any sections a   *)
(* model may write, any texts, replies and lengths of a draft.             *)
(***************************************************************************)
EXTENDS AnswerPipeline, Integers, FiniteSetTheorems, SequenceTheorems,
        WellFoundedInduction, TLAPS

(***************************************************************************)
(* The k-th of a set of positions.                                         *)
(***************************************************************************)
LEMMA LeastPosition ==
    ASSUME NEW U \in SUBSET Nat, U # {}
    PROVE  \E u \in U : \A v \in U : u <= v
<1> DEFINE R == OpToRel(<, Nat)
<1>1. IsWellFoundedOn(R, Nat)
  BY NatLessThanWellFounded
<1>2. \E x \in U : \A y \in U : ~(<<y, x>> \in R)
  BY <1>1, WFMin
<1>3. \A x, y \in Nat : <<y, x>> \in R <=> y < x
  BY DEF OpToRel
<1> HIDE DEF R
<1>4. PICK x \in U : \A y \in U : ~(<<y, x>> \in R)
  BY <1>2
<1>5. \A v \in U : ~(v < x)
  BY <1>3, <1>4
<1>6. \A v \in U : x <= v
  BY <1>5
<1> QED BY <1>6

\* What lies at or before a position.
UpTo(S, m) == {j \in S : j <= m}

LEMMA UpToGrows ==
    ASSUME NEW n \in Nat, NEW S \in SUBSET (1 .. n), NEW m \in Nat
    PROVE  /\ Cardinality(UpTo(S, m)) \in Nat
           /\ Cardinality(UpTo(S, m + 1)) =
                 IF m + 1 \in S THEN Cardinality(UpTo(S, m)) + 1
                 ELSE Cardinality(UpTo(S, m))
<1>1. IsFiniteSet(1 .. n)
  BY FS_Interval
<1>2. UpTo(S, m) \in SUBSET (1 .. n)
  BY DEF UpTo
<1>3. IsFiniteSet(UpTo(S, m))
  BY <1>1, <1>2, FS_Subset
<1>4. Cardinality(UpTo(S, m)) \in Nat
  BY <1>3, FS_CardinalityType
<1>5. \A j \in S : j \in Nat /\ (j <= m + 1 <=> j <= m \/ j = m + 1)
  OBVIOUS
<1>6. CASE m + 1 \in S
  <2>1. UpTo(S, m + 1) = UpTo(S, m) \cup {m + 1}
    BY <1>5, <1>6 DEF UpTo
  <2>2. m + 1 \notin UpTo(S, m)
    BY DEF UpTo
  <2> QED BY <1>3, <1>4, <1>6, <2>1, <2>2, FS_AddElement
<1>7. CASE m + 1 \notin S
  <2>1. UpTo(S, m + 1) = UpTo(S, m)
    BY <1>5, <1>7 DEF UpTo
  <2> QED BY <1>4, <1>7, <2>1
<1> QED BY <1>6, <1>7

\* Every number up to its size has its position in a set: the least one with
\* that many positions up to it.
LEMMA KthIsMember ==
    ASSUME NEW n \in Nat, NEW S \in SUBSET (1 .. n), NEW k \in 1 .. Cardinality(S)
    PROVE  Kth(S, k) \in S
<1> DEFINE Enough == {m \in Nat : k <= Cardinality(UpTo(S, m))}
<1>1. IsFiniteSet(S) /\ Cardinality(S) \in Nat
  <2>1. IsFiniteSet(1 .. n)
    BY FS_Interval
  <2> QED BY <2>1, FS_Subset, FS_CardinalityType
<1>2. \A j \in S : j \in Nat /\ 1 <= j /\ j <= n
  OBVIOUS
<1>3. UpTo(S, n) = S
  BY <1>2 DEF UpTo
<1>4. n \in Enough
  BY <1>1, <1>3
<1>5. PICK u \in Enough : \A w \in Enough : u <= w
  BY <1>4, LeastPosition
<1>6. UpTo(S, 0) = {}
  <2>1. \A j \in S : ~(j <= 0)
    BY <1>2
  <2> QED BY <2>1 DEF UpTo
<1>7. u # 0
  BY <1>1, <1>5, <1>6, FS_EmptySet
<1>8. u - 1 \in Nat /\ u = (u - 1) + 1
  BY <1>5, <1>7
<1>9. u - 1 \notin Enough
  BY <1>5, <1>8
<1> DEFINE before == u - 1
<1> HIDE DEF before
<1>10. /\ Cardinality(UpTo(S, before)) \in Nat
       /\ Cardinality(UpTo(S, before + 1)) =
             IF before + 1 \in S THEN Cardinality(UpTo(S, before)) + 1
             ELSE Cardinality(UpTo(S, before))
  <2>1. before \in Nat
    BY <1>8 DEF before
  <2> QED BY <2>1, UpToGrows
<1>11. Cardinality(UpTo(S, u - 1)) \in Nat /\ Cardinality(UpTo(S, u - 1)) < k
  BY <1>1, <1>8, <1>9, <1>10 DEF before
<1>12. u \in S /\ Cardinality(UpTo(S, u)) = k
  <2>1. Cardinality(UpTo(S, u)) = IF u \in S THEN Cardinality(UpTo(S, u - 1)) + 1
                                  ELSE Cardinality(UpTo(S, u - 1))
    BY <1>8, <1>10 DEF before
  <2> QED BY <1>1, <1>5, <1>11, <2>1
<1> HIDE DEF Enough
<1>13. \E i \in S : Cardinality({j \in S : j <= i}) = k
  BY <1>12 DEF UpTo
<1> QED BY <1>13 DEF Kth

\* When no position is left out the k-th is k.
LEMMA KthOfAll ==
    ASSUME NEW n \in Nat, NEW k \in 1 .. n
    PROVE  Kth(1 .. n, k) = k
<1>1. \A i \in 1 .. n : {j \in 1 .. n : j <= i} = 1 .. i
  OBVIOUS
<1>2. \A i \in 1 .. n : Cardinality({j \in 1 .. n : j <= i}) = i
  <2> SUFFICES ASSUME NEW i \in 1 .. n PROVE Cardinality(1 .. i) = i
    BY <1>1
  <2> QED BY FS_Interval
<1>3. Kth(1 .. n, k) \in 1 .. n /\ Cardinality({j \in 1 .. n : j <= Kth(1 .. n, k)}) = k
  BY <1>2 DEF Kth
<1> QED BY <1>2, <1>3

(***************************************************************************)
(* The sections of drafts and answers.                                     *)
(***************************************************************************)
AppSections == {AppSection(kind, text) : kind \in {"refusal", "source_warning"},
                                         text \in {RefusalText, WarningText, NoticeText}}
Sections == ModelSections \cup AppSections

\* What a draft may be: sections of the model, under the summary that prepare
\* put in place of the model's own.
IsDraft(d) ==
    /\ d = [summary |-> d.summary, sections |-> d.sections]
    /\ d.sections \in Seq(ModelSections)
    /\ d.summary = Summary(d.sections, Freeform)

LEMMA PreparedIsDraft ==
    ASSUME NEW d \in Drafts \cup {NoDraft}
    PROVE  IsDraft(Prepared(d))
<1>1. d = [summary |-> Freeform, sections |-> d.sections] /\ d.sections \in Seq(ModelSections)
  <2>1. CASE d = NoDraft
    BY <2>1 DEF NoDraft
  <2>2. CASE d \in Drafts
    <3>1. PICK n \in 1 .. MaxSections : d.sections \in [1 .. n -> ModelSections]
      BY <2>2 DEF Drafts
    <3>2. n \in Nat
      BY <3>1, ConstantsAssumption
    <3>3. d.sections \in Seq(ModelSections)
      BY <3>1, <3>2
    <3> QED BY <2>2, <3>3 DEF Drafts
  <2> QED BY <2>1, <2>2
<1> DEFINE summary == Summary(d.sections, Freeform)
<1>2. Prepared(d) = [summary |-> summary, sections |-> d.sections]
  <2>1. d.summary = Freeform
    BY <1>1
  <2> HIDE DEF summary
  <2>2. Prepared(d) = [d EXCEPT !.summary = summary]
    BY <2>1 DEF Prepared, summary
  <2> QED BY <1>1, <2>2
<1> HIDE DEF summary
<1>3. Prepared(d).summary = summary /\ Prepared(d).sections = d.sections
  BY <1>2
<1> QED BY <1>1, <1>2, <1>3 DEF IsDraft, summary

LEMMA SeqWidens ==
    ASSUME NEW A, NEW B, A \subseteq B, NEW s \in Seq(A)
    PROVE  s \in Seq(B)
<1>1. Len(s) \in Nat /\ s \in [1 .. Len(s) -> A]
  BY LenProperties
<1>2. s \in [1 .. Len(s) -> B]
  BY <1>1
<1> QED BY <1>1, <1>2

\* The answer made of some sections begins with them; what the application
\* adds are refusals and warnings, its own refusal among them when the
\* question calls for it, and the notice comes last.
LEMMA CompletedSections ==
    ASSUME NEW kind, NEW sections \in Seq(ModelSections)
    PROVE  LET a == Completed(kind, sections) IN
           /\ a.sections \in Seq(Sections)
           /\ Len(sections) <= Len(a.sections)
           /\ \A i \in 1 .. Len(sections) : a.sections[i] = sections[i]
           /\ \A i \in DOMAIN a.sections :
                 i \notin 1 .. Len(sections) =>
                     a.sections[i].kind \in {"refusal", "source_warning"}
           /\ a.kind = kind
           /\ a.summary = Summary(a.sections, Freeform)
           /\ safety # "none" => \E i \in DOMAIN a.sections :
                                     /\ a.sections[i].kind = "refusal"
                                     /\ a.sections[i].text = RefusalText
           /\ kind = "partial" => a.sections[Len(a.sections)].text = NoticeText
<1> DEFINE lacks == /\ safety # "none"
                    /\ \A i \in DOMAIN sections :
                          sections[i].kind = "refusal" => sections[i].text # RefusalText
           r == If(lacks, AppSection("refusal", RefusalText))
           w == If(warned, AppSection("source_warning", WarningText))
           p == If(kind = "partial", AppSection("refusal", NoticeText))
           all == ((sections \o r) \o w) \o p
<1>1. /\ AppSection("refusal", RefusalText) \in AppSections
      /\ AppSection("source_warning", WarningText) \in AppSections
      /\ AppSection("refusal", NoticeText) \in AppSections
  BY DEF AppSections
<1>2. r \in Seq(AppSections) /\ w \in Seq(AppSections) /\ p \in Seq(AppSections)
  BY <1>1 DEF If
<1>3. /\ sections \in Seq(Sections)
      /\ r \in Seq(Sections) /\ w \in Seq(Sections) /\ p \in Seq(Sections)
  BY <1>2, SeqWidens DEF Sections
<1>4. Completed(kind, sections) = [kind |-> kind, summary |-> Summary(all, Freeform),
                                   sections |-> all]
  BY DEF Completed, Augmented
<1>5. lacks => Len(r) = 1 /\ r[1].kind = "refusal" /\ r[1].text = RefusalText
  BY DEF If, AppSection
<1>6. kind = "partial" => Len(p) = 1 /\ p[1].text = NoticeText
  BY DEF If, AppSection
<1>7. \A s \in AppSections : s.kind \in {"refusal", "source_warning"}
  BY DEF AppSections, AppSection
<1>8. safety # "none" /\ ~lacks =>
          \E i \in DOMAIN sections :
              sections[i].kind = "refusal" /\ sections[i].text = RefusalText
  OBVIOUS
<1> HIDE DEF r, w, p, lacks
<1> HIDE DEF all
<1> DEFINE a1 == sections \o r
<1>9. /\ a1 \in Seq(Sections) /\ Len(a1) = Len(sections) + Len(r)
      /\ \A i \in 1 .. Len(sections) + Len(r) :
            a1[i] = IF i <= Len(sections) THEN sections[i] ELSE r[i - Len(sections)]
  BY <1>3, ConcatProperties
<1> HIDE DEF a1
<1> DEFINE a2 == a1 \o w
<1>10. /\ a2 \in Seq(Sections) /\ Len(a2) = Len(a1) + Len(w)
       /\ \A i \in 1 .. Len(a1) + Len(w) :
             a2[i] = IF i <= Len(a1) THEN a1[i] ELSE w[i - Len(a1)]
  <2>1. a1 \in Seq(Sections) /\ w \in Seq(Sections)
    BY <1>3, <1>9
  <2> QED BY <2>1, ConcatProperties
<1> HIDE DEF a2
<1>11. /\ all \in Seq(Sections) /\ Len(all) = Len(a2) + Len(p)
       /\ \A i \in 1 .. Len(a2) + Len(p) :
             all[i] = IF i <= Len(a2) THEN a2[i] ELSE p[i - Len(a2)]
  <2> DEFINE a3 == a2 \o p
  <2>1. /\ a3 \in Seq(Sections) /\ Len(a3) = Len(a2) + Len(p)
        /\ \A i \in 1 .. Len(a2) + Len(p) :
              a3[i] = IF i <= Len(a2) THEN a2[i] ELSE p[i - Len(a2)]
    <3>1. a2 \in Seq(Sections) /\ p \in Seq(Sections)
      BY <1>3, <1>10
    <3> QED BY <3>1, ConcatProperties
  <2>2. all = a3
    BY DEF all, a1, a2
  <2> QED BY <2>1, <2>2
<1>12. /\ Len(sections) \in Nat /\ Len(r) \in Nat /\ Len(w) \in Nat /\ Len(p) \in Nat
       /\ Len(a1) \in Nat /\ Len(a2) \in Nat
       /\ DOMAIN sections = 1 .. Len(sections) /\ DOMAIN all = 1 .. Len(all)
  BY <1>2, <1>9, <1>10, <1>11
<1>13. \A i \in 1 .. Len(sections) : all[i] = sections[i]
  BY <1>9, <1>10, <1>11, <1>12
<1>14. \A i \in DOMAIN all : i \notin 1 .. Len(sections) => all[i] \in AppSections
  <2> SUFFICES ASSUME NEW i \in DOMAIN all, i \notin 1 .. Len(sections)
               PROVE  all[i] \in AppSections
    OBVIOUS
  <2>1. i \in 1 .. Len(all) /\ i > Len(sections)
    BY <1>12
  <2>2. CASE i <= Len(a1)
    <3>1. all[i] = r[i - Len(sections)] /\ i - Len(sections) \in 1 .. Len(r)
      BY <1>9, <1>10, <1>11, <1>12, <2>1, <2>2
    <3> QED BY <1>2, <3>1
  <2>3. CASE i > Len(a1) /\ i <= Len(a2)
    <3>1. all[i] = w[i - Len(a1)] /\ i - Len(a1) \in 1 .. Len(w)
      BY <1>9, <1>10, <1>11, <1>12, <2>1, <2>3
    <3> QED BY <1>2, <3>1
  <2>4. CASE i > Len(a2)
    <3>1. all[i] = p[i - Len(a2)] /\ i - Len(a2) \in 1 .. Len(p)
      BY <1>9, <1>10, <1>11, <1>12, <2>1, <2>4
    <3> QED BY <1>2, <3>1
  <2> QED BY <1>9, <1>10, <1>12, <2>1, <2>2, <2>3, <2>4
<1>15. safety # "none" => \E i \in DOMAIN all :
                              all[i].kind = "refusal" /\ all[i].text = RefusalText
  <2>1. CASE lacks
    <3>1. /\ Len(sections) + 1 \in DOMAIN all
          /\ all[Len(sections) + 1] = r[1]
      <4>0. Len(r) = 1
        BY <1>5, <2>1
      <4>1. Len(r) = 1 /\ Len(sections) + 1 \in 1 .. Len(a1)
        BY <1>9, <1>12, <4>0
      <4>2. a1[Len(sections) + 1] = r[1]
        BY <1>9, <1>12, <4>1
      <4>3. a2[Len(sections) + 1] = r[1] /\ Len(sections) + 1 \in 1 .. Len(a2)
        BY <1>9, <1>10, <1>12, <4>1, <4>2
      <4> QED BY <1>10, <1>11, <1>12, <4>3
    <3> QED BY <1>5, <2>1, <3>1
  <2>2. CASE safety # "none" /\ ~lacks
    <3>1. PICK i \in DOMAIN sections :
             sections[i].kind = "refusal" /\ sections[i].text = RefusalText
      BY <1>8, <2>2
    <3>2. i \in DOMAIN all /\ all[i] = sections[i]
      BY <1>9, <1>10, <1>11, <1>12, <1>13
    <3> QED BY <3>1, <3>2
  <2> QED BY <2>1, <2>2
<1>16. kind = "partial" => all[Len(all)].text = NoticeText
  <2>1. kind = "partial" => all[Len(all)] = p[1]
    <3> SUFFICES ASSUME kind = "partial" PROVE all[Len(all)] = p[1]
      OBVIOUS
    <3>1. Len(a2) \in Nat /\ Len(p) = 1 /\ Len(all) = Len(a2) + 1
      <4>1. Len(p) = 1
        BY <1>6
      <4> QED BY <1>11, <1>12, <4>1
    <3>2. all[Len(all)] = p[Len(all) - Len(a2)]
      BY <1>11, <3>1
    <3> QED BY <3>1, <3>2
  <2> QED BY <1>6, <2>1
<1>17. Len(sections) <= Len(all)
  BY <1>9, <1>10, <1>11, <1>12
<1> QED BY <1>4, <1>7, <1>11, <1>13, <1>14, <1>15, <1>16, <1>17

\* The summary of sections with a first section of the kind it is made of.
LEMMA FirstIs ==
    ASSUME NEW S, NEW sections \in Seq(S), NEW kind, NEW i \in DOMAIN sections,
           sections[i].kind = kind, \A j \in 1 .. i - 1 : sections[j].kind # kind
    PROVE  FirstText(sections, kind) = sections[i].text
<1> DEFINE First(k) == /\ sections[k].kind = kind
                       /\ \A j \in 1 .. k - 1 : sections[j].kind # kind
<1>1. \A k \in DOMAIN sections : k \in Nat /\ 1 <= k
  OBVIOUS
<1>2. \A k \in DOMAIN sections : First(k) => k = i
  <2> SUFFICES ASSUME NEW k \in DOMAIN sections, First(k) PROVE k = i
    OBVIOUS
  <2>1. k \in Nat /\ i \in Nat /\ 1 <= k /\ 1 <= i
    BY <1>1
  <2>2. ~(k < i)
    <3>1. k < i => k \in 1 .. i - 1
      BY <2>1
    <3> QED BY <3>1
  <2>3. ~(i < k)
    <3>1. i < k => i \in 1 .. k - 1
      BY <2>1
    <3> QED BY <3>1
  <2> QED BY <2>1, <2>2, <2>3
<1>3. First(i)
  OBVIOUS
<1> HIDE DEF First
<1>4. (CHOOSE k \in DOMAIN sections : First(k)) = i
  BY <1>2, <1>3
<1> QED BY <1>4 DEF FirstText, First

LEMMA FirstExists ==
    ASSUME NEW S, NEW sections \in Seq(S), NEW kind, HasKind(sections, kind)
    PROVE  \E i \in DOMAIN sections :
               /\ sections[i].kind = kind
               /\ \A j \in 1 .. i - 1 : sections[j].kind # kind
               /\ FirstText(sections, kind) = sections[i].text
<1> DEFINE U == {i \in DOMAIN sections : sections[i].kind = kind}
<1>1. DOMAIN sections = 1 .. Len(sections) /\ Len(sections) \in Nat
  OBVIOUS
<1>2. U \in SUBSET Nat /\ U # {}
  BY <1>1 DEF HasKind
<1>3. PICK i \in U : \A j \in U : i <= j
  BY <1>2, LeastPosition
<1>4. \A j \in 1 .. i - 1 : j \in DOMAIN sections /\ ~(i <= j)
  BY <1>1, <1>3
<1>5. \A j \in 1 .. i - 1 : sections[j].kind # kind
  BY <1>3, <1>4
<1>6. i \in DOMAIN sections /\ sections[i].kind = kind
  BY <1>3
<1> HIDE DEF U
<1> QED BY <1>5, <1>6, FirstIs

\* What the application adds does not change the summary.
LEMMA SummaryStays ==
    ASSUME NEW sections \in Seq(ModelSections), NEW all \in Seq(Sections), Valid(sections),
           Len(sections) <= Len(all),
           \A i \in 1 .. Len(sections) : all[i] = sections[i],
           \A i \in DOMAIN all : i \notin 1 .. Len(sections) =>
               all[i].kind \in {"refusal", "source_warning"}
    PROVE  Summary(all, Freeform) = Summary(sections, Freeform)
<1>1. /\ Len(sections) \in Nat /\ Len(all) \in Nat
      /\ DOMAIN sections = 1 .. Len(sections) /\ DOMAIN all = 1 .. Len(all)
  OBVIOUS
<1>2. DOMAIN sections \subseteq DOMAIN all
  BY <1>1
<1>3. ASSUME NEW kind, HasKind(sections, kind)
      PROVE  HasKind(all, kind) /\ FirstText(all, kind) = FirstText(sections, kind)
  <2>1. PICK i \in DOMAIN sections :
            /\ sections[i].kind = kind
            /\ \A j \in 1 .. i - 1 : sections[j].kind # kind
            /\ FirstText(sections, kind) = sections[i].text
    BY <1>3, FirstExists
  <2>2. i \in DOMAIN all /\ all[i] = sections[i]
    BY <1>1, <1>2
  <2>3. \A j \in 1 .. i - 1 : all[j] = sections[j]
    BY <1>1
  <2>4. FirstText(all, kind) = all[i].text
    <3>1. all[i].kind = kind /\ \A j \in 1 .. i - 1 : all[j].kind # kind
      BY <2>1, <2>2, <2>3
    <3> QED BY <2>2, <3>1, FirstIs
  <2> QED BY <2>1, <2>2, <2>4 DEF HasKind
<1>4. HasKind(all, "official_fact") => HasKind(sections, "official_fact")
  BY <1>1 DEF HasKind
<1>5. HasKind(sections, "official_fact") \/ HasKind(sections, "refusal")
  BY DEF Valid
<1>6. CASE HasKind(sections, "official_fact")
  BY <1>3, <1>6 DEF Summary
<1>7. CASE ~HasKind(sections, "official_fact")
  <2>1. HasKind(sections, "refusal")
    BY <1>5, <1>7
  <2> QED BY <1>3, <1>4, <1>7, <2>1 DEF Summary
<1> QED BY <1>6, <1>7

(***************************************************************************)
(* Verdicts and the sections that are kept.                                *)
(***************************************************************************)
\* The first entry of a draft is its summary, the others are its sections.
LEMMA EntriesOfDraft ==
    ASSUME NEW d, d.sections \in Seq(ModelSections)
    PROVE  /\ Len(Entries(d)) = Len(d.sections) + 1
           /\ Entries(d)[1].kind = "summary"
           /\ Entries(d)[1].text = d.summary
           /\ \A j \in DOMAIN d.sections : Entries(d)[j + 1] = d.sections[j]
<1> DEFINE first == [kind |-> "summary", text |-> d.summary, cites |-> Cites(d.sections)]
           Both == ModelSections \cup {first}
<1>1. Entries(d) = <<first>> \o d.sections
  BY DEF Entries
<1>2. first.kind = "summary" /\ first.text = d.summary
  OBVIOUS
<1> HIDE DEF first
<1>3. d.sections \in Seq(Both)
  BY SeqWidens
<1>4. <<first>> \in Seq(Both) /\ Len(<<first>>) = 1 /\ <<first>>[1] = first
  OBVIOUS
<1>5. /\ Len(<<first>> \o d.sections) = 1 + Len(d.sections)
      /\ \A i \in 1 .. 1 + Len(d.sections) :
            (<<first>> \o d.sections)[i] = IF i <= 1 THEN first ELSE d.sections[i - 1]
  <2>1. /\ Len(<<first>> \o d.sections) = Len(<<first>>) + Len(d.sections)
        /\ \A i \in 1 .. Len(<<first>>) + Len(d.sections) :
              (<<first>> \o d.sections)[i] = IF i <= Len(<<first>>) THEN <<first>>[i]
                                             ELSE d.sections[i - Len(<<first>>)]
    BY <1>3, <1>4, ConcatProperties
  <2>2. \A i \in 1 .. 1 + Len(d.sections) : i <= 1 => i = 1
    OBVIOUS
  <2> QED BY <1>4, <2>1, <2>2
<1>6. Len(d.sections) \in Nat /\ DOMAIN d.sections = 1 .. Len(d.sections)
  OBVIOUS
<1> DEFINE entries == <<first>> \o d.sections
<1>7. entries[1] = first
  BY <1>5, <1>6
<1>8. ASSUME NEW j \in DOMAIN d.sections PROVE entries[j + 1] = d.sections[j]
  <2>1. j + 1 \in 1 .. 1 + Len(d.sections) /\ ~(j + 1 <= 1) /\ (j + 1) - 1 = j
    BY <1>6
  <2> QED BY <1>5, <2>1
<1> HIDE DEF entries
<1>9. Entries(d) = entries /\ Len(entries) = Len(d.sections) + 1
  BY <1>1, <1>5, <1>6 DEF entries
<1> QED BY <1>2, <1>7, <1>8, <1>9

LEMMA ChecksOfResponse ==
    ASSUME NEW d, d.sections \in Seq(ModelSections), NEW v \in Responses(d)
    PROVE  /\ DOMAIN v.checks = 1 .. Len(d.sections) + 1
           /\ 1 \in DOMAIN v.checks
           /\ \A j \in DOMAIN d.sections : j + 1 \in DOMAIN v.checks
<1>1. DOMAIN v.checks = 1 .. Len(d.sections) + 1
  BY DEF Responses
<1>2. Len(d.sections) \in Nat /\ DOMAIN d.sections = 1 .. Len(d.sections)
  OBVIOUS
<1> QED BY <1>1, <1>2

\* Every section that is kept is one of the draft's that may be kept; when
\* one is missing there are fewer.
LEMMA RetainedOfDraft ==
    ASSUME NEW d, d.sections \in Seq(ModelSections), NEW v
    PROVE  LET r == RetainedSections(d, v) IN
           /\ r \in Seq(ModelSections)
           /\ \A k \in DOMAIN r : \E j \in DOMAIN d.sections :
                 Retains(d, v, j) /\ r[k] = d.sections[j]
           /\ r # d.sections => Len(r) < Len(d.sections)
<1> DEFINE n == Len(d.sections)
           kept == {i \in DOMAIN d.sections : Retains(d, v, i)}
           r == RetainedSections(d, v)
<1>1. n \in Nat /\ DOMAIN d.sections = 1 .. n
  OBVIOUS
<1>2. kept \in SUBSET (1 .. n) /\ \A i \in kept : i \in DOMAIN d.sections /\ Retains(d, v, i)
  BY <1>1
<1>3. r = [k \in 1 .. Cardinality(kept) |-> d.sections[Kth(kept, k)]]
  BY DEF RetainedSections
<1>4. /\ Cardinality(kept) \in Nat /\ Cardinality(kept) <= n
      /\ Cardinality(kept) = n => kept = 1 .. n
  <2>1. IsFiniteSet(1 .. n) /\ Cardinality(1 .. n) = n
    BY <1>1, FS_Interval
  <2> HIDE DEF kept, n
  <2> QED BY <1>2, <2>1, FS_Subset, FS_CardinalityType
<1> HIDE DEF kept
<1>5. \A k \in 1 .. Cardinality(kept) : Kth(kept, k) \in kept
  BY <1>1, <1>2, KthIsMember
<1> HIDE DEF r
<1>6. DOMAIN r = 1 .. Cardinality(kept)
  BY <1>3
<1>7. \A k \in DOMAIN r : \E j \in DOMAIN d.sections :
          Retains(d, v, j) /\ r[k] = d.sections[j]
  BY <1>2, <1>3, <1>5, <1>6
<1>8. r \in Seq(ModelSections) /\ Len(r) = Cardinality(kept)
  <2>1. \A k \in 1 .. Cardinality(kept) : d.sections[Kth(kept, k)] \in ModelSections
    <3>1. \A i \in DOMAIN d.sections : d.sections[i] \in ModelSections
      OBVIOUS
    <3>2. \A k \in 1 .. Cardinality(kept) : Kth(kept, k) \in DOMAIN d.sections
      BY <1>2, <1>5
    <3> QED BY <3>1, <3>2
  <2>2. r \in [1 .. Cardinality(kept) -> ModelSections]
    BY <1>3, <2>1
  <2> QED BY <1>4, <2>2
<1>9. Cardinality(kept) = n => r = d.sections
  <2> SUFFICES ASSUME Cardinality(kept) = n PROVE r = d.sections
    OBVIOUS
  <2>1. kept = 1 .. n
    BY <1>4
  <2>2. \A k \in 1 .. n : Kth(kept, k) = k
    BY <1>1, <2>1, KthOfAll
  <2>3. \A k \in 1 .. n : r[k] = d.sections[k]
    BY <1>3, <2>2
  <2> HIDE DEF n
  <2> QED BY <1>1, <1>3, <1>6, <2>3
<1> QED BY <1>1, <1>4, <1>7, <1>8, <1>9 DEF r

(***************************************************************************)
(* The invariant: an answer is what the last judgement of the present draft *)
(* makes of it, and while the model is asked there is no answer yet.        *)
(***************************************************************************)
\* A whole answer: every entry of the draft was accepted.
WholeAnswer ==
    /\ Verified(draft, verdicts)
    /\ Completes("answer", draft.sections)
    /\ outcome = Completed("answer", draft.sections)

\* A partial one: some sections of the draft are kept and some are not.
PartialAnswer ==
    /\ Salvageable(draft, verdicts)
    /\ Completes("partial", RetainedSections(draft, verdicts))
    /\ outcome = Completed("partial", RetainedSections(draft, verdicts))

\* The refusal the application writes without asking the model.
FixedRefusal ==
    /\ \E i \in DOMAIN outcome.sections :
          outcome.sections[i].kind = "refusal" /\ outcome.sections[i].text = RefusalText
    /\ OfficialFacts = {}

Grounding ==
    /\ IsDraft(draft)
    /\ pc \notin {"idle", "done"} => outcome.kind = "none"
    /\ Answered => verdicts \in Responses(draft)
    /\ outcome.kind = "answer" => WholeAnswer
    /\ outcome.kind = "partial" => PartialAnswer
    /\ outcome.kind = "refusal" => FixedRefusal

-----------------------------------------------------------------------------
(* The steps keep it.                                                       *)

LEMMA GroundingInit == Init => Grounding
<1> SUFFICES ASSUME Init PROVE Grounding
  OBVIOUS
<1>1. IsDraft(draft)
  BY DEF Init, NoDraft, IsDraft, Summary, HasKind
<1> QED BY <1>1 DEF Init, Grounding, Answered, NoOutcome

\* A step that leaves the draft as it is and gives no answer.
LEMMA NoAnswerKeeps ==
    ASSUME Grounding, draft' = draft,
           outcome'.kind \notin {"none", "answer", "partial", "refusal"}, pc' = "done"
    PROVE  Grounding'
BY DEF Grounding, Answered, IsDraft

LEMMA FailureKeeps ==
    ASSUME Grounding, draft' = draft, NEW kind \in {"invalid", "provider"}, Fails(kind)
    PROVE  Grounding'
<1>1. outcome'.kind = kind /\ pc' = "done"
  BY DEF Fails, NoOutcome
<1> QED BY <1>1, NoAnswerKeeps

\* A step in the middle of the exchanges.
LEMMA WaitingKeeps ==
    ASSUME Grounding, IsDraft(draft'), outcome'.kind = "none"
    PROVE  Grounding'
BY DEF Grounding, Answered, IsDraft

LEMMA WholeAnswerKeeps ==
    ASSUME Grounding, UNCHANGED <<safety, warned, draft>>, NEW v \in Responses(draft),
           Verified(draft, v), Completes("answer", draft.sections),
           Answers("answer", draft.sections, v)
    PROVE  Grounding'
<1>1. /\ pc' = "done" /\ verdicts' = v
      /\ outcome' = Completed("answer", draft.sections)
  BY DEF Answers
<1>2. outcome'.kind = "answer"
  BY <1>1 DEF Completed
<1>3. WholeAnswer'
  BY <1>1 DEF WholeAnswer, Completes, Completed, Augmented, DrawsConclusion
<1> QED BY <1>1, <1>2, <1>3 DEF Grounding, Answered, IsDraft

LEMMA PartialAnswerKeeps ==
    ASSUME Grounding, UNCHANGED <<safety, warned, draft>>, NEW v \in Responses(draft),
           Salvageable(draft, v), Completes("partial", RetainedSections(draft, v)),
           Answers("partial", RetainedSections(draft, v), v)
    PROVE  Grounding'
<1>1. /\ pc' = "done" /\ verdicts' = v
      /\ outcome' = Completed("partial", RetainedSections(draft, v))
  BY DEF Answers
<1>2. outcome'.kind = "partial"
  BY <1>1 DEF Completed
<1>3. PartialAnswer'
  BY <1>1 DEF PartialAnswer, Completes, Completed, Augmented, DrawsConclusion
<1> QED BY <1>1, <1>2, <1>3 DEF Grounding, Answered, IsDraft

LEMMA RejectedKeeps ==
    ASSUME Grounding, pc = "verify", UNCHANGED <<safety, warned, draft>>,
           NEW v \in Responses(draft) \cup {NoResponse}, Rejected(v)
    PROVE  Grounding'
<1>1. outcome.kind = "none"
  BY DEF Grounding
<1>2. CASE UNCHANGED outcome
  BY <1>1, <1>2, WaitingKeeps DEF Grounding
<1>3. CASE Fails("invalid")
  BY <1>3, FailureKeeps
<1>4. CASE /\ v # NoResponse /\ Salvageable(draft, v)
           /\ Completes("partial", RetainedSections(draft, v))
           /\ Answers("partial", RetainedSections(draft, v), v)
  BY <1>4, PartialAnswerKeeps
<1> QED BY <1>2, <1>3, <1>4 DEF Rejected

LEMMA AskKeeps ==
    ASSUME Grounding, Ask
    PROVE  Grounding'
<1>1. IsDraft(draft')
  BY DEF Ask, NoDraft, IsDraft, Summary, HasKind
<1>2. CASE outcome'.kind = "none"
  BY <1>1, <1>2, WaitingKeeps
<1>3. CASE outcome'.kind \in {"clarification", "unsupported"} /\ pc' = "done"
  BY <1>1, <1>3 DEF Grounding, Answered, IsDraft
<1>4. CASE /\ outcome' = [kind |-> "refusal", summary |-> RefusalText,
                          sections |-> <<AppSection("refusal", RefusalText)>>
                              \o If(warned', AppSection("source_warning", WarningText))]
           /\ pc' = "done"
  <2> DEFINE refusal == AppSection("refusal", RefusalText)
             added == If(warned', AppSection("source_warning", WarningText))
  <2>1. /\ refusal \in AppSections /\ refusal.kind = "refusal" /\ refusal.text = RefusalText
        /\ AppSection("source_warning", WarningText) \in AppSections
    BY DEF AppSections, AppSection
  <2>2. added \in Seq(AppSections) /\ Len(added) \in Nat
    BY <2>1 DEF If
  <2>3. outcome'.sections = <<refusal>> \o added
    BY <1>4
  <2> HIDE DEF refusal, added
  <2>4. <<refusal>> \in Seq(AppSections) /\ Len(<<refusal>>) = 1 /\ <<refusal>>[1] = refusal
    BY <2>1
  <2>5. /\ outcome'.sections \in Seq(AppSections)
        /\ Len(outcome'.sections) = 1 + Len(added)
        /\ outcome'.sections[1] = refusal
    <3>1. /\ <<refusal>> \o added \in Seq(AppSections)
          /\ Len(<<refusal>> \o added) = Len(<<refusal>>) + Len(added)
          /\ \A i \in 1 .. Len(<<refusal>>) + Len(added) :
                (<<refusal>> \o added)[i] = IF i <= Len(<<refusal>>) THEN <<refusal>>[i]
                                           ELSE added[i - Len(<<refusal>>)]
      BY <2>2, <2>4, ConcatProperties
    <3>2. 1 \in 1 .. Len(<<refusal>>) + Len(added) /\ 1 <= Len(<<refusal>>)
      BY <2>2, <2>4
    <3> QED BY <2>3, <2>4, <3>1, <3>2
  <2>6. 1 \in DOMAIN outcome'.sections
    BY <2>2, <2>5
  <2>7. \A i \in DOMAIN outcome'.sections :
            outcome'.sections[i].kind \in {"refusal", "source_warning"}
    <3>1. \A i \in DOMAIN outcome'.sections : outcome'.sections[i] \in AppSections
      BY <2>5
    <3> QED BY <3>1 DEF AppSections, AppSection
  <2>8. FixedRefusal'
    BY <2>1, <2>5, <2>6, <2>7 DEF FixedRefusal, OfficialFacts
  <2> QED BY <1>1, <1>4, <2>8 DEF Grounding, Answered, IsDraft
<1> QED BY <1>2, <1>3, <1>4 DEF Ask, NoOutcome

LEMMA VerifyKeeps ==
    ASSUME Grounding, NEW v, Verify(v)
    PROVE  Grounding'
<1>1. /\ pc = "verify" /\ v \in Responses(draft) /\ Judge(v)
      /\ UNCHANGED <<safety, warned, draft>>
  BY DEF Verify
<1>2. CASE /\ Verified(draft, v) /\ Completes("answer", draft.sections)
           /\ Answers("answer", draft.sections, v)
  BY <1>1, <1>2, WholeAnswerKeeps
<1>3. CASE Rejected(NoResponse) \/ Rejected(v)
  BY <1>1, <1>3, RejectedKeeps
<1>4. CASE UNCHANGED outcome
  BY <1>1, <1>4, WaitingKeeps DEF Grounding
<1> QED BY <1>1, <1>2, <1>3, <1>4 DEF Judge

\* A reply that is no draft and no verdict.
LEMMA NoReplyKeeps ==
    ASSUME Grounding, InvalidReply \/ TruncatedReply \/ ProviderFails \/ UnknownCitation
    PROVE  Grounding'
<1>1. /\ UNCHANGED <<safety, warned, draft>>
      /\ pc \in {"generate", "repair", "verify"}
  BY DEF InvalidReply, TruncatedReply, ProviderFails, UnknownCitation, Exchange
<1>2. CASE Fails("invalid") \/ Fails("provider")
  BY <1>1, <1>2, FailureKeeps
<1>3. CASE pc = "verify" /\ Rejected(NoResponse)
  BY <1>1, <1>3, RejectedKeeps
<1>4. CASE UNCHANGED outcome
  BY <1>1, <1>4, WaitingKeeps DEF Grounding
<1> QED BY <1>2, <1>3, <1>4
        DEF InvalidReply, TruncatedReply, ProviderFails, UnknownCitation

LEMMA GroundingStep == Grounding /\ [Next]_vars => Grounding'
<1> SUFFICES ASSUME Grounding, [Next]_vars PROVE Grounding'
  OBVIOUS
<1>1. CASE Ask
  BY <1>1, AskKeeps
<1>2. ASSUME NEW d \in Drafts \cup {NoDraft}, Draft(d) PROVE Grounding'
  <2>1. IsDraft(draft')
    BY <1>2, PreparedIsDraft DEF Draft
  <2>2. outcome'.kind = "none"
    BY <1>2 DEF Draft, Grounding
  <2> QED BY <2>1, <2>2, WaitingKeeps
<1>3. CASE CannotVerify
  BY <1>3, RejectedKeeps DEF CannotVerify
<1>4. CASE \E v \in Responses(draft) : Verify(v)
  BY <1>4, VerifyKeeps
<1>5. CASE InvalidReply \/ TruncatedReply \/ ProviderFails \/ UnknownCitation
  BY <1>5, NoReplyKeeps
<1>6. CASE Deliver \/ UNCHANGED vars
  <2>1. UNCHANGED <<safety, warned, draft, verdicts, outcome>>
    BY <1>6 DEF Deliver, vars
  <2>2. pc' \notin {"idle", "done"} => outcome'.kind = "none"
    BY <1>6 DEF Deliver, vars, Grounding
  <2>3. WholeAnswer => WholeAnswer'
    BY <2>1 DEF WholeAnswer, Completes, Completed, Augmented, DrawsConclusion
  <2>4. PartialAnswer => PartialAnswer'
    BY <2>1 DEF PartialAnswer, Completes, Completed, Augmented, DrawsConclusion
  <2>5. FixedRefusal => FixedRefusal'
    BY <2>1 DEF FixedRefusal, OfficialFacts
  <2> QED BY <2>1, <2>2, <2>3, <2>4, <2>5 DEF Grounding, Answered, IsDraft
<1> QED BY <1>1, <1>2, <1>3, <1>4, <1>5, <1>6 DEF Next, Answering

(***************************************************************************)
(* What the invariant says of an answer.                                   *)
(***************************************************************************)
\* The sections of an answer: those that were verified, then the application's.
LEMMA WholeAnswerSections ==
    ASSUME Grounding, outcome.kind = "answer"
    PROVE  /\ outcome.sections \in Seq(Sections)
           /\ Len(draft.sections) <= Len(outcome.sections)
           /\ \A i \in 1 .. Len(draft.sections) : outcome.sections[i] = draft.sections[i]
           /\ \A i \in DOMAIN outcome.sections :
                 i \notin 1 .. Len(draft.sections) =>
                     outcome.sections[i].kind \in {"refusal", "source_warning"}
           /\ outcome.summary = draft.summary
           /\ OfficialFacts \subseteq 1 .. Len(draft.sections)
<1>1. WholeAnswer /\ draft.sections \in Seq(ModelSections)
  BY DEF Grounding, IsDraft
<1>2. /\ outcome.sections \in Seq(Sections)
      /\ Len(draft.sections) <= Len(outcome.sections)
      /\ \A i \in 1 .. Len(draft.sections) : outcome.sections[i] = draft.sections[i]
      /\ \A i \in DOMAIN outcome.sections :
            i \notin 1 .. Len(draft.sections) =>
                outcome.sections[i].kind \in {"refusal", "source_warning"}
      /\ outcome.summary = Summary(outcome.sections, Freeform)
  BY <1>1, CompletedSections DEF WholeAnswer
<1>3. Valid(draft.sections)
  BY <1>1 DEF WholeAnswer, Completes
<1>4. outcome.summary = draft.summary
  BY <1>1, <1>2, <1>3, SummaryStays DEF Grounding, IsDraft
<1>5. OfficialFacts \subseteq 1 .. Len(draft.sections)
  BY <1>2 DEF OfficialFacts
<1> QED BY <1>2, <1>4, <1>5

\* Every entry of a verified draft was accepted.
LEMMA WholeAnswerChecks ==
    ASSUME Grounding, outcome.kind = "answer"
    PROVE  /\ verdicts.checks[1] \in {"supported", "non_factual"}
           /\ \A j \in DOMAIN draft.sections : Accepts(draft.sections[j], verdicts.checks[j + 1])
           /\ NegativeTexts(draft, verdicts) = {}
<1>1. /\ draft.sections \in Seq(ModelSections) /\ verdicts \in Responses(draft)
      /\ \A i \in DOMAIN verdicts.checks : Accepts(Entries(draft)[i], verdicts.checks[i])
  BY DEF Grounding, Answered, IsDraft, WholeAnswer, Verified
<1>2. \A i \in DOMAIN verdicts.checks : verdicts.checks[i] \in {"supported", "non_factual"}
  BY <1>1 DEF Accepts
<1>3. verdicts.checks[1] \in {"supported", "non_factual"}
  BY <1>1, <1>2, ChecksOfResponse
<1>4. \A j \in DOMAIN draft.sections : Accepts(draft.sections[j], verdicts.checks[j + 1])
  BY <1>1, ChecksOfResponse, EntriesOfDraft
<1>5. NegativeTexts(draft, verdicts) = {}
  BY <1>2 DEF NegativeTexts
<1> QED BY <1>3, <1>4, <1>5

\* A partial answer has the kept sections of the draft, which are facts and
\* fewer than the draft's; its summary is the text of one of them.
LEMMA PartialAnswerSections ==
    ASSUME Grounding, outcome.kind = "partial"
    PROVE  LET n == Len(RetainedSections(draft, verdicts)) IN
           /\ OfficialFacts = 1 .. n
           /\ n \in Nat /\ 0 < n /\ n < Len(draft.sections)
           /\ \A i \in OfficialFacts : \E j \in DOMAIN draft.sections :
                 Retains(draft, verdicts, j) /\ outcome.sections[i] = draft.sections[j]
           /\ \E i \in OfficialFacts : outcome.summary = outcome.sections[i].text
<1> DEFINE r == RetainedSections(draft, verdicts)
<1>1. PartialAnswer /\ draft.sections \in Seq(ModelSections)
  BY DEF Grounding, IsDraft
<1>2. /\ r \in Seq(ModelSections)
      /\ \A k \in DOMAIN r : \E j \in DOMAIN draft.sections :
            Retains(draft, verdicts, j) /\ r[k] = draft.sections[j]
      /\ r # draft.sections => Len(r) < Len(draft.sections)
  BY <1>1, RetainedOfDraft
<1>3. r # <<>> /\ r # draft.sections /\ outcome = Completed("partial", r)
  BY <1>1 DEF PartialAnswer, Salvageable
<1> HIDE DEF r
<1>4. /\ outcome.sections \in Seq(Sections)
      /\ Len(r) <= Len(outcome.sections)
      /\ \A i \in 1 .. Len(r) : outcome.sections[i] = r[i]
      /\ \A i \in DOMAIN outcome.sections :
            i \notin 1 .. Len(r) =>
                outcome.sections[i].kind \in {"refusal", "source_warning"}
      /\ outcome.summary = Summary(outcome.sections, Freeform)
  BY <1>2, <1>3, CompletedSections
<1>5. /\ Len(r) \in Nat /\ DOMAIN r = 1 .. Len(r) /\ 0 < Len(r)
      /\ Len(outcome.sections) \in Nat
      /\ DOMAIN outcome.sections = 1 .. Len(outcome.sections)
  BY <1>2, <1>3, <1>4
<1>6. \A k \in DOMAIN r : r[k].kind = "official_fact"
  BY <1>2 DEF Retains
<1>7. OfficialFacts = 1 .. Len(r)
  <2>1. \A i \in 1 .. Len(r) : i \in DOMAIN outcome.sections
    BY <1>4, <1>5
  <2>2. \A i \in 1 .. Len(r) : i \in OfficialFacts
    BY <1>4, <1>5, <1>6, <2>1 DEF OfficialFacts
  <2>3. \A i \in OfficialFacts : i \in 1 .. Len(r)
    BY <1>4 DEF OfficialFacts
  <2> QED BY <2>2, <2>3
<1>8. \E i \in OfficialFacts : outcome.summary = outcome.sections[i].text
  <2>1. HasKind(outcome.sections, "official_fact")
    <3>1. 1 \in OfficialFacts
      BY <1>5, <1>7
    <3> QED BY <3>1 DEF OfficialFacts, HasKind
  <2>2. PICK i \in DOMAIN outcome.sections :
            /\ outcome.sections[i].kind = "official_fact"
            /\ FirstText(outcome.sections, "official_fact") = outcome.sections[i].text
    BY <1>4, <2>1, FirstExists
  <2>3. outcome.summary = FirstText(outcome.sections, "official_fact")
    BY <1>4, <2>1 DEF Summary
  <2> QED BY <2>2, <2>3 DEF OfficialFacts
<1>9. \A i \in OfficialFacts : \E j \in DOMAIN draft.sections :
          Retains(draft, verdicts, j) /\ outcome.sections[i] = draft.sections[j]
  BY <1>2, <1>4, <1>5, <1>7
<1> QED BY <1>2, <1>3, <1>5, <1>7, <1>8, <1>9 DEF r

-----------------------------------------------------------------------------
(* The theorems.                                                            *)

LEMMA GroundingAlways == Spec => []Grounding
BY GroundingInit, GroundingStep, PTL DEF Spec

\* No official fact of an answer lacks a citation or rests on another draft's
\* verdict (verified_claims, partial_verified_answer), whatever sections the
\* model writes and however it judges them.
THEOREM FactsAreGrounded == Spec => []Grounded
<1>1. Grounding => Grounded
  <2> SUFFICES ASSUME Grounding, Answered, NEW i \in OfficialFacts
               PROVE  \E j \in DOMAIN draft.sections :
                          /\ outcome.sections[i] = draft.sections[j]
                          /\ draft.sections[j].cites # {}
                          /\ verdicts.checks[j + 1] = "supported"
    BY DEF Grounded
  <2>1. CASE outcome.kind = "answer"
    <3>1. i \in DOMAIN draft.sections /\ outcome.sections[i] = draft.sections[i]
      <4>1. DOMAIN draft.sections = 1 .. Len(draft.sections)
        BY DEF Grounding, IsDraft
      <4> QED BY <2>1, <4>1, WholeAnswerSections
    <3>2. draft.sections[i].kind = "official_fact"
      BY <3>1 DEF OfficialFacts
    <3>3. Accepts(draft.sections[i], verdicts.checks[i + 1])
      BY <2>1, <3>1, WholeAnswerChecks
    <3> QED BY <3>1, <3>2, <3>3 DEF Accepts
  <2>2. CASE outcome.kind = "partial"
    BY <2>2, PartialAnswerSections DEF Retains
  <2> QED BY <2>1, <2>2 DEF Answered
<1> QED BY GroundingAlways, <1>1, PTL

\* The summary shown was verified itself, or repeats a verified fact
\* (_assemble_supported_summary, validate_verification).
THEOREM SummaryIsVerified == Spec => []SummaryVerified
<1>1. Grounding => SummaryVerified
  BY WholeAnswerSections, WholeAnswerChecks, PartialAnswerSections DEF SummaryVerified
<1> QED BY GroundingAlways, <1>1, PTL

\* What one verdict rejects is displayed nowhere, neither in a section of the
\* same text nor as the summary (partial_verified_answer).
THEOREM RejectedNotDisplayed == Spec => []RejectedTextsOmitted
<1>1. Grounding => RejectedTextsOmitted
  <2> SUFFICES ASSUME Grounding, Answered PROVE RejectedTextsOmitted
    BY DEF RejectedTextsOmitted
  <2>1. CASE outcome.kind = "answer"
    BY <2>1, WholeAnswerChecks DEF RejectedTextsOmitted
  <2>2. CASE outcome.kind = "partial"
    <3>1. \A i \in OfficialFacts :
              outcome.sections[i].text \notin NegativeTexts(draft, verdicts)
      BY <2>2, PartialAnswerSections DEF Retains
    <3>2. \E i \in OfficialFacts : outcome.summary = outcome.sections[i].text
      BY <2>2, PartialAnswerSections
    <3> QED BY <3>1, <3>2 DEF RejectedTextsOmitted
  <2> QED BY <2>1, <2>2 DEF Answered
<1> QED BY GroundingAlways, <1>1, PTL

\* Nothing is left out of an answer without the notice, and no notice stands
\* on an answer with nothing left out (_complete_verified_answer).
THEOREM OmissionsAreDisclosed == Spec => []OmissionsDisclosed
<1>1. Grounding => OmissionsDisclosed
  <2> SUFFICES ASSUME Grounding PROVE OmissionsDisclosed
    OBVIOUS
  <2>1. DOMAIN draft.sections = 1 .. Len(draft.sections)
    BY DEF Grounding, IsDraft
  <2>2. ASSUME outcome.kind = "answer"
        PROVE  /\ Len(draft.sections) <= Len(outcome.sections)
               /\ \A i \in DOMAIN draft.sections : outcome.sections[i] = draft.sections[i]
    BY <2>1, <2>2, WholeAnswerSections
  <2>3. ASSUME outcome.kind = "partial"
        PROVE  /\ 0 < Cardinality(OfficialFacts)
               /\ Cardinality(OfficialFacts) < Len(draft.sections)
               /\ outcome.sections[Len(outcome.sections)].text = NoticeText
    <3> DEFINE r == RetainedSections(draft, verdicts)
    <3>1. OfficialFacts = 1 .. Len(r) /\ Len(r) \in Nat /\ 0 < Len(r)
          /\ Len(r) < Len(draft.sections)
      BY <2>3, PartialAnswerSections
    <3>2. Cardinality(1 .. Len(r)) = Len(r)
      <4> HIDE DEF r
      <4>1. 1 \in Int /\ Len(r) \in Int /\ ~(1 > Len(r)) /\ Len(r) - 1 + 1 = Len(r)
        BY <3>1
      <4> QED BY <4>1, FS_Interval
    <3>3. r \in Seq(ModelSections) /\ outcome = Completed("partial", r)
      BY <2>3, RetainedOfDraft DEF Grounding, IsDraft, PartialAnswer
    <3> HIDE DEF r
    <3>4. outcome.sections[Len(outcome.sections)].text = NoticeText
      BY <3>3, CompletedSections
    <3> QED BY <3>1, <3>2, <3>4
  <2> QED BY <2>2, <2>3 DEF OmissionsDisclosed
<1> QED BY GroundingAlways, <1>1, PTL

\* A safety-sensitive question is never answered without the application's
\* refusal, nor with a prohibited conclusion in its summary or in a section
\* that is no refusal (_augment_generated_payload and
\* _reject_prohibited_safety_claims).
THEOREM SafetyIsKept == Spec => []SafetyKept
<1>1. Grounding => SafetyKept
  <2> DEFINE Refuses == \E i \in DOMAIN outcome.sections :
                           /\ outcome.sections[i].kind = "refusal"
                           /\ outcome.sections[i].text = RefusalText
             Inconclusive == /\ outcome.summary \notin Prohibited
                             /\ \A i \in DOMAIN outcome.sections :
                                   outcome.sections[i].text \in Prohibited =>
                                      outcome.sections[i].kind = "refusal"
  <2> SUFFICES ASSUME Grounding, safety # "none"
               PROVE  /\ Answered \/ outcome.kind = "refusal" => Refuses
                      /\ Answered => Inconclusive
    BY DEF SafetyKept
  <2>1. ASSUME NEW kind, NEW sections \in Seq(ModelSections), Completes(kind, sections),
               outcome = Completed(kind, sections)
        PROVE  Refuses /\ Inconclusive
    <3>1. ~DrawsConclusion(outcome.summary, outcome.sections)
      BY <2>1 DEF Completes
    <3>2. Inconclusive
      BY <3>1 DEF DrawsConclusion
    <3> QED BY <2>1, <3>2, CompletedSections
  <2> HIDE DEF Refuses, Inconclusive
  <2>2. CASE outcome.kind = "answer"
    BY <2>1, <2>2 DEF Grounding, IsDraft, WholeAnswer
  <2>3. CASE outcome.kind = "partial"
    <3>1. RetainedSections(draft, verdicts) \in Seq(ModelSections)
      BY RetainedOfDraft DEF Grounding, IsDraft
    <3> QED BY <2>1, <2>3, <3>1 DEF Grounding, PartialAnswer
  <2>4. CASE outcome.kind = "refusal"
    BY <2>4 DEF Grounding, FixedRefusal, Refuses, Answered
  <2> QED BY <2>2, <2>3, <2>4 DEF Answered
<1> QED BY GroundingAlways, <1>1, PTL

-----------------------------------------------------------------------------
(***************************************************************************)
(* One question costs a bounded number of model requests, whatever the     *)
(* model writes, judges or fails to say.                                   *)
(***************************************************************************)
\* Two replies make an exchange, two exchanges a verification, and a draft and
\* its verification are done twice: what has been spent at each point.
Budget ==
    /\ attempt \in 0 .. 1 /\ verTry \in 0 .. 1 /\ chatTry \in 0 .. 1
    /\ calls \in Nat
    /\ pc \in {"idle", "generate", "verify", "repair", "done"}
    /\ pc = "idle" => calls <= 12
    /\ pc = "generate" => attempt = 0 /\ calls <= chatTry
    /\ pc = "verify" => calls <= 6 * attempt + 2 + 2 * verTry + chatTry
    /\ pc = "repair" => attempt = 1 /\ calls <= 6 + chatTry
    /\ pc = "done" => calls <= 12

LEMMA BudgetInit == Init => Budget
BY DEF Init, Budget

\* A rejection that follows the last request a verification may cost.
LEMMA RejectedBudget ==
    ASSUME Budget, pc = "verify", NEW v, Rejected(v), chatTry' = 0,
           verTry' = verTry, calls' \in {calls, calls + 1}
    PROVE  Budget'
<1>1. /\ calls \in Nat /\ attempt \in 0 .. 1 /\ verTry \in 0 .. 1
      /\ chatTry \in 0 .. 1
      /\ calls <= 6 * attempt + 2 + 2 * verTry + chatTry
  BY DEF Budget
<1>2. /\ calls' \in Nat
      /\ calls' <= 6 * attempt + 6
  BY <1>1
<1>3. \/ attempt = 0 /\ attempt' = 1 /\ pc' = "repair"
      \/ attempt = 1 /\ attempt' = 1 /\ pc' = "done"
  BY DEF Rejected, Answers, Fails
<1> QED
  BY <1>1, <1>2, <1>3 DEF Budget

LEMMA AskBudget ==
    ASSUME Budget, Ask
    PROVE  Budget'
BY DEF Ask, Budget

LEMMA DraftBudget ==
    ASSUME Budget, NEW d, Draft(d)
    PROVE  Budget'
BY DEF Draft, Counted, Budget

LEMMA FailureBudget ==
    ASSUME Budget, UnknownCitation \/ ProviderFails
    PROVE  Budget'
BY DEF UnknownCitation, ProviderFails, Exchange, Counted, Fails, Budget

LEMMA CannotVerifyBudget ==
    ASSUME Budget, CannotVerify
    PROVE  Budget'
<1>1. pc = "verify" /\ Rejected(NoResponse) /\ chatTry' = 0 /\ verTry' = verTry
      /\ calls' = calls
  BY DEF CannotVerify
<1> QED
  BY <1>1, RejectedBudget

LEMMA VerifyBudget ==
    ASSUME Budget, NEW v, Verify(v)
    PROVE  Budget'
<1>1. pc = "verify" /\ calls' = calls + 1 /\ chatTry' = 0 /\ Judge(v)
  BY DEF Verify, Counted
<1>2. CASE Rejected(v) /\ verTry' = verTry
  BY <1>1, <1>2, RejectedBudget
<1>3. CASE Rejected(NoResponse) /\ verTry' = verTry
  BY <1>1, <1>3, RejectedBudget
<1>4. CASE Answers("answer", draft.sections, v) /\ verTry' = verTry
  BY <1>1, <1>4 DEF Answers, Budget
<1>5. CASE verTry = 0 /\ verTry' = 1 /\ UNCHANGED <<pc, attempt>>
  BY <1>1, <1>5 DEF Budget
<1> QED
  BY <1>1, <1>2, <1>3, <1>4, <1>5 DEF Judge

LEMMA InvalidReplyBudget ==
    ASSUME Budget, InvalidReply
    PROVE  Budget'
<1>1. /\ pc \in {"generate", "verify", "repair"}
      /\ calls' = calls + 1 /\ verTry' = verTry
  BY DEF InvalidReply, Exchange, Counted
<1>2. CASE chatTry = 0 /\ chatTry' = 1 /\ UNCHANGED <<pc, attempt>>
  BY <1>1, <1>2 DEF Budget
<1>3. CASE chatTry = 1 /\ chatTry' = 0 /\ pc = "verify" /\ Rejected(NoResponse)
  BY <1>1, <1>3, RejectedBudget
<1>4. CASE chatTry = 1 /\ chatTry' = 0 /\ pc # "verify" /\ Fails("invalid")
  BY <1>1, <1>4 DEF Fails, Budget
<1> QED
  BY <1>2, <1>3, <1>4 DEF InvalidReply

LEMMA TruncatedReplyBudget ==
    ASSUME Budget, TruncatedReply
    PROVE  Budget'
<1>1. /\ pc \in {"generate", "verify", "repair"}
      /\ calls' = calls + 1 /\ verTry' = verTry /\ chatTry' = 0
  BY DEF TruncatedReply, Exchange, Counted
<1>2. CASE pc = "verify" /\ Rejected(NoResponse)
  BY <1>1, <1>2, RejectedBudget
<1>3. CASE pc # "verify" /\ Fails("invalid")
  BY <1>1, <1>3 DEF Fails, Budget
<1> QED
  BY <1>2, <1>3 DEF TruncatedReply

LEMMA BudgetStep == Budget /\ [Next]_vars => Budget'
<1> SUFFICES ASSUME Budget, [Next]_vars
             PROVE  Budget'
  OBVIOUS
<1>1. CASE Ask
  BY <1>1, AskBudget
<1>2. CASE Answering
  BY <1>2, DraftBudget, FailureBudget, CannotVerifyBudget, VerifyBudget,
     InvalidReplyBudget, TruncatedReplyBudget DEF Answering
<1>3. CASE Deliver
  BY <1>3 DEF Deliver, Budget
<1>4. CASE UNCHANGED vars
  BY <1>4 DEF vars, Budget
<1> QED
  BY <1>1, <1>2, <1>3, <1>4 DEF Next

\* The retry limits of structured_chat, verified_claims and
\* EvidenceBoundedAnswer.answer together allow one question at most twelve
\* model requests, for any sections and texts.
THEOREM CallsBounded == Spec => []ModelCallsBounded
<1>1. Budget => ModelCallsBounded
  BY DEF Budget, ModelCallsBounded
<1> QED
  BY BudgetInit, BudgetStep, <1>1, PTL DEF Spec
=============================================================================
