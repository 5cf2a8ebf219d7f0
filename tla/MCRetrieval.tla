----------------------------- MODULE MCRetrieval -----------------------------
(* Four passages of two sources: a list's introduction and an item of it,  *)
(* and two passages of a page on residence and on registration, that share *)
(* their subjects and their examinations in different ways.                *)
EXTENDS Retrieval

Lasting == [review |-> "approved-current", health |-> "healthy", approved |-> TRUE,
            inputs |-> NoInputs]
Ending == [Lasting EXCEPT !.inputs = [due |-> Absent, block |-> 1, health |-> "current"]]

Passage(s, i, tags, exams, intro, evidence) ==
    [source |-> s, index |-> i, language |-> "en", tags |-> tags, exams |-> exams,
     intro |-> intro, evidence |-> evidence]

Certificate == {"certificate-equivalence", "language-requirement"}
Residence == {"permanent-residence", "language-requirement"}
Registration == {"registration-logistics", "language-requirement"}

Corpus(chunked, tags, exams) ==
    [chunked |-> chunked, documents |->
        <<Passage("list", 0, Certificate, {}, TRUE, Ending),
          Passage("list", 1, Certificate, {"pd2"}, FALSE, Lasting),
          Passage("page", 0, tags, {"pd3"}, FALSE, Lasting),
          Passage("page", 1, Registration, exams, FALSE, Ending)>>]
MCCorpora ==
    {Corpus(TRUE, t, x) : t \in {Residence, Residence \cup Certificate}, x \in {{}, {"pd1", "pd3"}}}
    \cup {Corpus(FALSE, Residence, {})}

Ask(cues, exams, generic) == [cues |-> cues, exams |-> exams, generic |-> generic]
MCQuestions ==
    {Ask({}, {"pd1", "pd3"}, FALSE),
     Ask(Certificate, {"pd1", "pd2"}, FALSE), Ask(Certificate, {}, TRUE),
     Ask(Certificate \cup Registration, {"pd3"}, FALSE),
     Ask(Certificate \cup Registration \cup Residence, {}, FALSE)}
==============================================================================
