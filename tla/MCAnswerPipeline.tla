--------------------------- MODULE MCAnswerPipeline ---------------------------
(* Small instances of AnswerPipeline: two facts with the same text, a fact that *)
(* depends on another statement, one that decides a personal case, one without *)
(* a citation, two interpretations, of which one decides a case as well, the   *)
(* application's refusal, repeated, and a refusal of the model's own that      *)
(* contains the decision.                                                      *)
EXTENDS AnswerPipeline

Fact(text, cites) == [kind |-> "official_fact", text |-> text, cites |-> cites]

MCSections ==
    {Fact("rule", {"e1"}), Fact("rule", {"e2"}), Fact("its cost", {"e1"}),
     Fact("you qualify", {"e1"}), Fact("hearsay", {}),
     [kind |-> "interpretation", text |-> "reading", cites |-> {}],
     [kind |-> "interpretation", text |-> "you qualify", cites |-> {}],
     [kind |-> "refusal", text |-> RefusalText, cites |-> {}],
     [kind |-> "refusal", text |-> "you qualify", cites |-> {}]}

MCDependent == {"its cost"}
MCProhibited == {"you qualify"}

\* The refusal to judge a certificate: its text names the conclusion.
MCProhibitedCertificate == {"you qualify", RefusalText}
=============================================================================
