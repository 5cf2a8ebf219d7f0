-------------------------- MODULE MCSourceGovernance --------------------------
(* Chunks hold three letters.  One text says a passage twice and has a      *)
(* paragraph that must be cut; another has a word that no chunk can hold.   *)
EXTENDS SourceGovernance

Passage == << <<"a">>, <<"b">> >>
Repeated == << <<Passage>>, <<Passage, << <<"c">> >> >> >>
Other == << <<Passage>> >>
Unchunkable == << << << <<"a", "b", "a", "b">> >> >> >>
MCTexts == {Repeated, Other, Unchunkable}

Approved(text) ==
    [source |-> "source", state |-> "approved-current", text |-> Normalized(text), due |-> 0,
     block |-> BlockAfter, declared |-> "current", reviewers |-> TRUE]
Old ==
    LET record == Approved(Repeated) IN
    [source |-> record, version |-> 1, root |-> "old",
     documents |-> Chunks(Document(Repeated, record), record)]

MCRoots ==
    [id \in {"current", "old"} |->
        IF id = "current" THEN [key |-> "k1", status |-> "active", allowed |-> {}]
                          ELSE [key |-> "k1", status |-> "retired", allowed |-> {Old}]]

\* BuildsAreAccepted presupposes this of how texts are cut.
ASSUME TextsCutWhole == \A text \in Texts : CutWhole(text)

\* A build takes what it needs of the governance in its first step, and nothing
\* else looks at it: its steps need not be interleaved with those of a build, an
\* installation or a load.
GovernedBefore == governance' # governance => build = None /\ install = None /\ active = None
==============================================================================
