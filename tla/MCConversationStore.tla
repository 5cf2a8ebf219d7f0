------------------------ MODULE MCConversationStore ------------------------
(* Two conversations of up to three turns, two questions. *)
EXTENDS ConversationStore, TLC

CONSTANTS c1, c2, q1, q2
MCIds == {c1, c2}
MCQuestions == {q1, q2}
=============================================================================
