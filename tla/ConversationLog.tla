--------------------------- MODULE ConversationLog ---------------------------
(***************************************************************************)
(* What the conversation store promises: each conversation is a log of     *)
(* answered questions that only grows, and a deleted one is gone at once   *)
(* and for good.                                                           *)
(***************************************************************************)
EXTENDS Sequences

CONSTANTS Ids, Questions

VARIABLES
    log,    \* the questions of each conversation
    visible \* conversations that are there

\* Earlier versions kept one question per conversation.
Init ==
    /\ log \in [Ids -> {<<>>} \cup {<<q>> : q \in Questions}]
    /\ visible \subseteq {c \in Ids : log[c] # <<>>}

Create(c, q) ==
    /\ log[c] = <<>>
    /\ log' = [log EXCEPT ![c] = <<q>>]
    /\ visible' = visible \cup {c}

Append1(c, q) ==
    /\ c \in visible
    /\ log' = [log EXCEPT ![c] = Append(@, q)]
    /\ UNCHANGED visible

Delete(gone) ==
    /\ gone \subseteq visible
    /\ visible' = visible \ gone
    /\ UNCHANGED log

Next ==
    \/ \E c \in Ids, q \in Questions : Create(c, q) \/ Append1(c, q)
    \/ \E c \in Ids : Delete({c})
    \/ Delete(visible)

Spec == Init /\ [][Next]_<<log, visible>>
=============================================================================
