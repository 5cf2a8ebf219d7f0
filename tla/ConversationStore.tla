-------------------------- MODULE ConversationStore --------------------------
(***************************************************************************)
(* The conversation store (conversation_store.py): two SQLite tables, and  *)
(* operations that are one transaction each, except that a saved answer is *)
(* read back, and an export of all records reads them, in further ones.    *)
(* Every transaction begins by creating the schema and giving each         *)
(* conversation of an earlier version its first turn.                      *)
(*                                                                         *)
(* A statement is a step.  Any may raise, and the process may die between  *)
(* two: what the transaction has written is then rolled back.              *)
(***************************************************************************)
EXTENDS Naturals, Sequences, FiniteSets, FiniteSetsExt

CONSTANTS
    Ids,       \* conversation ids
    Questions, \* a turn is its question: what it answers never changes
    None,
    MaxTurns   \* bound on the turns of a conversation

ASSUME ConstantsAssumption ==
    /\ None \notin Questions \cup Ids \cup [question : Questions, deleted : BOOLEAN]
    /\ MaxTurns \in Nat \ {0}

VARIABLES
    db,    \* the committed tables
    work,  \* the tables as the open transaction sees them
    pc,    \* next statement
    op,    \* the operation in progress
    todo,  \* conversations an export of all has still to read
    out,   \* what it has read
    reply  \* how the last operation ended

vars == <<db, work, pc, op, todo, out, reply>>

\* conversations: the question of the header, and whether it is deleted;
\* conversation_turns: rows with an index.
Headers == [question : Questions, deleted : BOOLEAN]
Rows == [conversation : Ids, index : 0 .. MaxTurns, question : Questions]
Tables == [conversations : [Ids -> Headers \cup {None}], turns : SUBSET Rows]

RowsOf(t, c) == {r \in t.turns : r.conversation = c}
Live(t) == {c \in Ids : t.conversations[c] # None /\ ~t.conversations[c].deleted}

Reads == {"list", "get", "exportAll"}
Saves == {"create", "append"}
Ops == [kind : Saves \cup {"delete", "deleteAll"} \cup Reads, id : Ids \cup {None},
        question : Questions \cup {None}]
NoOp == [kind |-> "list", id |-> None, question |-> None]

\* Mutant: deletion is a filter of the list only.
RequireAny(t, c) == t.conversations[c] # None

\* _require_conversation
Require(t, c) == c \in Live(t)

\* _next_turn_index
NextTurnIndex(t, c) == Max({r.index : r \in RowsOf(t, c)} \cup {0}) + 1

\* _migrate_legacy_conversations: the question of a header without turns.
Migrated(t) ==
    [t EXCEPT !.turns = @ \cup
        {[conversation |-> c, index |-> 1, question |-> t.conversations[c].question] :
            c \in {d \in Ids : t.conversations[d] # None /\ RowsOf(t, d) = {}}}]

\* The turns of a conversation in the order of their indexes.
History(t, c) ==
    LET rows == RowsOf(t, c)
        nth(k) == CHOOSE r \in rows : Cardinality({s \in rows : s.index < r.index}) = k - 1
    IN  [k \in 1 .. Cardinality(rows) |-> nth(k).question]

TypeOK ==
    /\ db \in Tables
    /\ work \in Tables \cup {None}
    /\ op \in Ops
    /\ pc \in {"idle", "header", "turn", "commit", "read", "list"}
    /\ pc = "idle" => work = None
    /\ todo \subseteq Ids
    /\ DOMAIN out \subseteq Ids
    /\ reply \in {"none", "ok", "failed"}

Init ==
    /\ db \in [conversations : [Ids -> Headers \cup {None}], turns : {{}}]
    /\ work = None
    /\ pc = "idle" /\ op = NoOp
    /\ todo = {} /\ out = <<>>
    /\ reply = "none"

-----------------------------------------------------------------------------

\* An operation starts: _connect, _ensure_schema.
Begin(o, step) ==
    /\ pc = "idle"
    /\ op' = o
    /\ work' = Migrated(db)
    /\ pc' = step
    /\ todo' = {} /\ out' = <<>> /\ reply' = "none"
    /\ UNCHANGED db

\* A new conversation gets a fresh id; a given id is one a page has shown.
SaveAnswer(c, q) ==
    /\ Cardinality(RowsOf(Migrated(db), c)) < MaxTurns
    /\ Begin([kind |-> IF db.conversations[c] = None THEN "create" ELSE "append",
              id |-> c, question |-> q], "header")

Delete(c) == Begin([kind |-> "delete", id |-> c, question |-> None], "header")
DeleteAll == Begin([kind |-> "deleteAll", id |-> None, question |-> None], "header")
Get(c) == Begin([kind |-> "get", id |-> c, question |-> None], "read")
List == Begin([NoOp EXCEPT !.kind = "list"], "list")
ExportAll == Begin([NoOp EXCEPT !.kind = "exportAll"], "list")

\* The header of a new conversation, or the check that the old one is there.
Header ==
    /\ pc = "header"
    /\ \/ /\ op.kind = "create"
          /\ work' = [work EXCEPT !.conversations[op.id] =
                        [question |-> op.question, deleted |-> FALSE]]
       \/ /\ op.kind = "append"
          /\ Require(work, op.id)
          /\ UNCHANGED work
    /\ pc' = "turn"
    /\ UNCHANGED <<db, op, todo, out, reply>>

\* The turn, at the next index.
Turn ==
    /\ pc = "turn"
    /\ work' = [work EXCEPT !.turns = @ \cup
                  {[conversation |-> op.id, index |-> NextTurnIndex(work, op.id),
                    question |-> op.question]}]
    /\ pc' = "commit"
    /\ UNCHANGED <<db, op, todo, out, reply>>

\* UPDATE conversations SET deleted_at_utc
MarkDeleted ==
    /\ pc = "header"
    /\ \/ op.kind = "delete" /\ op.id \in Live(work)
       \/ op.kind = "deleteAll"
    /\ LET gone == IF op.kind = "delete" THEN {op.id} ELSE Live(work) IN
       work' = [work EXCEPT !.conversations =
                  [c \in Ids |-> IF c \in gone THEN [@[c] EXCEPT !.deleted = TRUE]
                                 ELSE @[c]]]
    /\ pc' = "commit"
    /\ UNCHANGED <<db, op, todo, out, reply>>

\* Mutant: the header is committed before its turn is there.
HeaderCommitted ==
    /\ pc = "commit"
    /\ db' = [work EXCEPT !.turns = IF op.kind \in Saves THEN db.turns ELSE @]
    /\ work' = IF op.kind \in Saves THEN Migrated(db') ELSE None
    /\ pc' = IF op.kind \in Saves THEN "read" ELSE "idle"
    /\ reply' = IF op.kind \in Saves THEN "none" ELSE "ok"
    /\ UNCHANGED <<op, todo, out>>

\* A saved answer is read back in a transaction of its own.
Commit ==
    /\ pc = "commit"
    /\ db' = work
    /\ work' = IF op.kind \in Saves THEN Migrated(db') ELSE None
    /\ pc' = IF op.kind \in Saves THEN "read" ELSE "idle"
    /\ reply' = IF op.kind \in Saves THEN "none" ELSE "ok"
    /\ UNCHANGED <<op, todo, out>>

\* list_conversations; the first query of export_conversations, which then
\* reads one conversation per transaction.
ListIds ==
    /\ pc = "list"
    /\ db' = work
    /\ \/ /\ op.kind = "list"
          /\ out' = [c \in {d \in Live(work) : RowsOf(work, d) # {}} |->
                        History(work, c)]
          /\ work' = None /\ pc' = "idle" /\ reply' = "ok"
          /\ UNCHANGED todo
       \/ /\ op.kind = "exportAll"
          /\ todo' = Live(work)
          /\ IF todo' = {}
             THEN work' = None /\ pc' = "idle" /\ reply' = "ok"
             ELSE UNCHANGED <<work, reply>> /\ pc' = "read"
          /\ UNCHANGED out
    /\ UNCHANGED op

Found(c) ==
    /\ todo' = todo \ {c}
    /\ out' = [d \in DOMAIN out \cup {c} |->
                  IF d = c THEN History(work, c) ELSE out[d]]
    /\ IF todo' = {}
       THEN work' = None /\ pc' = "idle" /\ reply' = "ok"
       ELSE UNCHANGED <<work, pc, reply>>

NotFound ==
    /\ work' = None /\ pc' = "idle" /\ reply' = "failed"
    /\ UNCHANGED <<todo, out>>

Asked(c) == IF op.kind = "exportAll" THEN c \in todo ELSE c = op.id

\* Mutant: the row is looked up without regard to its deletion.
ReadDeleted(c) ==
    /\ pc = "read" /\ Asked(c)
    /\ db' = work
    /\ IF RowsOf(work, c) # {} THEN Found(c) ELSE NotFound
    /\ UNCHANGED op

\* get_conversation: what is missing is noticed after the commit.
Read(c) ==
    /\ pc = "read" /\ Asked(c)
    /\ db' = work
    /\ IF c \in Live(work) /\ RowsOf(work, c) # {} THEN Found(c) ELSE NotFound
    /\ UNCHANGED op

\* A statement raises, as the check of an id does when it is not there: the
\* transaction is rolled back, its migration included.
Fail ==
    /\ pc # "idle"
    /\ pc' = "idle" /\ work' = None
    /\ reply' = "failed"
    /\ UNCHANGED <<db, op, todo, out>>

\* The process dies: as a failure, but nobody is told.
Crash ==
    /\ pc # "idle"
    /\ pc' = "idle" /\ work' = None
    /\ UNCHANGED <<db, op, todo, out, reply>>

Next ==
    \/ \E c \in Ids, q \in Questions : SaveAnswer(c, q)
    \/ \E c \in Ids : Delete(c) \/ Get(c)
    \/ DeleteAll \/ List \/ ExportAll
    \/ Header \/ Turn \/ MarkDeleted \/ Commit
    \/ ListIds
    \/ \E c \in Ids : Read(c)
    \/ Fail
    \/ Crash

Spec == Init /\ [][Next]_vars

-----------------------------------------------------------------------------
(* Properties *)

\* The store is a set of logs that only grow, each until it is deleted as a
\* whole: a new conversation appears with its first turn, a migrated one has
\* always had it, and no failure or crash shows anything in between.
Log == INSTANCE ConversationLog WITH
           log <- [c \in Ids |-> History(Migrated(db), c)],
           visible <- Live(db)
LogSpec == Log!Spec

\* What is shown or exported of a conversation is all of it, and never of a
\* deleted one (list_conversations, get_conversation, export_conversations).
ShownWhole ==
    reply = "ok" /\ op.kind \in Reads \cup Saves =>
        /\ DOMAIN out \subseteq Live(db)
        /\ \A c \in DOMAIN out : out[c] = History(Migrated(db), c)
        /\ op.kind \in {"list", "exportAll"} => DOMAIN out = Live(db)

\* A save reported as done is the last turn of its conversation.
SaveDurable ==
    reply = "ok" /\ op.kind \in Saves =>
        LET h == History(db, op.id) IN h # <<>> /\ h[Len(h)] = op.question

=============================================================================
