------------------------ MODULE ConversationStoreProofs ------------------------
(***************************************************************************)
(* The conversation store implements its logs, and shows and saves whole   *)
(* conversations: proved for any conversations, questions and number of    *)
(* turns.                                                                  *)
(***************************************************************************)
EXTENDS ConversationStore, FiniteSetTheorems, FunctionTheorems, SequenceTheorems, TLAPS

(***************************************************************************)
(* The rows of a conversation and the log they are.                        *)
(***************************************************************************)
Row(c, i, q) == [conversation |-> c, index |-> i, question |-> q]
LogRows(c, h) == {Row(c, i, h[i]) : i \in 1 .. Len(h)}

\* The first m rows of a log are m.
LEMMA RowsCount ==
    ASSUME NEW c, NEW h \in Seq(Questions), NEW m \in 0 .. Len(h)
    PROVE  Cardinality({Row(c, i, h[i]) : i \in 1 .. m}) = m
<1> DEFINE S == {Row(c, i, h[i]) : i \in 1 .. m}
           f == [i \in 1 .. m |-> Row(c, i, h[i])]
<1>1. \A i, j \in 1 .. m : f[i] = f[j] => i = j
  <2> SUFFICES ASSUME NEW i \in 1 .. m, NEW j \in 1 .. m, f[i] = f[j] PROVE i = j
    OBVIOUS
  <2>1. Row(c, i, h[i]).index = Row(c, j, h[j]).index
    OBVIOUS
  <2> QED BY <2>1 DEF Row
<1>2. f \in [1 .. m -> S]
  OBVIOUS
<1>3. \A r \in S : \E i \in 1 .. m : f[i] = r
  OBVIOUS
<1> HIDE DEF f
<1>4. f \in Bijection(1 .. m, S)
  BY <1>1, <1>2, <1>3 DEF Bijection, Injection, Surjection, IsInjective
<1>5. ExistsBijection(1 .. m, S)
  BY <1>4 DEF ExistsBijection
<1> HIDE DEF S
<1>6. m \in Nat
  OBVIOUS
<1>7. IsFiniteSet(1 .. m) /\ Cardinality(1 .. m) = m
  BY <1>6, FS_Interval
<1>8. Cardinality(S) = m
  BY <1>5, <1>7, FS_Bijection
<1> QED BY <1>8 DEF S

LEMMA HistoryIs ==
    ASSUME NEW t, NEW c, NEW h \in Seq(Questions), RowsOf(t, c) = LogRows(c, h)
    PROVE  History(t, c) = h /\ Cardinality(RowsOf(t, c)) = Len(h)
<1> DEFINE rows == RowsOf(t, c)
           rank(r) == Cardinality({s \in rows : s.index < r.index})
           nth(k) == CHOOSE r \in rows : rank(r) = k - 1
<1>1. Len(h) \in Nat /\ DOMAIN h = 1 .. Len(h)
  OBVIOUS
<1>2. Cardinality(rows) = Len(h)
  <2>1. Len(h) \in 0 .. Len(h)
    BY <1>1
  <2>2. Cardinality(LogRows(c, h)) = Len(h)
    BY <2>1, RowsCount DEF LogRows
  <2> QED BY <2>2
<1>3. ASSUME NEW k \in 1 .. Len(h) PROVE rank(Row(c, k, h[k])) = k - 1
  <2> DEFINE r == Row(c, k, h[k])
  <2>1. \A i \in 1 .. Len(h) : Row(c, i, h[i]).index = i
    BY DEF Row
  <2>2. {s \in rows : s.index < r.index} = {Row(c, i, h[i]) : i \in 1 .. (k - 1)}
    <3>1. ASSUME NEW s \in rows, s.index < r.index
          PROVE  s \in {Row(c, i, h[i]) : i \in 1 .. (k - 1)}
      <4>1. PICK i \in 1 .. Len(h) : s = Row(c, i, h[i])
        BY DEF LogRows
      <4>2. s.index = i /\ r.index = k
        BY <2>1, <4>1
      <4>3. i \in 1 .. (k - 1)
        BY <3>1, <4>2, <1>1
      <4> QED BY <4>1, <4>3
    <3>2. ASSUME NEW i \in 1 .. (k - 1)
          PROVE  Row(c, i, h[i]) \in rows /\ Row(c, i, h[i]).index < r.index
      <4>1. i \in 1 .. Len(h) /\ i < k
        BY <1>1
      <4>2. Row(c, i, h[i]) \in rows
        BY <4>1 DEF LogRows
      <4> QED BY <2>1, <4>1, <4>2
    <3> HIDE DEF r, rows
    <3> QED BY <3>1, <3>2
  <2>3. k - 1 \in 0 .. Len(h)
    BY <1>1
  <2> QED BY <2>2, <2>3, RowsCount
<1>4. ASSUME NEW k \in 1 .. Len(h) PROVE nth(k) = Row(c, k, h[k])
  <2>1. Row(c, k, h[k]) \in rows
    BY DEF LogRows
  <2>2. \E r \in rows : rank(r) = k - 1
    BY <1>3, <2>1
  <2> HIDE DEF rank
  <2>3. nth(k) \in rows /\ rank(nth(k)) = k - 1
    BY <2>2
  <2>4. PICK i \in 1 .. Len(h) : nth(k) = Row(c, i, h[i])
    BY <2>3 DEF LogRows
  <2>5. i - 1 = k - 1
    BY <1>3, <2>3, <2>4
  <2>6. i = k
    BY <1>1, <2>5
  <2> QED BY <2>4, <2>6
<1>5. History(t, c) = [k \in 1 .. Len(h) |-> nth(k).question]
  BY <1>2 DEF History
<1> HIDE DEF nth
<1>6. \A k \in 1 .. Len(h) : nth(k).question = h[k]
  BY <1>4 DEF Row
<1>7. History(t, c) = [k \in 1 .. Len(h) |-> h[k]]
  BY <1>5, <1>6
<1>8. h = [k \in 1 .. Len(h) |-> h[k]]
  BY <1>1
<1> QED BY <1>2, <1>7, <1>8 DEF rows

LEMMA NextTurnIndexIs ==
    ASSUME NEW t, NEW c, NEW h \in Seq(Questions), RowsOf(t, c) = LogRows(c, h)
    PROVE  NextTurnIndex(t, c) = Len(h) + 1
<1> DEFINE I == {r.index : r \in RowsOf(t, c)} \cup {0}
<1>1. Len(h) \in Nat
  OBVIOUS
<1>2. \A i \in 1 .. Len(h) : Row(c, i, h[i]).index = i
  BY DEF Row
<1>3. I = 0 .. Len(h)
  <2>1. \A x \in I : x \in 0 .. Len(h)
    BY <1>1, <1>2 DEF LogRows
  <2>2. ASSUME NEW x \in 1 .. Len(h) PROVE x \in I
    <3>1. Row(c, x, h[x]) \in RowsOf(t, c)
      BY DEF LogRows
    <3> QED BY <1>2, <3>1
  <2>3. \A x \in 0 .. Len(h) : x = 0 \/ x \in 1 .. Len(h)
    BY <1>1
  <2> HIDE DEF I
  <2>4. 0 \in I
    BY DEF I
  <2> QED BY <2>1, <2>2, <2>3, <2>4
<1> HIDE DEF I
<1>4. Max(I) = Len(h)
  <2>1. Len(h) \in I /\ \A y \in I : Len(h) >= y
    BY <1>1, <1>3
  <2>2. Max(I) \in I /\ \A y \in I : Max(I) >= y
    BY <2>1 DEF Max
  <2>3. Max(I) >= Len(h) /\ Len(h) >= Max(I) /\ Max(I) \in Nat
    BY <1>1, <1>3, <2>1, <2>2
  <2> QED BY <1>1, <2>3
<1> QED BY <1>4 DEF NextTurnIndex, I

\* A turn at the next index appends to the log of its conversation alone.
LEMMA TurnAppends ==
    ASSUME NEW t, NEW c, NEW h \in Seq(Questions), RowsOf(t, c) = LogRows(c, h),
           NEW q \in Questions, NEW u, u.turns = t.turns \cup {Row(c, Len(h) + 1, q)}
    PROVE  /\ RowsOf(u, c) = LogRows(c, Append(h, q))
           /\ \A d : d # c => RowsOf(u, d) = RowsOf(t, d)
<1> DEFINE new == Row(c, Len(h) + 1, q)
           g == Append(h, q)
<1>1. Len(h) \in Nat /\ Len(g) = Len(h) + 1
      /\ g[Len(h) + 1] = q /\ \A i \in 1 .. Len(h) : g[i] = h[i]
  OBVIOUS
<1>2. new.conversation = c
  BY DEF Row
<1>3. RowsOf(u, c) = RowsOf(t, c) \cup {new}
  <2> HIDE DEF new
  <2> QED BY <1>2 DEF RowsOf, new
<1> HIDE DEF g
<1>4. LogRows(c, g) = LogRows(c, h) \cup {new}
  <2>1. ASSUME NEW i \in 1 .. Len(g) PROVE Row(c, i, g[i]) \in LogRows(c, h) \cup {new}
    <3>1. i \in 1 .. Len(h) \/ i = Len(h) + 1
      BY <1>1
    <3>2. ASSUME i \in 1 .. Len(h) PROVE Row(c, i, g[i]) \in LogRows(c, h)
      BY <1>1, <3>2 DEF LogRows
    <3>3. ASSUME i = Len(h) + 1 PROVE Row(c, i, g[i]) = new
      BY <1>1, <3>3
    <3> QED BY <3>1, <3>2, <3>3
  <2>2. ASSUME NEW i \in 1 .. Len(h) PROVE Row(c, i, h[i]) \in LogRows(c, g)
    <3>1. i \in 1 .. Len(g) /\ g[i] = h[i]
      BY <1>1
    <3> QED BY <3>1 DEF LogRows
  <2>3. new \in LogRows(c, g)
    <3>1. Len(h) + 1 \in 1 .. Len(g)
      BY <1>1
    <3>2. new = Row(c, Len(h) + 1, g[Len(h) + 1])
      BY <1>1
    <3> QED BY <3>1, <3>2 DEF LogRows
  <2>4. \A r \in LogRows(c, g) : r \in LogRows(c, h) \cup {new}
    BY <2>1 DEF LogRows
  <2>5. \A r \in LogRows(c, h) : r \in LogRows(c, g)
    BY <2>2 DEF LogRows
  <2> QED BY <2>3, <2>4, <2>5
<1>5. \A d : d # c => RowsOf(u, d) = RowsOf(t, d)
  <2> HIDE DEF new
  <2> QED BY <1>2 DEF RowsOf, new
<1> QED BY <1>3, <1>4, <1>5 DEF g

(***************************************************************************)
(* Tables whose rows are logs, and the migration.                          *)
(***************************************************************************)
Numbered(t) ==
    /\ t \in Tables
    /\ \A c \in Ids :
          /\ History(t, c) \in Seq(Questions) /\ RowsOf(t, c) = LogRows(c, History(t, c))
          /\ t.conversations[c] = None => History(t, c) = <<>>
Settled(t) == \A c \in Ids : t.conversations[c] # None => History(t, c) # <<>>

LEMMA EmptyLog ==
    ASSUME NEW c, NEW h \in Seq(Questions)
    PROVE  LogRows(c, h) = {} <=> h = <<>>
<1>1. ASSUME h # <<>> PROVE LogRows(c, h) # {}
  <2>1. 1 \in 1 .. Len(h)
    BY <1>1
  <2> QED BY <2>1 DEF LogRows
<1>2. ASSUME h = <<>> PROVE LogRows(c, h) = {}
  <2>1. \A i \in 1 .. Len(h) : FALSE
    BY <1>2
  <2> QED BY <2>1 DEF LogRows
<1> QED BY <1>1, <1>2

LEMMA EmptyTables ==
    ASSUME NEW t \in [conversations : [Ids -> Headers \cup {None}], turns : {{}}]
    PROVE  Numbered(t) /\ \A c \in Ids : History(t, c) = <<>>
<1>1. t \in Tables /\ t.turns = {}
  BY DEF Tables
<1>2. ASSUME NEW c \in Ids
      PROVE  History(t, c) = <<>> /\ RowsOf(t, c) = LogRows(c, <<>>) /\ <<>> \in Seq(Questions)
  <2>1. <<>> \in Seq(Questions) /\ RowsOf(t, c) = {}
    BY <1>1 DEF RowsOf
  <2>2. LogRows(c, <<>>) = {}
    BY <2>1, EmptyLog
  <2> QED BY <2>1, <2>2, HistoryIs
<1> QED BY <1>1, <1>2 DEF Numbered

\* Rows and logs are of the turns alone, and of the conversation's own.
LEMMA SameRows ==
    ASSUME NEW t, NEW u, NEW c, RowsOf(t, c) = RowsOf(u, c)
    PROVE  History(t, c) = History(u, c)
BY DEF History

\* Conversations of an earlier version, which have no turn yet.
Legacy(t) == {c \in Ids : t.conversations[c] # None /\ History(t, c) = <<>>}
MigratedHistory(t, c) ==
    IF c \in Legacy(t) THEN <<t.conversations[c].question>> ELSE History(t, c)

LEMMA MigratedIs ==
    ASSUME NEW t, Numbered(t)
    PROVE  /\ Numbered(Migrated(t)) /\ Settled(Migrated(t))
           /\ Migrated(t).conversations = t.conversations
           /\ Live(Migrated(t)) = Live(t)
           /\ \A c \in Ids : History(Migrated(t), c) = MigratedHistory(t, c)
<1> DEFINE first == {Row(c, 1, t.conversations[c].question) : c \in Legacy(t)}
           m == Migrated(t)
<1>1. t = [conversations |-> t.conversations, turns |-> t.turns]
      /\ t.conversations \in [Ids -> Headers \cup {None}] /\ t.turns \in SUBSET Rows
  BY DEF Numbered, Tables
<1>2. \A c \in Ids : RowsOf(t, c) = {} <=> History(t, c) = <<>>
  BY EmptyLog DEF Numbered
<1>3. m = [conversations |-> t.conversations, turns |-> t.turns \cup first]
  <2>1. {d \in Ids : t.conversations[d] # None /\ RowsOf(t, d) = {}} = Legacy(t)
    BY <1>2 DEF Legacy
  <2>2. m = [t EXCEPT !.turns = @ \cup first]
    BY <2>1 DEF Migrated, Row
  <2> HIDE DEF first, m
  <2> QED BY <1>1, <2>2
<1>4. m.conversations = t.conversations /\ m.turns = t.turns \cup first
  BY <1>3
<1>5. \A c \in Legacy(t) : c \in Ids /\ t.conversations[c] \in Headers
                           /\ t.conversations[c].question \in Questions
  BY <1>1 DEF Legacy, Headers
<1>6. m \in Tables
  <2>1. \A r \in first : r \in Rows
    BY <1>5, ConstantsAssumption DEF Row, Rows
  <2> HIDE DEF first, m
  <2> QED BY <1>1, <1>3, <2>1 DEF Tables
<1>7. ASSUME NEW c \in Ids
      PROVE  /\ MigratedHistory(t, c) \in Seq(Questions)
             /\ RowsOf(m, c) = LogRows(c, MigratedHistory(t, c))
             /\ History(m, c) = MigratedHistory(t, c)
  <2>1. \A r \in first : r.conversation = c =>
            c \in Legacy(t) /\ r = Row(c, 1, t.conversations[c].question)
    BY DEF Row
  <2>2. CASE c \notin Legacy(t)
    <3>1. RowsOf(m, c) = RowsOf(t, c)
      <4> HIDE DEF first, m
      <4> QED BY <1>4, <2>1, <2>2 DEF RowsOf
    <3>2. History(m, c) = History(t, c)
      BY <3>1, SameRows
    <3> QED BY <2>2, <3>1, <3>2 DEF Numbered, MigratedHistory
  <2>3. CASE c \in Legacy(t)
    <3> DEFINE q == t.conversations[c].question
    <3>1. q \in Questions /\ <<q>> \in Seq(Questions) /\ Append(<<>>, q) = <<q>>
          /\ <<>> \in Seq(Questions) /\ Len(<<>>) = 0
      BY <1>5, <2>3
    <3>2. RowsOf(t, c) = {}
      BY <1>2, <2>3 DEF Legacy
    <3>3. Row(c, 1, q) \in first /\ Row(c, 1, q).conversation = c
      BY <2>3 DEF Row
    <3>4. RowsOf(m, c) = {Row(c, 1, q)}
      <4> HIDE DEF first, m, q
      <4> QED BY <1>4, <2>1, <3>2, <3>3 DEF RowsOf, q
    <3>5. LogRows(c, <<q>>) = {Row(c, 1, q)}
      <4>1. Len(<<q>>) = 1 /\ <<q>>[1] = q
        OBVIOUS
      <4>2. 1 .. 1 = {1}
        OBVIOUS
      <4> HIDE DEF q
      <4> QED BY <4>1, <4>2 DEF LogRows
    <3>6. MigratedHistory(t, c) = <<q>>
      BY <2>3 DEF MigratedHistory
    <3> HIDE DEF q, m
    <3>7. History(m, c) = <<q>>
      BY <3>1, <3>4, <3>5, HistoryIs
    <3> QED BY <3>1, <3>4, <3>5, <3>6, <3>7
  <2> QED BY <2>2, <2>3
<1> HIDE DEF m
<1>8. \A c \in Ids : c \in Legacy(t) => MigratedHistory(t, c) # <<>>
  BY DEF MigratedHistory
<1>9. Numbered(m)
  BY <1>4, <1>6, <1>7 DEF Numbered, MigratedHistory, Legacy
<1>10. Settled(m)
  BY <1>4, <1>7, <1>8 DEF Settled, MigratedHistory, Legacy
<1>11. Live(m) = Live(t)
  BY <1>4 DEF Live
<1> QED BY <1>4, <1>7, <1>9, <1>10, <1>11 DEF m

\* Once all conversations have a turn, the migration does nothing.
LEMMA MigratedOnce ==
    ASSUME NEW t, Numbered(t), Settled(t)
    PROVE  Migrated(t) = t
<1>1. t = [conversations |-> t.conversations, turns |-> t.turns]
  BY DEF Numbered, Tables
<1>2. \A c \in Ids : RowsOf(t, c) = {} => t.conversations[c] = None
  BY EmptyLog DEF Numbered, Settled
<1>3. {d \in Ids : t.conversations[d] # None /\ RowsOf(t, d) = {}} = {}
  BY <1>2
<1>4. Migrated(t) = [t EXCEPT !.turns = @ \cup {}]
  BY <1>3 DEF Migrated
<1> QED BY <1>1, <1>4

(***************************************************************************)
(* The invariant: what the open transaction has done to the logs so far.   *)
(***************************************************************************)
H(c) == History(Migrated(db), c)
Deletes == {"delete", "deleteAll"}
EndsWith(h, q) == h # <<>> /\ h[Len(h)] = q

Typed ==
    /\ op \in Ops
    /\ pc \in {"idle", "header", "turn", "commit", "read", "list"}
    /\ todo \subseteq Ids /\ DOMAIN out \subseteq Ids
    /\ reply \in {"none", "ok", "failed"}

OpFits ==
    /\ pc = "idle" => work = None
    /\ pc # "idle" => reply = "none"
    /\ pc \in {"header", "commit"} => op.kind \in Saves \cup Deletes
    /\ pc = "turn" => op.kind \in Saves
    /\ pc = "read" => op.kind \in Saves \cup {"get", "exportAll"}
    /\ pc = "list" => op.kind \in {"list", "exportAll"}
    /\ pc \in {"header", "turn", "commit"} /\ op.kind \in Saves =>
          op.id \in Ids /\ op.question \in Questions
    /\ pc \in {"header", "turn"} /\ op.kind \in Saves => Len(H(op.id)) < MaxTurns

\* What is saved goes to a conversation that is there, or is its first turn.
Saveable ==
    /\ op.kind = "create" => H(op.id) = <<>>
    /\ op.kind = "append" => op.id \in Live(db)

HeaderReady == op.kind = "create" => H(op.id) = <<>>

TurnReady ==
    /\ Numbered(work) /\ Saveable
    /\ Live(work) = Live(db) \cup {op.id}
    /\ work.conversations[op.id] # None
    /\ \A c \in Ids : /\ History(work, c) = H(c)
                      /\ c # op.id /\ work.conversations[c] # None => H(c) # <<>>

CommitReady ==
    /\ Numbered(work) /\ Settled(work)
    /\ op.kind \in Saves =>
          /\ Saveable
          /\ Live(work) = Live(db) \cup {op.id}
          /\ \A c \in Ids : History(work, c) =
                IF c = op.id THEN Append(H(c), op.question) ELSE H(c)
    /\ op.kind \in Deletes =>
          /\ \A c \in Ids : History(work, c) = H(c)
          /\ op.kind = "delete" => op.id \in Live(db) /\ Live(work) = Live(db) \ {op.id}
          /\ op.kind = "deleteAll" => Live(work) = {}

WorkFits ==
    /\ pc \in {"header", "read", "list"} => work = Migrated(db)
    /\ pc = "header" => HeaderReady
    /\ pc = "turn" => TurnReady
    /\ pc = "commit" => CommitReady

\* An export reads all that is there, and all of each.
Reading ==
    /\ pc \in {"header", "turn", "commit", "list"} => out = <<>> /\ todo = {}
    /\ pc = "read" /\ op.kind # "exportAll" => out = <<>> /\ todo = {}
    /\ pc = "read" /\ op.kind = "exportAll" =>
          /\ DOMAIN out \cup todo = Live(db)
          /\ \A c \in DOMAIN out : out[c] = H(c)
    /\ pc = "read" /\ op.kind \in Saves => EndsWith(History(db, op.id), op.question)

IInv == Numbered(db) /\ Typed /\ OpFits /\ WorkFits /\ Reading /\ ShownWhole /\ SaveDurable

LEMMA NoneIsNoHeader == None \notin Headers
BY ConstantsAssumption DEF Headers

LEMMA InitHolds == Init => IInv
<1> SUFFICES ASSUME Init PROVE IInv
  OBVIOUS
<1>1. Numbered(db)
  BY EmptyTables DEF Init
<1>2. Typed
  BY DEF Init, Typed, Ops, NoOp, Reads, Saves
<1> QED BY <1>1, <1>2 DEF Init, IInv, OpFits, WorkFits, Reading, ShownWhole, SaveDurable

-----------------------------------------------------------------------------
\* What every transaction begins with.
LEMMA MigratedDb ==
    ASSUME Numbered(db)
    PROVE  /\ Numbered(Migrated(db)) /\ Settled(Migrated(db))
           /\ Migrated(Migrated(db)) = Migrated(db)
           /\ Live(Migrated(db)) = Live(db)
           /\ Migrated(db).conversations = db.conversations
           /\ \A c \in Ids : /\ H(c) \in Seq(Questions)
                             /\ Cardinality(RowsOf(Migrated(db), c)) = Len(H(c))
                             /\ db.conversations[c] = None => H(c) = <<>>
                             /\ db.conversations[c] # None => H(c) # <<>>
                             /\ History(db, c) # <<>> => H(c) = History(db, c)
<1>1. /\ Numbered(Migrated(db)) /\ Settled(Migrated(db))
      /\ Live(Migrated(db)) = Live(db)
      /\ Migrated(db).conversations = db.conversations
      /\ \A c \in Ids : H(c) = MigratedHistory(db, c)
  BY MigratedIs DEF H
<1>2. Migrated(Migrated(db)) = Migrated(db)
  BY <1>1, MigratedOnce
<1>3. ASSUME NEW c \in Ids
      PROVE  /\ H(c) \in Seq(Questions)
             /\ Cardinality(RowsOf(Migrated(db), c)) = Len(H(c))
             /\ db.conversations[c] = None => H(c) = <<>>
             /\ db.conversations[c] # None => H(c) # <<>>
             /\ History(db, c) # <<>> => H(c) = History(db, c)
  <2>1. H(c) \in Seq(Questions) /\ RowsOf(Migrated(db), c) = LogRows(c, H(c))
    BY <1>1 DEF Numbered, H
  <2>2. Cardinality(RowsOf(Migrated(db), c)) = Len(H(c))
    BY <2>1, HistoryIs
  <2> QED BY <1>1, <2>1, <2>2 DEF Numbered, Settled, H, MigratedHistory, Legacy
<1> QED BY <1>1, <1>2, <1>3

\* A transaction begins with the tables as they are, and migrates them.
LEMMA BeginKeeps ==
    ASSUME IInv, NEW o \in Ops, NEW step \in {"header", "read", "list"}, Begin(o, step),
           step = "header" => o.kind \in Saves \cup Deletes,
           step = "read" => o.kind = "get",
           step = "list" => o.kind \in {"list", "exportAll"},
           o.kind \in Saves => o.id \in Ids /\ o.question \in Questions /\ Len(H(o.id)) < MaxTurns,
           o.kind = "create" => db.conversations[o.id] = None
    PROVE  IInv'
<1>1. /\ op' = o /\ work' = Migrated(db) /\ pc' = step /\ todo' = {} /\ out' = <<>>
      /\ reply' = "none" /\ db' = db
  BY DEF Begin
<1>2. Typed' /\ Numbered(db)'
  BY <1>1 DEF Typed, IInv
<1>3. OpFits'
  BY <1>1 DEF OpFits, H
<1>4. o.kind = "create" => H(o.id) = <<>>
  BY MigratedDb DEF IInv, Saves
<1>5. WorkFits'
  BY <1>1, <1>4 DEF WorkFits, HeaderReady, H
<1>6. Reading' /\ ShownWhole' /\ SaveDurable'
  BY <1>1 DEF Reading, ShownWhole, SaveDurable, Saves, Reads, Deletes
<1> QED BY <1>2, <1>3, <1>5, <1>6 DEF IInv

LEMMA BeginsKeep ==
    ASSUME IInv,
           \/ \E c \in Ids, q \in Questions : SaveAnswer(c, q)
           \/ \E c \in Ids : Delete(c) \/ Get(c)
           \/ DeleteAll \/ List \/ ExportAll
    PROVE  IInv'
<1>1. ASSUME NEW c \in Ids, NEW q \in Questions, SaveAnswer(c, q) PROVE IInv'
  <2> DEFINE o == [kind |-> IF db.conversations[c] = None THEN "create" ELSE "append",
                   id |-> c, question |-> q]
  <2>1. Begin(o, "header") /\ Cardinality(RowsOf(Migrated(db), c)) < MaxTurns
    BY <1>1 DEF SaveAnswer
  <2>2. o \in Ops /\ o.kind \in Saves /\ o.id = c /\ o.question = q
        /\ (o.kind = "create" => db.conversations[c] = None)
    BY DEF Ops, Saves
  <2>3. Len(H(c)) < MaxTurns
    BY <2>1, MigratedDb DEF IInv
  <2> HIDE DEF o
  <2> QED BY <2>1, <2>2, <2>3, BeginKeeps
<1>2. ASSUME NEW c \in Ids, Delete(c) \/ Get(c) PROVE IInv'
  <2>1. /\ [kind |-> "delete", id |-> c, question |-> None] \in Ops
        /\ [kind |-> "get", id |-> c, question |-> None] \in Ops
    BY DEF Ops, Reads
  <2> QED BY <1>2, <2>1, BeginKeeps DEF Delete, Get, Saves, Deletes
<1>3. ASSUME DeleteAll \/ List \/ ExportAll PROVE IInv'
  <2>1. /\ [kind |-> "deleteAll", id |-> None, question |-> None] \in Ops
        /\ [NoOp EXCEPT !.kind = "list"] \in Ops /\ [NoOp EXCEPT !.kind = "list"].kind = "list"
        /\ [NoOp EXCEPT !.kind = "exportAll"] \in Ops
        /\ [NoOp EXCEPT !.kind = "exportAll"].kind = "exportAll"
    BY DEF Ops, Reads, NoOp
  <2> QED BY <1>3, <2>1, BeginKeeps DEF DeleteAll, List, ExportAll, Saves, Deletes
<1> QED BY <1>1, <1>2, <1>3

\* A transaction that ends before its commit leaves everything as it was.
LEMMA StopKeeps ==
    ASSUME IInv, Fail \/ Crash
    PROVE  IInv'
<1>1. /\ pc # "idle" /\ pc' = "idle" /\ work' = None /\ UNCHANGED <<db, op, todo, out>>
      /\ reply' \in {"failed", reply}
  BY DEF Fail, Crash
<1>2. reply' # "ok" /\ reply' \in {"none", "failed"}
  BY <1>1 DEF IInv, OpFits
<1> QED BY <1>1, <1>2 DEF IInv, Typed, OpFits, WorkFits, Reading, ShownWhole, SaveDurable

-----------------------------------------------------------------------------
\* Only the headers of tables change: their logs do not.
LEMMA HeadersChange ==
    ASSUME NEW t, Numbered(t), NEW headers \in [Ids -> Headers \cup {None}],
           NEW u, u = [t EXCEPT !.conversations = headers],
           \A c \in Ids : headers[c] = None => t.conversations[c] = None
    PROVE  /\ Numbered(u) /\ u.conversations = headers
           /\ \A c \in Ids : History(u, c) = History(t, c)
<1>1. t = [conversations |-> t.conversations, turns |-> t.turns] /\ t.turns \in SUBSET Rows
  BY DEF Numbered, Tables
<1>2. u = [conversations |-> headers, turns |-> t.turns]
  BY <1>1
<1>3. u.turns = t.turns /\ u.conversations = headers /\ u \in Tables
  BY <1>1, <1>2 DEF Tables
<1>4. \A c \in Ids : RowsOf(u, c) = RowsOf(t, c)
  BY <1>3 DEF RowsOf
<1>5. \A c \in Ids : History(u, c) = History(t, c)
  BY <1>4, SameRows
<1> QED BY <1>3, <1>4, <1>5 DEF Numbered

LEMMA HeaderKeeps ==
    ASSUME IInv, Header
    PROVE  IInv'
<1>1. /\ pc = "header" /\ pc' = "turn" /\ UNCHANGED <<db, op, todo, out, reply>>
      /\ work = Migrated(db) /\ reply = "none"
  BY DEF Header, IInv, WorkFits, OpFits
<1>2. /\ Numbered(work) /\ Settled(work) /\ Live(work) = Live(db)
      /\ \A c \in Ids : History(work, c) = H(c)
  BY <1>1, MigratedDb DEF IInv, H
<1>3. op.kind \in Saves /\ op.id \in Ids /\ op.question \in Questions
      /\ Len(H(op.id)) < MaxTurns
  BY <1>1 DEF Header, IInv, OpFits, Saves
<1>4. TurnReady'
  <2>1. CASE op.kind = "create"
    <3> DEFINE header == [question |-> op.question, deleted |-> FALSE]
               headers == [work.conversations EXCEPT ![op.id] = header]
    <3>1. work' = [work EXCEPT !.conversations = headers]
      BY <1>1, <2>1 DEF Header
    <3>2. work.conversations \in [Ids -> Headers \cup {None}]
      BY <1>2 DEF Numbered, Tables
    <3>3. header \in Headers /\ header # None
      <4>1. header \in Headers
        BY <1>3 DEF Headers
      <4> QED BY <4>1, NoneIsNoHeader
    <3>4. headers \in [Ids -> Headers \cup {None}]
          /\ \A c \in Ids : headers[c] = IF c = op.id THEN header ELSE work.conversations[c]
      <4> HIDE DEF header
      <4> QED BY <1>3, <3>2, <3>3
    <3>5. header.deleted = FALSE
      OBVIOUS
    <3> HIDE DEF headers, header
    <3>6. \A c \in Ids : headers[c] = None => work.conversations[c] = None
      BY <3>3, <3>4
    <3>7. /\ Numbered(work') /\ work'.conversations = headers
          /\ \A c \in Ids : History(work', c) = History(work, c)
      BY <1>2, <3>1, <3>4, <3>6, HeadersChange
    <3>8. Live(work') = Live(work) \cup {op.id}
      BY <1>3, <3>3, <3>4, <3>5, <3>7 DEF Live
    <3>9. \A c \in Ids : c # op.id /\ work'.conversations[c] # None => H(c) # <<>>
      BY <1>2, <3>4, <3>7 DEF Settled
    <3>10. Saveable
      BY <1>1, <2>1 DEF IInv, WorkFits, HeaderReady, Saveable
    <3> QED BY <1>1, <1>2, <1>3, <3>3, <3>4, <3>7, <3>8, <3>9, <3>10
            DEF TurnReady, Saveable, H
  <2>2. CASE op.kind = "append"
    <3>1. op.id \in Live(work) /\ work' = work
      BY <2>2 DEF Header, Require
    <3> QED BY <1>1, <1>2, <2>2, <3>1 DEF TurnReady, Saveable, H, Settled, Live
  <2> QED BY <2>1, <2>2, <1>3 DEF Saves
<1>5. Typed' /\ OpFits' /\ WorkFits'
  BY <1>1, <1>3, <1>4 DEF IInv, Typed, OpFits, WorkFits, H
<1>6. Reading' /\ ShownWhole' /\ SaveDurable'
  BY <1>1 DEF IInv, Reading, ShownWhole, SaveDurable
<1> QED BY <1>1, <1>5, <1>6 DEF IInv

LEMMA TurnKeeps ==
    ASSUME IInv, Turn
    PROVE  IInv'
<1> DEFINE h == H(op.id)
           i == NextTurnIndex(work, op.id)
<1>1. /\ pc = "turn" /\ pc' = "commit" /\ UNCHANGED <<db, op, todo, out, reply>>
      /\ work' = [work EXCEPT !.turns = @ \cup {Row(op.id, i, op.question)}]
      /\ reply = "none" /\ TurnReady /\ op.kind \in Saves
      /\ op.id \in Ids /\ op.question \in Questions /\ Len(h) < MaxTurns
  BY DEF Turn, IInv, OpFits, WorkFits, Row
<1>2. h \in Seq(Questions) /\ History(work, op.id) = h /\ RowsOf(work, op.id) = LogRows(op.id, h)
  BY <1>1 DEF TurnReady, Numbered
<1> HIDE DEF h, i
<1>3. i = Len(h) + 1 /\ Len(h) \in Nat /\ i \in 0 .. MaxTurns
  BY <1>1, <1>2, NextTurnIndexIs, ConstantsAssumption DEF i
<1>4. work = [conversations |-> work.conversations, turns |-> work.turns]
      /\ work.conversations \in [Ids -> Headers \cup {None}] /\ work.turns \in SUBSET Rows
  BY <1>1 DEF TurnReady, Numbered, Tables
<1>5. work' = [conversations |-> work.conversations,
               turns |-> work.turns \cup {Row(op.id, i, op.question)}]
  BY <1>1, <1>4
<1>6. work'.conversations = work.conversations
      /\ work'.turns = work.turns \cup {Row(op.id, i, op.question)}
  BY <1>5
<1>7. Row(op.id, i, op.question) \in Rows
  BY <1>1, <1>3 DEF Row, Rows
<1>8. work' \in Tables
  BY <1>4, <1>5, <1>7 DEF Tables
<1>9. /\ RowsOf(work', op.id) = LogRows(op.id, Append(h, op.question))
      /\ \A d : d # op.id => RowsOf(work', d) = RowsOf(work, d)
  <2>1. work'.turns = work.turns \cup {Row(op.id, Len(h) + 1, op.question)}
    BY <1>3, <1>6
  <2>2. op.question \in Questions /\ h \in Seq(Questions)
        /\ RowsOf(work, op.id) = LogRows(op.id, h)
    BY <1>1, <1>2
  <2> QED BY <2>1, <2>2, TurnAppends
<1>10. Append(h, op.question) \in Seq(Questions) /\ Append(h, op.question) # <<>>
  BY <1>1, <1>2
<1>11. History(work', op.id) = Append(h, op.question)
  BY <1>9, <1>10, HistoryIs
<1>12. \A c \in Ids : c # op.id => History(work', c) = History(work, c)
  BY <1>9, SameRows
<1>13. Numbered(work')
  BY <1>1, <1>6, <1>8, <1>9, <1>10, <1>11, <1>12 DEF Numbered, TurnReady
<1>14. Settled(work')
  BY <1>1, <1>6, <1>10, <1>11, <1>12 DEF Settled, TurnReady
<1>15. Live(work') = Live(work)
  BY <1>6 DEF Live
<1>16. CommitReady'
  BY <1>1, <1>11, <1>12, <1>13, <1>14, <1>15
     DEF CommitReady, TurnReady, Saveable, H, h, Saves, Deletes
<1>17. Typed' /\ OpFits' /\ WorkFits'
  BY <1>1, <1>16 DEF IInv, Typed, OpFits, WorkFits
<1>18. Reading' /\ ShownWhole' /\ SaveDurable'
  BY <1>1 DEF IInv, Reading, ShownWhole, SaveDurable
<1> QED BY <1>1, <1>17, <1>18 DEF IInv

LEMMA MarkDeletedKeeps ==
    ASSUME IInv, MarkDeleted
    PROVE  IInv'
<1> DEFINE gone == IF op.kind = "delete" THEN {op.id} ELSE Live(work)
           headers == [c \in Ids |-> IF c \in gone
                                     THEN [work.conversations[c] EXCEPT !.deleted = TRUE]
                                     ELSE work.conversations[c]]
<1>1. /\ pc = "header" /\ pc' = "commit" /\ UNCHANGED <<db, op, todo, out, reply>>
      /\ work = Migrated(db) /\ reply = "none"
      /\ op.kind \in Deletes /\ (op.kind = "delete" => op.id \in Live(work))
      /\ work' = [work EXCEPT !.conversations = headers]
  BY DEF MarkDeleted, IInv, WorkFits, OpFits, Deletes
<1>2. /\ Numbered(work) /\ Settled(work) /\ Live(work) = Live(db)
      /\ \A c \in Ids : History(work, c) = H(c)
  BY <1>1, MigratedDb DEF IInv, H
<1>3. gone \subseteq Live(work)
  BY <1>1
<1>4. work.conversations \in [Ids -> Headers \cup {None}]
  BY <1>2 DEF Numbered, Tables
<1>5. ASSUME NEW c \in gone
      PROVE  /\ headers[c] \in Headers /\ headers[c].deleted = TRUE
             /\ c \in Ids /\ work.conversations[c] # None
  <2>1. c \in Ids /\ work.conversations[c] # None
    BY <1>3 DEF Live
  <2>2. work.conversations[c] \in Headers
    BY <1>4, <2>1
  <2>3. headers[c] = [work.conversations[c] EXCEPT !.deleted = TRUE]
    BY <2>1
  <2> HIDE DEF headers
  <2> QED BY <2>1, <2>2, <2>3 DEF Headers
<1>6. \A c \in Ids \ gone : headers[c] = work.conversations[c]
  OBVIOUS
<1>7. headers \in [Ids -> Headers \cup {None}]
  <2>1. \A c \in Ids : headers[c] \in Headers \cup {None}
    BY <1>4, <1>5, <1>6
  <2>2. headers = [c \in Ids |-> headers[c]]
    OBVIOUS
  <2> HIDE DEF headers
  <2> QED BY <2>1, <2>2
<1> HIDE DEF headers
<1>8. \A c \in Ids : headers[c] = None => work.conversations[c] = None
  BY <1>5, <1>6, NoneIsNoHeader
<1>9. \A c \in Ids : headers[c] # None => work.conversations[c] # None
  BY <1>5, <1>6
<1>10. /\ Numbered(work') /\ work'.conversations = headers
       /\ \A c \in Ids : History(work', c) = History(work, c)
  BY <1>1, <1>2, <1>7, <1>8, HeadersChange
<1>11. Settled(work')
  BY <1>2, <1>9, <1>10 DEF Settled
<1>12. Live(work') = Live(work) \ gone
  BY <1>3, <1>5, <1>6, <1>10, NoneIsNoHeader DEF Live
<1>13. CommitReady'
  BY <1>1, <1>2, <1>10, <1>11, <1>12 DEF CommitReady, H, Saves, Deletes
<1>14. Typed' /\ OpFits' /\ WorkFits'
  BY <1>1, <1>13 DEF IInv, Typed, OpFits, WorkFits
<1>15. Reading' /\ ShownWhole' /\ SaveDurable'
  BY <1>1 DEF IInv, Reading, ShownWhole, SaveDurable
<1> QED BY <1>1, <1>14, <1>15 DEF IInv

-----------------------------------------------------------------------------
LEMMA CommitKeeps ==
    ASSUME IInv, Commit
    PROVE  IInv'
<1>1. /\ pc = "commit" /\ db' = work /\ UNCHANGED <<op, todo, out>>
      /\ Numbered(work) /\ Settled(work) /\ CommitReady
      /\ op.kind \in Saves \cup Deletes /\ out = <<>> /\ todo = {}
  BY DEF Commit, IInv, OpFits, WorkFits, CommitReady, Reading
<1>2. Numbered(db') /\ Migrated(db') = work
  BY <1>1, MigratedOnce
<1>3. CASE op.kind \in Saves
  <2>1. work' = Migrated(db') /\ pc' = "read" /\ reply' = "none"
    BY <1>3 DEF Commit
  <2>2. op.id \in Ids /\ op.question \in Questions
    BY <1>1, <1>3 DEF IInv, OpFits
  <2>3. History(db', op.id) = Append(H(op.id), op.question)
    BY <1>1, <1>3, <2>2 DEF CommitReady
  <2>4. H(op.id) \in Seq(Questions)
    BY <2>2, MigratedDb DEF IInv
  <2>5. EndsWith(Append(H(op.id), op.question), op.question)
    <3> DEFINE h == H(op.id)
    <3> HIDE DEF h
    <3>1. EndsWith(Append(h, op.question), op.question)
      BY <2>2, <2>4 DEF EndsWith, h
    <3> QED BY <3>1 DEF h
  <2>6. Typed' /\ OpFits' /\ WorkFits'
    BY <1>1, <1>3, <2>1 DEF IInv, Typed, OpFits, WorkFits
  <2>7. Reading' /\ ShownWhole' /\ SaveDurable'
    BY <1>1, <1>3, <2>1, <2>3, <2>5 DEF Reading, ShownWhole, SaveDurable, Saves
  <2> QED BY <1>1, <1>2, <2>6, <2>7 DEF IInv
<1>4. CASE op.kind \in Deletes
  <2>1. op.kind \notin Saves \cup Reads
    BY <1>4 DEF Saves, Reads, Deletes
  <2>2. work' = None /\ pc' = "idle" /\ reply' = "ok"
    BY <2>1 DEF Commit
  <2>3. Typed' /\ OpFits' /\ WorkFits'
    BY <1>1, <2>2 DEF IInv, Typed, OpFits, WorkFits
  <2>4. Reading' /\ ShownWhole' /\ SaveDurable'
    BY <1>1, <2>1, <2>2 DEF Reading, ShownWhole, SaveDurable
  <2> QED BY <1>1, <1>2, <2>3, <2>4 DEF IInv
<1> QED BY <1>1, <1>3, <1>4

\* A transaction that reads commits its migration, and nothing else.
LEMMA ReadCommits ==
    ASSUME IInv, pc \in {"read", "list"}, db' = work
    PROVE  /\ Numbered(db)' /\ Migrated(db)' = work /\ work = Migrated(db) /\ Settled(work)
           /\ Live(db)' = Live(db) /\ Live(work) = Live(db)
           /\ \A c \in Ids : /\ H(c)' = H(c) /\ History(work, c) = H(c)
                             /\ History(db, c) # <<>> => H(c) = History(db, c)
                             /\ c \in Live(db) => RowsOf(work, c) # {}
<1>1. work = Migrated(db)
  BY DEF IInv, WorkFits
<1>2. /\ Numbered(work) /\ Settled(work) /\ Migrated(work) = work /\ Live(work) = Live(db)
      /\ \A c \in Ids : History(work, c) = H(c)
      /\ \A c \in Ids : History(db, c) # <<>> => H(c) = History(db, c)
  BY <1>1, MigratedDb DEF IInv, H
<1>3. Migrated(db)' = work
  BY <1>2
<1>4. \A c \in Ids : H(c)' = H(c)
  BY <1>1, <1>2 DEF H
<1>5. ASSUME NEW c \in Ids, c \in Live(db) PROVE RowsOf(work, c) # {}
  <2>1. History(work, c) # <<>>
    BY <1>2, <1>5 DEF Settled, Live
  <2> QED BY <1>2, <2>1, EmptyLog DEF Numbered
<1> QED BY <1>1, <1>2, <1>3, <1>4, <1>5

LEMMA LiveIds == \A t : Live(t) \subseteq Ids
BY DEF Live

LEMMA ListKeeps ==
    ASSUME IInv, ListIds
    PROVE  IInv'
<1>1. /\ pc = "list" /\ db' = work /\ UNCHANGED op /\ reply = "none"
      /\ op.kind \in {"list", "exportAll"} /\ out = <<>> /\ todo = {}
  BY DEF ListIds, IInv, OpFits, Reading
<1>2. /\ Numbered(db)' /\ Migrated(db)' = work /\ Live(db)' = Live(db)
      /\ Live(work) = Live(db)
      /\ \A c \in Ids : H(c)' = H(c) /\ History(work, c) = H(c)
      /\ \A c \in Live(db) : RowsOf(work, c) # {}
  BY <1>1, ReadCommits, LiveIds
<1>3. DOMAIN out = {}
  BY <1>1
<1>4. CASE op.kind = "list"
  <2> DEFINE shown == {d \in Live(work) : RowsOf(work, d) # {}}
  <2>1. /\ out' = [c \in shown |-> History(work, c)] /\ UNCHANGED todo
        /\ work' = None /\ pc' = "idle" /\ reply' = "ok"
    BY <1>4 DEF ListIds
  <2>2. shown = Live(db)'
    BY <1>2
  <2> HIDE DEF shown
  <2>3. DOMAIN out' = Live(db)' /\ \A c \in DOMAIN out' : out'[c] = H(c)'
    BY <1>2, <2>1, <2>2, LiveIds
  <2>4. Typed' /\ OpFits' /\ WorkFits'
    BY <1>1, <2>1, <2>3, LiveIds DEF IInv, Typed, OpFits, WorkFits
  <2>5. ShownWhole'
    BY <2>3 DEF ShownWhole, H
  <2>6. Reading' /\ SaveDurable'
    BY <1>1, <1>4, <2>1 DEF Reading, SaveDurable, Saves
  <2> QED BY <1>2, <2>4, <2>5, <2>6 DEF IInv
<1>5. CASE op.kind = "exportAll"
  <2>1. /\ todo' = Live(work) /\ UNCHANGED out
        /\ \/ todo' = {} /\ work' = None /\ pc' = "idle" /\ reply' = "ok"
           \/ todo' # {} /\ UNCHANGED <<work, reply>> /\ pc' = "read"
    BY <1>5 DEF ListIds
  <2>2. Typed' /\ OpFits'
    BY <1>1, <1>5, <2>1, LiveIds DEF IInv, Typed, OpFits
  <2>3. WorkFits'
    BY <1>2, <2>1 DEF WorkFits
  <2>4. ShownWhole'
    BY <1>1, <1>2, <1>3, <2>1 DEF ShownWhole
  <2>5. Reading' /\ SaveDurable'
    BY <1>1, <1>2, <1>3, <1>5, <2>1 DEF Reading, SaveDurable, Saves
  <2> QED BY <1>2, <2>2, <2>3, <2>4, <2>5 DEF IInv
<1> QED BY <1>1, <1>4, <1>5

LEMMA ReadKeeps ==
    ASSUME IInv, NEW c \in Ids, Read(c)
    PROVE  IInv'
<1>1. /\ pc = "read" /\ db' = work /\ UNCHANGED op /\ reply = "none" /\ Asked(c)
      /\ op.kind \in Saves \cup {"get", "exportAll"}
  BY DEF Read, IInv, OpFits
<1>2. /\ Numbered(db)' /\ Migrated(db)' = work /\ Live(db)' = Live(db)
      /\ Live(work) = Live(db)
      /\ \A d \in Ids : /\ H(d)' = H(d) /\ History(work, d) = H(d)
                        /\ History(db, d) # <<>> => H(d) = History(db, d)
  BY <1>1, ReadCommits
<1>3. CASE NotFound
  <2>1. work' = None /\ pc' = "idle" /\ reply' = "failed" /\ UNCHANGED <<todo, out>>
    BY <1>3 DEF NotFound
  <2> QED BY <1>1, <1>2, <2>1
          DEF IInv, Typed, OpFits, WorkFits, Reading, ShownWhole, SaveDurable
<1>4. CASE c \in Live(work) /\ Found(c)
  <2>1. /\ todo' = todo \ {c}
        /\ out' = [d \in DOMAIN out \cup {c} |-> IF d = c THEN History(work, c) ELSE out[d]]
        /\ \/ todo' = {} /\ work' = None /\ pc' = "idle" /\ reply' = "ok"
           \/ todo' # {} /\ UNCHANGED <<work, pc, reply>>
    BY <1>4 DEF Found
  <2>2. DOMAIN out \subseteq Ids /\ todo \subseteq Ids
    BY DEF IInv, Typed
  <2>3. \A d \in DOMAIN out : out[d] = H(d) /\ d \in Live(db)
    <3>1. CASE op.kind = "exportAll"
      BY <1>1, <3>1 DEF IInv, Reading
    <3>2. CASE op.kind # "exportAll"
      <4>1. out = <<>>
        BY <1>1, <3>2 DEF IInv, Reading
      <4>2. DOMAIN out = {}
        BY <4>1
      <4> QED BY <4>2
    <3> QED BY <3>1, <3>2
  <2>4. DOMAIN out' = DOMAIN out \cup {c} /\ \A d \in DOMAIN out' : out'[d] = H(d)'
    BY <1>2, <2>1, <2>2, <2>3
  <2>5. DOMAIN out' \subseteq Live(db)'
    BY <1>2, <1>4, <2>3, <2>4
  <2>6. op.kind = "exportAll" => DOMAIN out' \cup todo' = Live(db)'
    BY <1>1, <1>2, <1>4, <2>1, <2>4 DEF IInv, Reading, Asked
  <2>7. op.kind # "exportAll" => todo' = {}
    BY <1>1, <2>1 DEF IInv, Reading
  <2>8. Typed' /\ OpFits'
    BY <1>1, <2>1, <2>2, <2>4 DEF IInv, Typed, OpFits
  <2>9. WorkFits'
    BY <1>1, <1>2, <2>1 DEF WorkFits
  <2>10. ShownWhole'
    BY <1>1, <2>1, <2>4, <2>5, <2>6 DEF ShownWhole, H, Saves
  <2>11. Reading'
    BY <1>1, <2>1, <2>4, <2>6, <2>7 DEF Reading, Saves
  <2>12. SaveDurable'
    <3> SUFFICES ASSUME op.kind \in Saves PROVE EndsWith(History(db', op.id), op.question)
      BY <1>1 DEF SaveDurable, EndsWith
    <3>1. EndsWith(History(db, op.id), op.question)
      BY <1>1 DEF IInv, Reading
    <3>2. op.id = c
      BY <1>1 DEF Asked, Saves
    <3>3. History(db', c) = History(db, c)
      BY <1>1, <1>2, <3>1, <3>2 DEF EndsWith
    <3> QED BY <3>1, <3>2, <3>3
  <2> QED BY <1>2, <2>8, <2>9, <2>10, <2>11, <2>12 DEF IInv
<1> QED BY <1>3, <1>4 DEF Read

LEMMA StutterKeeps ==
    ASSUME IInv, UNCHANGED vars
    PROVE  IInv'
<1>1. UNCHANGED <<db, work, pc, op, todo, out, reply>>
  BY DEF vars
<1>2. Numbered(db)' /\ Typed' /\ OpFits'
  BY <1>1 DEF IInv, Typed, OpFits, H
<1>3. WorkFits'
  BY <1>1 DEF IInv, WorkFits, HeaderReady, TurnReady, CommitReady, Saveable, H
<1>4. Reading' /\ ShownWhole' /\ SaveDurable'
  BY <1>1 DEF IInv, Reading, ShownWhole, SaveDurable, H
<1> QED BY <1>2, <1>3, <1>4 DEF IInv

LEMMA NextKeeps ==
    ASSUME IInv, [Next]_vars
    PROVE  IInv'
BY BeginsKeep, HeaderKeeps, TurnKeeps, MarkDeletedKeeps, CommitKeeps, ListKeeps, ReadKeeps,
   StopKeeps, StutterKeeps DEF Next

LEMMA Invariant == Spec => []IInv
<1>1. IInv /\ [Next]_vars => IInv'
  BY NextKeeps
<1> QED BY <1>1, InitHolds, PTL DEF Spec

-----------------------------------------------------------------------------
(***************************************************************************)
(* What the store guarantees.                                              *)
(***************************************************************************)
\* The tables and what is read of them stay what they are said to be: the
\* bound on the turns of a conversation is never exceeded.
THEOREM StoreIsTyped == Spec => []TypeOK
<1>1. IInv => TypeOK
  <2> SUFFICES ASSUME IInv PROVE TypeOK
    OBVIOUS
  <2>1. db \in Tables
    BY DEF IInv, Numbered
  <2>2. work \in Tables \cup {None}
    <3>1. pc \in {"header", "read", "list"} => work \in Tables
      BY MigratedDb DEF IInv, WorkFits, Numbered
    <3>2. pc \in {"turn", "commit"} => work \in Tables
      BY DEF IInv, WorkFits, TurnReady, CommitReady, Numbered
    <3> QED BY <3>1, <3>2 DEF IInv, Typed, OpFits
  <2> QED BY <2>1, <2>2 DEF IInv, Typed, OpFits, TypeOK
<1> QED BY <1>1, Invariant, PTL

\* What is listed, shown or exported is all of each conversation that is
\* there, and nothing of a deleted one (list_conversations, get_conversation,
\* export_conversations).
THEOREM ShownIsWhole == Spec => []ShownWhole
<1>1. IInv => ShownWhole
  BY DEF IInv
<1> QED BY <1>1, Invariant, PTL

\* A save that is reported as done is the last turn of its conversation.
THEOREM SaveIsDurable == Spec => []SaveDurable
<1>1. IInv => SaveDurable
  BY DEF IInv
<1> QED BY <1>1, Invariant, PTL

-----------------------------------------------------------------------------
(***************************************************************************)
(* The tables implement the logs.                                          *)
(***************************************************************************)
LogOf == [c \in Ids |-> History(Migrated(db), c)]

LEMMA LogInit == Init => Log!Init
<1> SUFFICES ASSUME Init PROVE Log!Init
  OBVIOUS
<1>1. Numbered(db) /\ \A c \in Ids : History(db, c) = <<>>
  BY EmptyTables DEF Init
<1>2. \A c \in Ids : History(Migrated(db), c) = MigratedHistory(db, c)
  BY <1>1, MigratedIs
<1>3. \A c \in Ids : db.conversations[c] \in Headers \cup {None}
  BY DEF Init
<1>4. ASSUME NEW c \in Ids
      PROVE  History(Migrated(db), c) \in {<<>>} \cup {<<q>> : q \in Questions}
  <2>1. db.conversations[c] # None => db.conversations[c].question \in Questions
    BY <1>3 DEF Headers
  <2> QED BY <1>1, <1>2, <2>1 DEF MigratedHistory, Legacy
<1>5. ASSUME NEW c \in Live(db) PROVE c \in Ids /\ History(Migrated(db), c) # <<>>
  BY <1>1, MigratedDb DEF Live, H
<1> QED BY <1>4, <1>5 DEF Log!Init

\* Only the commit of a saved or deleted answer changes the logs.
LEMMA LogStays ==
    ASSUME IInv, pc \in {"read", "list"}, db' = work
    PROVE  LogOf' = LogOf /\ Live(db)' = Live(db)
<1>1. Live(db)' = Live(db) /\ \A c \in Ids : H(c)' = H(c)
  BY ReadCommits
<1> QED BY <1>1 DEF LogOf, H

LEMMA LogCommits ==
    ASSUME IInv, Commit
    PROVE  Log!Next
<1>1. /\ pc = "commit" /\ db' = work /\ CommitReady /\ op.kind \in Saves \cup Deletes
  BY DEF Commit, IInv, OpFits, WorkFits
<1>2. Migrated(db') = work
  BY <1>1, MigratedOnce DEF CommitReady
<1>3. /\ LogOf \in [Ids -> Seq(Questions)] /\ \A c \in Ids : LogOf[c] = H(c)
      /\ LogOf' = [c \in Ids |-> History(work, c)]
      /\ Live(db)' = Live(work)
  BY <1>1, <1>2, MigratedDb DEF IInv, LogOf, H
<1>4. CASE op.kind \in Saves
  <2>1. op.id \in Ids /\ op.question \in Questions
    BY <1>1, <1>4 DEF IInv, OpFits
  <2>2. /\ Saveable /\ Live(work) = Live(db) \cup {op.id}
        /\ \A c \in Ids : History(work, c) =
              IF c = op.id THEN Append(H(c), op.question) ELSE H(c)
    BY <1>1, <1>4 DEF CommitReady
  <2>3. LogOf' = [LogOf EXCEPT ![op.id] = Append(@, op.question)]
    <3>1. LogOf' = [c \in Ids |-> IF c = op.id THEN Append(LogOf[c], op.question) ELSE LogOf[c]]
      BY <1>3, <2>2
    <3> QED BY <1>3, <2>1, <3>1
  <2>4. CASE op.kind = "create"
    <3>1. LogOf[op.id] = <<>>
      BY <1>3, <2>1, <2>2, <2>4 DEF Saveable
    <3>2. LogOf' = [LogOf EXCEPT ![op.id] = <<op.question>>]
      BY <2>3, <3>1
    <3>3. Log!Create(op.id, op.question)
      BY <1>3, <2>2, <3>1, <3>2 DEF Log!Create, LogOf
    <3> QED BY <2>1, <3>3 DEF Log!Next
  <2>5. CASE op.kind = "append"
    <3>1. op.id \in Live(db) /\ Live(work) = Live(db)
      BY <2>2, <2>5 DEF Saveable
    <3>2. Log!Append1(op.id, op.question)
      BY <1>3, <2>3, <3>1 DEF Log!Append1, LogOf
    <3> QED BY <2>1, <3>2 DEF Log!Next
  <2> QED BY <1>4, <2>4, <2>5 DEF Saves
<1>5. CASE op.kind \in Deletes
  <2>1. /\ \A c \in Ids : History(work, c) = H(c)
        /\ op.kind = "delete" => op.id \in Live(db) /\ Live(work) = Live(db) \ {op.id}
        /\ op.kind = "deleteAll" => Live(work) = {}
    BY <1>1, <1>5 DEF CommitReady
  <2>2. LogOf' = LogOf
    BY <1>3, <2>1 DEF LogOf, H
  <2>3. CASE op.kind = "delete"
    <3>1. Log!Delete({op.id})
      BY <1>3, <2>1, <2>2, <2>3 DEF Log!Delete, LogOf
    <3> QED BY <2>1, <2>3, <3>1, LiveIds DEF Log!Next
  <2>4. CASE op.kind = "deleteAll"
    <3>1. Log!Delete(Live(db))
      BY <1>3, <2>1, <2>2, <2>4 DEF Log!Delete, LogOf
    <3> QED BY <3>1 DEF Log!Next
  <2> QED BY <1>5, <2>3, <2>4 DEF Deletes
<1> QED BY <1>1, <1>4, <1>5

\* Whatever fails or dies between two statements, the store is a set of logs
\* that only grow, each until it is gone as a whole (conversation_store.py).
THEOREM StoreImplementsLog == Spec => LogSpec
<1>1. ASSUME IInv, [Next]_vars
      PROVE  Log!Next \/ UNCHANGED <<LogOf, Live(db)>>
  <2>1. CASE Commit
    BY <1>1, <2>1, LogCommits
  <2>2. CASE ListIds \/ \E c \in Ids : Read(c)
    <3>1. pc \in {"read", "list"} /\ db' = work
      BY <2>2 DEF ListIds, Read
    <3>2. LogOf' = LogOf /\ Live(db)' = Live(db)
      BY <1>1, <3>1, LogStays
    <3> QED BY <3>2
  <2>3. CASE \/ \E c \in Ids, q \in Questions : SaveAnswer(c, q)
             \/ \E c \in Ids : Delete(c) \/ Get(c)
             \/ DeleteAll \/ List \/ ExportAll
             \/ Header \/ Turn \/ MarkDeleted \/ Fail \/ Crash \/ UNCHANGED vars
    <3>1. db' = db
      BY <2>3 DEF SaveAnswer, Delete, Get, DeleteAll, List, ExportAll, Begin, Header, Turn,
         MarkDeleted, Fail, Crash, vars
    <3>2. LogOf' = LogOf /\ Live(db)' = Live(db)
      BY <3>1 DEF LogOf
    <3> QED BY <3>2
  <2> QED BY <1>1, <2>1, <2>2, <2>3 DEF Next
<1>2. IInv /\ [Next]_vars => [Log!Next]_<<LogOf, Live(db)>>
  BY <1>1
<1> QED BY <1>2, LogInit, Invariant, PTL DEF Spec, LogSpec, Log!Spec, LogOf
=============================================================================
