------------------------- MODULE ReleaseNetworkProofs -------------------------
(* What ReleaseNetwork keeps to, for any budget, limits and answers. *)
EXTENDS ReleaseNetwork, TLAPS

\* While a download is received, its part file is what has been read of the
\* asset that was approved; what is sound in all is sound in it.
Receiving ==
    /\ pc \in {"connect", "drain"} => got = 0
    /\ purpose = "artifact" /\ pc # "idle" =>
          /\ approved
          /\ pc \in {"loop", "read", "check"} =>
                /\ part # None /\ part.bytes = got
                /\ part.asset = asset /\ part.approved
                /\ sound => part.sound

IInv == TypeOK /\ Receiving /\ WholeOrNothing /\ BytesBounded

\* The smaller of two counts is one of them, and no greater than either.
LEMMA SoonerIs ==
    ASSUME NEW a \in Int, NEW b \in Int
    PROVE  Sooner(a, b) \in {a, b} /\ Sooner(a, b) <= a /\ Sooner(a, b) <= b
BY DEF Sooner

\* Time and counts stay within their bounds when they saturate.
LEMMA Saturates ==
    /\ Late \in Nat /\ TooMany \in Nat
    /\ \A n \in Nat : Sooner(n, Late) \in Times /\ Sooner(n, TooMany) \in Counts
BY ConstantsAssumption, SoonerIs DEF Late, TooMany, Times, Counts, Sooner

\* A read asks for no more than a chunk, and of metadata for no more than one
\* byte above the limit.
LEMMA WantedBounded ==
    ASSUME TypeOK
    PROVE  /\ Wanted \in Int /\ Wanted <= Chunk
           /\ purpose = "metadata" => Wanted <= TooMany - got
<1>1. Chunk \in Int /\ TooMany - got \in Int /\ (length # None => length - got \in Int)
  BY ConstantsAssumption DEF TypeOK, Counts, TooMany
<1> QED BY <1>1, SoonerIs DEF Wanted

LEMMA InitHolds == Init => IInv
<1> SUFFICES ASSUME Init PROVE IInv
  OBVIOUS
<1>1. TypeOK
  <2>1. asset \in Assets
    BY ConstantsAssumption DEF Init, Assets, Counts, TooMany
  <2>2. {0} \subseteq Counts /\ {0} \subseteq Times /\ {0} \subseteq 0 .. Chunk
    BY ConstantsAssumption DEF Counts, Times, TooMany, Late
  <2>3. 0 \in 0 .. MaxHops /\ 0 \in 0 .. 1
    BY ConstantsAssumption
  <2> QED BY <2>1, <2>2, <2>3 DEF Init, TypeOK, Hosts
<1>2. Receiving /\ WholeOrNothing /\ BytesBounded
  BY ConstantsAssumption DEF Init, Receiving, WholeOrNothing, BytesBounded
<1> QED BY <1>1, <1>2 DEF IInv

-----------------------------------------------------------------------------
(* One lemma per step of a request. *)

LEMMA StartKeeps ==
    ASSUME IInv, List \/ \E a \in Assets, ok \in BOOLEAN : Download(a, ok)
    PROVE  IInv'
<1>1. PICK p \in {"metadata", "artifact"}, a \in Assets, ok \in BOOLEAN : Start(p, a, ok)
  <2>1. [size |-> 1, digest |-> FALSE] \in Assets
    BY ConstantsAssumption DEF Assets, Counts, TooMany
  <2> QED BY <2>1 DEF List, Download
<1>2. TypeOK'
  BY <1>1, ConstantsAssumption
     DEF IInv, TypeOK, Start, Times, Late, Counts, TooMany, Hosts
<1>3. Receiving'
  BY <1>1 DEF IInv, Receiving, Start
<1>4. WholeOrNothing' /\ BytesBounded'
  BY <1>1, ConstantsAssumption DEF IInv, WholeOrNothing, BytesBounded, Start
<1> QED BY <1>2, <1>3, <1>4 DEF IInv

LEMMA PieceKeeps == ASSUME IInv, NEW d \in Times, Piece(d) PROVE IInv'
<1>1. elapsed' \in Times
  BY Saturates, ConstantsAssumption DEF IInv, TypeOK, Piece, Times, Late
<1>2. TypeOK'
  BY <1>1, ConstantsAssumption DEF IInv, TypeOK, Piece, place, watch, body
<1>3. Receiving' /\ WholeOrNothing' /\ BytesBounded'
  BY DEF IInv, Receiving, WholeOrNothing, BytesBounded, Piece, place, watch, body
<1> QED BY <1>2, <1>3 DEF IInv

LEMMA RedirectKeeps == ASSUME IInv, NEW h \in Hosts, Redirect(h) PROVE IInv'
<1>1. TypeOK'
  BY ConstantsAssumption
     DEF IInv, TypeOK, Redirect, place, link, watch, body, Raise, Arm, Remaining,
         MayFollow, Expired, Times, Late
<1>2. Receiving' /\ WholeOrNothing' /\ BytesBounded'
  BY DEF IInv, Receiving, WholeOrNothing, BytesBounded, Redirect, Raise,
         place, link, watch, body
<1> QED BY <1>1, <1>2 DEF IInv

LEMMA FollowKeeps == ASSUME IInv, Follow PROVE IInv'
<1>1. TypeOK'
  BY ConstantsAssumption
     DEF IInv, TypeOK, Follow, place, watch, body, Raise, Arm, Remaining,
         Expired, Times, Late
<1>2. Receiving' /\ WholeOrNothing' /\ BytesBounded'
  BY DEF IInv, Receiving, WholeOrNothing, BytesBounded, Follow, Raise,
         place, watch, body
<1> QED BY <1>1, <1>2 DEF IInv

\* A part file that is written is a file.
LEMMA WrittenTyped ==
    ASSUME TypeOK, NEW n \in Counts, NEW s \in BOOLEAN
    PROVE  /\ Written(n, s) \in Files /\ Written(n, s) # None
           /\ Written(n, s).bytes = n /\ Written(n, s).sound = s
           /\ Written(n, s).asset = asset /\ Written(n, s).approved = approved
BY ConstantsAssumption DEF TypeOK, Written, Files

LEMMA RespondKeeps ==
    ASSUME IInv, NEW n \in Counts \cup {None}, Respond(n)
    PROVE  IInv'
<1>1. 0 \in Counts
  BY ConstantsAssumption DEF Counts, TooMany
<1>2. TypeOK'
  BY <1>1, WrittenTyped DEF IInv, TypeOK, Respond, Raise, place, link, watch
<1>3. Receiving'
  <2>1. CASE pc' = "cleanup"
    BY <2>1 DEF IInv, Receiving, Respond, place
  <2>2. CASE /\ pc' = "loop"
             /\ part' = IF purpose = "artifact" THEN Written(0, TRUE) ELSE None
    BY <1>1, <2>2, WrittenTyped DEF IInv, Receiving, Respond, place
  <2> QED BY <2>1, <2>2 DEF Respond, Raise
<1>4. WholeOrNothing'
  BY DEF IInv, WholeOrNothing, Respond
<1>5. BytesBounded'
  <2>1. part' = part \/ part' = None \/ part' = Written(0, TRUE)
    <3>1. UNCHANGED part \/ part' = IF purpose = "artifact" THEN Written(0, TRUE) ELSE None
      <4>1. CASE n # None /\ (Over(n) \/ (purpose = "artifact" /\ n # asset.size))
        BY <4>1 DEF Respond
      <4>2. CASE ~(n # None /\ (Over(n) \/ (purpose = "artifact" /\ n # asset.size)))
        BY <4>2 DEF Respond
      <4> QED BY <4>1, <4>2
    <3> QED BY <3>1
  <2>2. Written(0, TRUE).bytes = 0
    BY DEF Written
  <2>3. part' # None => part'.bytes <= MaxBytes
    <3>1. CASE part' = part
      BY <3>1 DEF IInv, BytesBounded
    <3>2. CASE part' = Written(0, TRUE)
      <4>1. 0 <= MaxBytes
        BY ConstantsAssumption
      <4> QED BY <3>2, <4>1, <2>2
    <3> QED BY <2>1, <3>1, <3>2
  <2>4. UNCHANGED <<purpose, got, buffer>>
    BY DEF Respond, place
  <2> QED BY <2>3, <2>4 DEF IInv, BytesBounded
<1> QED BY <1>2, <1>3, <1>4, <1>5 DEF IInv

LEMMA ReadKeeps == ASSUME IInv, Read PROVE IInv'
<1>1. TypeOK'
  BY ConstantsAssumption
     DEF IInv, TypeOK, Read, Raise, Arm, Remaining, Expired, place, link, watch,
         Times, Late
<1>2. Receiving' /\ WholeOrNothing'
  BY DEF IInv, Receiving, WholeOrNothing, Read, Raise, place, link
<1>3. BytesBounded'
  BY ConstantsAssumption
     DEF IInv, TypeOK, BytesBounded, Read, Raise, place, link, Counts, TooMany
<1> QED BY <1>1, <1>2, <1>3 DEF IInv

LEMMA ReceiveKeeps ==
    ASSUME IInv, NEW d \in Times, NEW good \in BOOLEAN, Receive(d, good)
    PROVE  IInv'
<1>1. elapsed' \in Times
  BY Saturates, ConstantsAssumption DEF IInv, TypeOK, Receive, Times, Late
<1>2. buffer' \in 0 .. Chunk
  BY WantedBounded, ConstantsAssumption DEF IInv, TypeOK, Receive
<1>3. TypeOK'
  BY <1>1, <1>2 DEF IInv, TypeOK, Receive, place, link, watch
<1>4. Receiving' /\ WholeOrNothing'
  BY DEF IInv, TypeOK, Receiving, WholeOrNothing, Receive, place, link, watch
<1>5. BytesBounded'
  BY WantedBounded, ConstantsAssumption
     DEF IInv, TypeOK, BytesBounded, Receive, place, link, watch, Counts, TooMany
<1> QED BY <1>3, <1>4, <1>5 DEF IInv

LEMMA ReturnKeeps ==
    ASSUME IInv, NEW d \in Times, NEW last \in {0, 1}, NEW good \in BOOLEAN,
           Return(d, last, good)
    PROVE  IInv'
<1> DEFINE n == Sooner(got + buffer + last, TooMany)
<1>1. elapsed' \in Times
  BY Saturates, ConstantsAssumption DEF IInv, TypeOK, Return, Times, Late
<1>2. n \in Counts /\ n <= TooMany /\ got' = n /\ buffer' = 0
  <2>1. got + buffer + last \in Nat
    BY ConstantsAssumption DEF IInv, TypeOK, Counts, TooMany
  <2> QED BY <2>1, Saturates, SoonerIs DEF Return, Counts, TooMany
<1>3. sound' \in BOOLEAN /\ sound' = (sound /\ good)
  BY DEF IInv, TypeOK, Return
<1>4. \/ pc' = "cleanup" /\ reply' = "failed" /\ part' = part
      \/ /\ pc' = "check" /\ UNCHANGED <<reply, part>>
         /\ buffer + last = 0
      \/ /\ pc' = "loop" /\ UNCHANGED reply /\ ~Over(n)
         /\ part' = IF purpose = "artifact" THEN Written(n, sound') ELSE None
  BY DEF Return, Raise, Keep
<1>5. UNCHANGED <<purpose, asset, approved, host, hops, more, armed, limit, length, dest>>
      /\ pc = "read"
  BY DEF Return, place, link, watch
<1>6. TypeOK'
  BY <1>1, <1>2, <1>3, <1>4, <1>5, WrittenTyped, ConstantsAssumption DEF IInv, TypeOK
<1>7. Receiving'
  <2>1. CASE pc' = "check" /\ UNCHANGED <<reply, part>> /\ buffer + last = 0
    <3>1. got' = got
      BY <2>1, <1>2, ConstantsAssumption
         DEF IInv, TypeOK, Sooner, Counts, TooMany
    <3> QED BY <2>1, <3>1, <1>3, <1>5 DEF IInv, Receiving
  <2>2. CASE pc' = "loop" /\ part' = IF purpose = "artifact" THEN Written(n, sound') ELSE None
    BY <2>2, <1>2, <1>3, <1>5, WrittenTyped DEF IInv, Receiving
  <2>3. CASE pc' = "cleanup"
    BY <2>3, <1>5 DEF IInv, Receiving
  <2> QED BY <1>4, <2>1, <2>2, <2>3
<1>8. WholeOrNothing'
  BY <1>5 DEF IInv, WholeOrNothing
<1>9. BytesBounded'
  <2>1. part' # None => part'.bytes <= MaxBytes
    <3>1. part' \in {part, None} \/ (part' = Written(n, sound') /\ ~Over(n))
      BY <1>4
    <3>2. Written(n, sound').bytes = n
      BY DEF Written
    <3>3. ~Over(n) => n <= MaxBytes
      BY <1>2, ConstantsAssumption DEF Over, Counts, TooMany
    <3> HIDE DEF n
    <3> QED BY <3>1, <3>2, <3>3 DEF IInv, BytesBounded
  <2>2. got' + buffer' <= MaxBytes + 1
    BY <1>2, ConstantsAssumption DEF Counts, TooMany
  <2> QED BY <2>1, <2>2 DEF BytesBounded
<1> QED BY <1>6, <1>7, <1>8, <1>9 DEF IInv

LEMMA FinishKeeps == ASSUME IInv, Finish PROVE IInv'
<1>1. purpose = "artifact" =>
          /\ part \in Files /\ part.approved
          /\ part.bytes = part.asset.size /\ (part.asset.digest => part.sound)
  BY DEF IInv, TypeOK, Receiving, Finish, Whole
<1>2. TypeOK'
  BY <1>1 DEF IInv, TypeOK, Finish, place, link, watch, body
<1>3. WholeOrNothing'
  BY <1>1 DEF IInv, TypeOK, WholeOrNothing, Finish
<1>4. Receiving' /\ BytesBounded'
  BY DEF IInv, Receiving, BytesBounded, Finish, place, link, watch, body
<1> QED BY <1>2, <1>3, <1>4 DEF IInv

LEMMA FailKeeps == ASSUME IInv, Fail PROVE IInv'
<1>1. elapsed' \in Times
  BY Saturates, ConstantsAssumption DEF IInv, TypeOK, Fail, Times, Late
<1>2. TypeOK'
  BY <1>1 DEF IInv, TypeOK, Fail, Raise, place, link, watch, body
<1>3. Receiving' /\ WholeOrNothing' /\ BytesBounded'
  BY DEF IInv, Receiving, WholeOrNothing, BytesBounded, Fail, Raise, place, link,
         watch, body
<1> QED BY <1>2, <1>3 DEF IInv

LEMMA CleanupKeeps == ASSUME IInv, Cleanup PROVE IInv'
<1>1. TypeOK'
  BY DEF IInv, TypeOK, Cleanup, place, link, watch, body
<1>2. Receiving' /\ WholeOrNothing' /\ BytesBounded'
  BY DEF IInv, Receiving, WholeOrNothing, BytesBounded, Cleanup, place, link,
         watch, body
<1> QED BY <1>1, <1>2 DEF IInv

\* What others do to the file under the asset's name.
LEMMA OutsideKeeps == ASSUME IInv, Appear \/ TakeAway PROVE IInv'
<1>1. TypeOK'
  BY DEF IInv, TypeOK, Appear, TakeAway, place, link, watch, body
<1>2. Receiving' /\ WholeOrNothing' /\ BytesBounded'
  BY DEF IInv, Receiving, WholeOrNothing, BytesBounded, Appear, TakeAway, place,
         link, watch, body
<1> QED BY <1>1, <1>2 DEF IInv

LEMMA NextKeeps == IInv /\ [Next]_vars => IInv'
<1> SUFFICES ASSUME IInv, [Next]_vars PROVE IInv'
  OBVIOUS
<1>1. CASE List \/ \E a \in Assets, ok \in BOOLEAN : Download(a, ok)
  BY <1>1, StartKeeps
<1>2. CASE Progress
  BY <1>2, PieceKeeps, RedirectKeeps, FollowKeeps, RespondKeeps, ReadKeeps,
     ReceiveKeeps, ReturnKeeps, FinishKeeps, FailKeeps, CleanupKeeps DEF Progress
<1>3. CASE Appear \/ TakeAway
  BY <1>3, OutsideKeeps
<1>4. CASE UNCHANGED vars
  BY <1>4 DEF vars, place, link, watch, body, IInv, TypeOK, Receiving,
              WholeOrNothing, BytesBounded
<1> QED BY <1>1, <1>2, <1>3, <1>4 DEF Next

LEMMA Invariant == Spec => []IInv
BY InitHolds, NextKeeps, PTL DEF Spec

-----------------------------------------------------------------------------
(* The theorems. *)

\* Under an approved asset's name there is the whole asset or nothing of it:
\* the part file is linked only when all of it has been read and checked
\* (download_artifact).
THEOREM DownloadsAreWhole == Spec => []WholeOrNothing
BY Invariant, PTL DEF IInv

\* However long the body of an answer is, no more than the limit is written
\* and no more than a byte above it kept of a listing (_read_bounded and the
\* loop of download_artifact).
THEOREM BytesAreBounded == Spec => []BytesBounded
BY Invariant, PTL DEF IInv

\* No step of the client replaces a file (os.link of download_artifact).
THEOREM NothingOverwritten == Spec => NoOverwrite
<1>1. [Next]_vars => [dest # None => dest' \in {dest, None}]_dest
  BY DEF Next, vars, List, Download, Start, Progress, Piece, Redirect, Follow, Respond,
         Read, Receive, Return, Finish, Fail, Cleanup, Appear, TakeAway
<1> QED BY <1>1, PTL DEF Spec, NoOverwrite
=============================================================================
