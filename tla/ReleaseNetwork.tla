---------------------------- MODULE ReleaseNetwork ----------------------------
(***************************************************************************)
(* The GitHub release client (github_release_client.py): one request at a  *)
(* time, either the listing of published releases ("metadata") or the      *)
(* download of one approved asset ("artifact").                            *)
(*                                                                         *)
(* One budget of time and one of bytes span the connection, its redirects  *)
(* and the reads.  The client looks at the clock and at the bytes between  *)
(* the operations of urllib: a connection with the headers of its answer,  *)
(* the body of a redirect, which urllib reads to its end, and a read of    *)
(* the answer's body.  Within one there is only the socket's time limit of *)
(* each receive, and how many receives it takes is up to the server.  A    *)
(* download is written to a private part file and linked to its name when  *)
(* it is whole.                                                            *)
(*                                                                         *)
(* Time and bytes saturate one above their budgets: nothing compares them  *)
(* with anything higher.                                                   *)
(***************************************************************************)
EXTENDS Integers

CONSTANTS
    Budget,   \* request_timeout_seconds
    MaxBytes, \* max_metadata_bytes, max_artifact_bytes
    Chunk,    \* READ_CHUNK_BYTES
    MaxHops,  \* max_redirections
    None,
    Other     \* a file of somebody else

Late == Budget + 1
TooMany == MaxBytes + 1
Times == 0 .. Late
Counts == 0 .. TooMany
Sooner(a, b) == IF a < b THEN a ELSE b

Hosts == {"api", "github", "assets", "elsewhere"}
Assets == [size : Counts \ {0}, digest : BOOLEAN]
\* A file: how much of the body, is it that of the asset, and which asset.
Files == [bytes : Counts, sound : BOOLEAN, asset : Assets, approved : BOOLEAN]

ASSUME ConstantsAssumption ==
    /\ Budget \in Nat \ {0} /\ MaxBytes \in Nat \ {0} /\ Chunk \in Nat \ {0}
    /\ MaxHops \in Nat
    /\ None \notin Int /\ None \notin Files /\ Other \notin Files \cup {None}

VARIABLES
    pc,       \* next step of the request
    purpose,
    asset,    \* metadata of the asset to download
    approved, \* does the approval name its tag, id and file name?
    host,     \* connected to
    hops,     \* redirects followed
    more,     \* alternates with each receive that does not end its operation
    elapsed,  \* since the request started
    armed,    \* when the operation in progress was given its time limit
    limit,    \* that time limit, of each receive
    length,   \* Content-Length
    buffer,   \* bytes received by the read in progress
    got,      \* bytes read
    sound,    \* are they the asset's?
    part,     \* the part file
    dest,     \* the file under the asset's name
    reply     \* how the last request ended

place == <<purpose, asset, approved>>
link == <<host, hops, more>>
watch == <<armed, limit>>
body == <<length, buffer, got, sound>>
vars == <<pc, place, link, elapsed, watch, body, part, dest, reply>>

TypeOK ==
    /\ pc \in {"idle", "connect", "drain", "loop", "read", "check", "cleanup"}
    /\ purpose \in {"metadata", "artifact"}
    /\ asset \in Assets /\ approved \in BOOLEAN
    /\ host \in Hosts /\ hops \in 0 .. MaxHops /\ more \in 0 .. 1
    /\ elapsed \in Times /\ armed \in Times /\ limit \in Times
    /\ length \in Counts \cup {None} /\ buffer \in 0 .. Chunk
    /\ got \in Counts /\ sound \in BOOLEAN
    /\ part \in Files \cup {None} /\ dest \in Files \cup {None, Other}
    /\ reply \in {"none", "ok", "failed"}

Init ==
    /\ pc = "idle" /\ purpose = "metadata"
    /\ asset = [size |-> 1, digest |-> FALSE] /\ approved = FALSE
    /\ host = "api" /\ hops = 0 /\ more = 0
    /\ elapsed = 0 /\ armed = 0 /\ limit = 0
    /\ length = None /\ buffer = 0 /\ got = 0 /\ sound = TRUE
    /\ part = None /\ dest \in {None, Other} /\ reply = "none"

-----------------------------------------------------------------------------

\* _require_allowed_url
Allowed(p, h) == IF p = "metadata" THEN h = "api" ELSE h \in {"github", "assets"}

Remaining == Budget - elapsed

\* A blocking operation gets what is left of the budget (_remaining_timeout,
\* _remaining_deadline_timeout, _set_response_socket_timeout).
Arm == armed' = elapsed /\ limit' = Remaining

\* Mutant: the limit is the one of the length announced.
OverAnnounced(n) == length # None /\ n > MaxBytes

Over(n) == n > MaxBytes

\* _require_within_elapsed_budget
Expired(t) == t >= Budget

MayFollow == hops < MaxHops

\* The file the part file would become.
Written(n, s) == [bytes |-> n, sound |-> s, asset |-> asset, approved |-> approved]

\* An exception, on its way through the finally clause.
Raise ==
    /\ pc' = "cleanup"
    /\ reply' = "failed"

\* A request starts: only an approved asset of a bounded size that is not
\* there yet is asked for.
Start(p, a, ok) ==
    /\ pc = "idle"
    /\ purpose' = p /\ asset' = a /\ approved' = ok
    /\ host' = IF p = "metadata" THEN "api" ELSE "github"
    /\ hops' = 0 /\ more' = 0 /\ elapsed' = 0
    /\ armed' = 0 /\ limit' = Budget
    /\ length' = None /\ buffer' = 0 /\ got' = 0 /\ sound' = TRUE
    /\ part' = None
    /\ IF p = "artifact" /\ (~ok \/ Over(a.size) \/ dest # None)
       THEN pc' = "idle" /\ reply' = "failed"
       ELSE pc' = "connect" /\ reply' = "none"
    /\ UNCHANGED dest

List == Start("metadata", [size |-> 1, digest |-> FALSE], FALSE)
Download(a, ok) == Start("artifact", a, ok)

\* A receive that does not end its operation, within its limit: of the
\* headers, where a server may send interim answers first, of a redirect's
\* body, or of what frames the body of the answer.
Piece(d) ==
    /\ pc \in {"connect", "drain", "read"}
    /\ d \in 0 .. limit
    /\ more' = 1 - more
    /\ elapsed' = Sooner(elapsed + d, Late)
    /\ UNCHANGED <<pc, place, host, hops, watch, body, part, dest, reply>>

\* redirect_request: an allowed host, with what is left of the budget for each
\* receive of the redirect's own body, which http_error_302 reads first.
Redirect(h) ==
    /\ pc = "connect"
    /\ IF MayFollow /\ Allowed(purpose, h) /\ ~Expired(elapsed)
       THEN /\ host' = h /\ hops' = hops + 1 /\ more' = 0
            /\ pc' = "drain"
            /\ Arm
            /\ UNCHANGED reply
       ELSE Raise /\ UNCHANGED <<link, watch>>
    /\ UNCHANGED <<place, elapsed, body, part, dest>>

\* https_request: that body has ended, and there is time left to connect.
Follow ==
    /\ pc = "drain"
    /\ IF ~Expired(elapsed)
       THEN pc' = "connect" /\ more' = 0 /\ Arm /\ UNCHANGED reply
       ELSE Raise /\ UNCHANGED <<more, watch>>
    /\ UNCHANGED <<place, host, hops, elapsed, body, part, dest>>

\* The headers are there: status, final URL and announced length.
Respond(n) ==
    /\ pc = "connect"
    /\ length' = n
    /\ IF n # None /\ (Over(n) \/ (purpose = "artifact" /\ n # asset.size))
       THEN Raise /\ UNCHANGED part
       ELSE /\ pc' = "loop" /\ UNCHANGED reply
            /\ part' = IF purpose = "artifact" THEN Written(0, TRUE) ELSE None
    /\ UNCHANGED <<place, link, elapsed, watch, buffer, got, sound, dest>>

\* Another read, or the end of the announced body.
Read ==
    /\ pc = "loop"
    /\ IF length # None /\ got >= length
       THEN pc' = "check" /\ UNCHANGED <<reply, watch, buffer>>
       ELSE IF Expired(elapsed) THEN Raise /\ UNCHANGED <<watch, buffer>>
       ELSE pc' = "read" /\ buffer' = 0 /\ Arm /\ UNCHANGED reply
    /\ UNCHANGED <<place, link, elapsed, length, got, sound, part, dest>>

\* What a read can return: of metadata, never more than one byte too many, and
\* nothing after the announced end.
Wanted ==
    LET asked == IF purpose = "metadata" THEN Sooner(Chunk, TooMany - got) ELSE Chunk
    IN IF length = None THEN asked ELSE Sooner(asked, length - got)

\* A read goes on until it has all it wants.
Receive(d, good) ==
    /\ pc = "read"
    /\ buffer + 1 < Wanted
    /\ d \in 0 .. limit
    /\ elapsed' = Sooner(elapsed + d, Late)
    /\ buffer' = buffer + 1
    /\ sound' = (sound /\ good)
    /\ UNCHANGED <<pc, place, link, watch, length, got, part, dest, reply>>

\* Mutant: the bytes are written, then counted.
KeepUnchecked(n) ==
    /\ part' = IF purpose = "artifact" THEN Written(n, sound') ELSE None
    /\ IF Over(n) THEN Raise ELSE pc' = "loop" /\ UNCHANGED reply

\* The bytes of a read are counted, then written.
Keep(n) ==
    IF Over(n)
    THEN Raise /\ UNCHANGED part
    ELSE /\ pc' = "loop" /\ UNCHANGED reply
         /\ part' = IF purpose = "artifact" THEN Written(n, sound') ELSE None

\* A read returns: with its last byte, or at the end of the body.
Return(d, last, good) ==
    /\ pc = "read"
    /\ d \in 0 .. limit
    /\ elapsed' = Sooner(elapsed + d, Late)
    /\ sound' = (sound /\ good)
    /\ LET n == Sooner(got + buffer + last, TooMany) IN
       /\ got' = n
       /\ IF Expired(elapsed') THEN Raise /\ UNCHANGED part
          ELSE IF buffer + last = 0 THEN pc' = "check" /\ UNCHANGED <<reply, part>>
          ELSE Keep(n)
    /\ buffer' = 0
    /\ UNCHANGED <<place, link, watch, length, dest>>

\* Mutant: an announced length stands for the size.
WholeAsAnnounced ==
    IF purpose = "metadata" THEN length = None \/ got = length
    ELSE (length # None \/ got = asset.size) /\ (asset.digest => sound)

\* Is the body what the metadata said?
Whole ==
    IF purpose = "metadata" THEN length = None \/ got = length
    ELSE got = asset.size /\ (asset.digest => sound)

\* Mutant: the part file is renamed.
Rename ==
    /\ pc = "check" /\ Whole
    /\ dest' = IF purpose = "artifact" THEN part ELSE dest
    /\ reply' = "ok" /\ pc' = "cleanup"
    /\ UNCHANGED <<place, link, elapsed, watch, body, part>>

\* os.link gives the whole file its name, unless there is one; metadata is parsed.
Finish ==
    /\ pc = "check" /\ Whole
    /\ IF purpose = "metadata" THEN UNCHANGED dest /\ reply' = "ok"
       ELSE IF dest = None THEN dest' = part /\ reply' = "ok"
       ELSE UNCHANGED dest /\ reply' = "failed"
    /\ pc' = "cleanup"
    /\ UNCHANGED <<place, link, elapsed, watch, body, part>>

\* A receive times out or fails, a file operation fails, the status or the
\* metadata is not what it should be, or the body is not whole.
Fail ==
    /\ pc \in {"connect", "drain", "read", "check"}
    /\ Raise
    /\ elapsed' \in {elapsed} \cup
                    (IF pc = "check" THEN {} ELSE {Sooner(elapsed + limit, Late)})
    /\ UNCHANGED <<place, link, watch, body, part, dest>>

\* The finally clause.
Cleanup ==
    /\ pc = "cleanup" /\ pc' = "idle"
    /\ part' = None
    /\ UNCHANGED <<place, link, elapsed, watch, body, dest, reply>>

\* Somebody else's file appears under the name, or the file is taken away.
Appear == dest = None /\ dest' = Other /\ UNCHANGED
              <<pc, place, link, elapsed, watch, body, part, reply>>
TakeAway == pc = "idle" /\ dest # None /\ dest' = None /\ UNCHANGED
              <<pc, place, link, elapsed, watch, body, part, reply>>

Progress ==
    \/ \E d \in Times : Piece(d)
    \/ \E h \in Hosts : Redirect(h)
    \/ Follow
    \/ \E n \in Counts \cup {None} : Respond(n)
    \/ Read
    \/ \E d \in Times, good \in BOOLEAN : Receive(d, good)
    \/ \E d \in Times, last \in {0, 1}, good \in BOOLEAN : Return(d, last, good)
    \/ Finish
    \/ Fail
    \/ Cleanup

Next ==
    \/ List
    \/ \E a \in Assets, ok \in BOOLEAN : Download(a, ok)
    \/ Progress
    \/ Appear
    \/ TakeAway

\* The request runs on a thread, and each receive ends by its limit.  Nothing
\* obliges a server to come to the end of what it sends.
Spec == Init /\ [][Next]_vars /\ WF_vars(Progress)

-----------------------------------------------------------------------------
(* Properties *)

\* The file under an asset's name is the whole asset, approved, with the digest
\* that the metadata gave (download_artifact), whatever failed before.
WholeOrNothing ==
    dest \notin {None, Other} =>
        /\ dest.approved
        /\ dest.bytes = dest.asset.size
        /\ dest.asset.digest => dest.sound

\* A file under that name is never replaced (docs/architecture.md:99,
\* no-overwrite atomic local writes).
NoOverwrite == [][dest # None => dest' \in {dest, None}]_dest

\* Of the body of an answer no more than the limit is written, and no more
\* than one read beyond it kept in memory, whatever length the server
\* announces.  (What urllib reads of a redirect's body is not counted.)
BytesBounded ==
    /\ part # None => part.bytes <= MaxBytes
    /\ purpose = "metadata" => got + buffer <= MaxBytes + 1

\* The client itself brings every request to an end, even on a body without an
\* announced length that never ends and whose pieces arrive in no time, and on
\* redirects without end: a request that never ends stays for ever in a single
\* operation of urllib, whose receives the server keeps from ending it.
EndsUnlessHeld ==
    \/ []<>(pc = "idle")
    \/ <>[](pc = "connect") \/ <>[](pc = "drain") \/ <>[](pc = "read")

\* docs/architecture.md:99: "one total deadline covers connection, redirect, and
\* response-read work".
DeadlineCovers == elapsed <= Budget

\* The same promise: after its deadline, a request ends.
RequestEnds == pc # "idle" ~> pc = "idle"
=============================================================================
