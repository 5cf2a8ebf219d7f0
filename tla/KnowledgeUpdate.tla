--------------------------- MODULE KnowledgeUpdate ---------------------------
(***************************************************************************)
(* The knowledge update controller (knowledge_update_controller.py) and    *)
(* the update records it keeps on disk (knowledge_release.py): checking    *)
(* for a newer release, downloading the approved one, dismissing it and    *)
(* installing it in the background.                                        *)
(*                                                                         *)
(* Three threads work on the records: the request thread, which serves one *)
(* request at a time ("ui"), the automatic-check worker ("auto") and the   *)
(* install worker ("job").  The record lock and the "running" installation *)
(* state are what keeps them apart.                                        *)
(*                                                                         *)
(* Activation runs under the release lock and is one step here, with what  *)
(* it can leave on disk when it is interrupted; so is the recovery that    *)
(* every load of the active record begins with.  ReleaseActivation takes   *)
(* both apart, file operation by file operation.                           *)
(***************************************************************************)
EXTENDS Naturals

CONSTANTS
    Releases,  \* knowledge release ids, as their versions
    Bundled,   \* the release a fresh installation starts with
    None

ASSUME ConstantsAssumption ==
    /\ Releases \subseteq Nat
    /\ Bundled \in Releases
    /\ None \notin Releases

VARIABLES
    github,      \* is there a GitHub client, or only the local catalogue?
    \* On disk
    active,      \* the release the active record names
    transaction, \* an interrupted activation yet to be undone: the prior record
                 \*   is active and backed up ("open"), or its backup has
                 \*   been used up ("restored")
    available,   \* available GitHub update record
    pending,     \* pending update record
    prepared,    \* directories of verified GitHub releases: their condition
    \* In memory
    lock,        \* holder of _record_lock
    ui, auto, job, \* the threads' next steps
    target,      \* the release whose files a thread works on
    choice,      \* what a check has selected, per thread
    checking,    \* _automatic_check_state: running,
    checkStatus, \*   status,
    throttled,   \*   last_attempt within the interval
    install,     \* _installation_state
    lost         \* history: has an active record ever been lost?

record == <<active, transaction, lost>>
disk == <<record, available, pending, prepared>>
check == <<checking, checkStatus, throttled>>
vars == <<github, record, available, pending, prepared, lock, ui, auto, job,
          target, choice, check, install>>

Maybe == Releases \cup {None}
CheckSteps == {"ensure", "bundled", "load", "list", "save"}
UiSteps == CheckSteps \cup {"idle", "serve", "download", "place", "savePending",
                            "dropAvailable", "unlink", "rmtree",
                            "dismissAvailable"}
AutoSteps == CheckSteps \cup {"off", "start", "completed", "failed", "deferred"}
JobSteps == {"off", "verify", "stage", "activated", "confirmed", "unlink", "rmtree",
             "done", "failed"}
Transactions == {"none", "open", "restored"}
InstallStates == {"none", "running", "completed", "failed"}

TypeOK ==
    /\ github \in BOOLEAN
    /\ active \in Maybe /\ available \in Maybe /\ pending \in Maybe
    /\ transaction \in Transactions
    /\ lost \in BOOLEAN
    /\ prepared \in [Releases -> {"absent", "whole", "partial"}]
    /\ lock \in {"free", "ui", "auto", "job"}
    /\ ui \in UiSteps /\ auto \in AutoSteps /\ job \in JobSteps
    /\ target \in [{"ui", "job"} -> Maybe]
    /\ choice \in [{"ui", "auto"} -> Maybe]
    /\ checking \in BOOLEAN /\ throttled \in BOOLEAN
    /\ checkStatus \in {"none", "running", "completed", "failed", "deferred"}
    /\ install \in [state : InstallStates, release : Maybe, previous : Maybe,
                    active : Maybe, rolledBack : BOOLEAN]

NoInstall == [state |-> "none", release |-> None, previous |-> None,
              active |-> None, rolledBack |-> FALSE]

NoTarget == [a \in {"ui", "job"} |-> None]
NoChoice == [a \in {"ui", "auto"} |-> None]

Init ==
    /\ github \in BOOLEAN
    /\ active = None /\ available = None /\ pending = None
    /\ transaction = "none" /\ lost = FALSE
    /\ prepared = [r \in Releases |-> "absent"]
    /\ lock = "free"
    /\ ui = "idle" /\ auto = "off" /\ job = "off"
    /\ target = NoTarget /\ choice = NoChoice
    /\ checking = FALSE /\ checkStatus = "none" /\ throttled = FALSE
    /\ install = NoInstall

Installing == install.state = "running"

-----------------------------------------------------------------------------
(* The active record.                                                       *)

\* What a load returns: it recovers first, and an activation that did not commit
\* and has no backup has the active record deleted.
Loadable == IF transaction = "restored" THEN None ELSE active

Loses == lost' = (lost \/ (active # None /\ active' = None))

\* _recover_interrupted_activation, which every load of the record begins with.
Recovers ==
    /\ active' = Loadable
    /\ transaction' = "none"
    /\ Loses

\* Recovery, interrupted itself when it has put the record back and the
\* transaction file is still there.
HalfRecovers ==
    /\ transaction = "open" /\ transaction' = "restored"
    /\ UNCHANGED <<active, lost>>

Activates(r) ==
    /\ active' = r
    /\ transaction' = "none"
    /\ UNCHANGED lost

\* What an activation of r leaves that is interrupted: before it touched the
\* record, rolled back, or committed, which recovery only tidies up; with a
\* prior record also what recovery is to undo, before the rollback or after a
\* second interruption, between the rollback and its cleanup.
Leaves(r) ==
    /\ \/ UNCHANGED <<active, transaction>>
       \/ active' \in {active, r} /\ transaction' = "none"
       \/ active # None /\ UNCHANGED active /\ transaction' \in {"open", "restored"}
    /\ UNCHANGED lost

\* An exception at step: in a load, in the installation of the bundled release,
\* or elsewhere.
LoadSteps == {"idle", "serve", "ensure", "bundled", "list", "download", "verify", "activated"}
FailsAt(step) ==
    \/ UNCHANGED record
    \/ step \in LoadSteps /\ (Recovers \/ HalfRecovers)
    \/ step \in {"serve", "bundled"} /\ Leaves(Bundled)

\* Serving a page loads the record.  When none is found,
\* ensure_minimal_knowledge_release installs the bundled release; the page
\* holds no record lock meanwhile.
ServeRequest ==
    /\ ui = "idle"
    /\ Recovers
    /\ ui' \in IF Loadable = None THEN {"idle", "serve"} ELSE {"idle"}
    /\ UNCHANGED <<github, available, pending, prepared, lock, auto, job,
                   target, choice, check, install>>

\* The bundled release is activated, unless it already is active.
ServeInstallsBundled ==
    /\ ui = "serve" /\ ui' = "idle"
    /\ \/ Activates(Bundled)
       \/ Loadable = Bundled /\ Recovers
    /\ UNCHANGED <<github, available, pending, prepared, lock, auto, job,
                   target, choice, check, install>>

ServeFails ==
    /\ ui \in {"idle", "serve"} /\ ui' = "idle"
    /\ FailsAt(ui)
    /\ UNCHANGED <<github, available, pending, prepared, lock, auto, job,
                   target, choice, check, install>>

-----------------------------------------------------------------------------
(* Taking and giving back the record lock on the request thread.  A request *)
(* that finds the lock taken, or an installation running, is refused.       *)

UiEnters(step) ==
    /\ ui = "idle"
    /\ lock = "free"
    /\ ~Installing
    /\ lock' = "ui"
    /\ ui' = step

UiLeaves ==
    /\ lock' = "free"
    /\ ui' = "idle"
    /\ target' = [target EXCEPT !["ui"] = None]

\* An exception on the request thread is reported and the lock released.
UiFails(steps) ==
    /\ ui \in steps
    /\ UiLeaves
    /\ choice' = [choice EXCEPT !["ui"] = None]
    /\ UNCHANGED <<github, auto, job, check, install>>

-----------------------------------------------------------------------------
(* manual_check and the automatic check: _check_github_update_metadata. *)

ManualCheck ==
    /\ UiEnters("ensure")
    /\ UNCHANGED <<github, disk, auto, job, target, choice, check, install>>

\* request_automatic_check: the answer to a request while a check runs, or
\* within the interval, starts nothing.
RequestAutomaticCheck ==
    /\ github
    /\ ui = "idle"
    /\ ~checking /\ ~throttled
    /\ checking' = TRUE
    /\ throttled' = TRUE
    /\ checkStatus' = "running"
    /\ auto' = "start"
    /\ UNCHANGED <<github, disk, lock, ui, job, target, choice, install>>

\* The throttle's interval runs out.
IntervalElapses ==
    /\ throttled
    /\ throttled' = FALSE
    /\ UNCHANGED <<github, disk, lock, ui, auto, job, target, choice,
                   checking, checkStatus, install>>

\* Mutant: the worker does not defer to an installation.
EnterWithoutDeferring ==
    /\ auto = "start" /\ auto' = "ensure"
    /\ lock = "free" /\ lock' = "auto"
    /\ UNCHANGED <<github, disk, ui, job, target, choice, check, install>>

\* The worker waits for the record lock, and defers to an installation.
AutomaticCheckEnters ==
    /\ auto = "start"
    /\ lock = "free"
    /\ \/ Installing /\ auto' = "deferred" /\ UNCHANGED lock
       \/ ~Installing /\ auto' = "ensure" /\ lock' = "auto"
    /\ UNCHANGED <<github, disk, ui, job, target, choice, check, install>>

\* Thread a, one of the two that check, is at step from and goes on to step to.
Goes(a, from, to) ==
    \/ a = "ui" /\ ui = from /\ ui' = to /\ UNCHANGED <<auto, lock>>
    \/ a = "auto" /\ auto = from /\ auto' = to /\ UNCHANGED <<ui, lock>>

Finishes(a, from) ==
    /\ lock' = "free"
    /\ \/ a = "ui" /\ ui = from /\ ui' = "idle" /\ UNCHANGED auto
       \/ a = "auto" /\ auto = from /\ auto' = "completed" /\ UNCHANGED ui

CheckEnsuresRelease(a) ==
    /\ Goes(a, "ensure", IF Loadable = None THEN "bundled"
                         ELSE IF github THEN "load" ELSE "list")
    /\ Recovers
    /\ UNCHANGED <<github, available, pending, prepared, job, target, choice,
                   check, install>>

CheckInstallsBundled(a) ==
    /\ Goes(a, "bundled", IF github THEN "load" ELSE "list")
    /\ \/ Activates(Bundled)
       \/ Loadable = Bundled /\ Recovers
    /\ UNCHANGED <<github, available, pending, prepared, job, target, choice,
                   check, install>>

\* A prepared GitHub release ends the check: it only clears what is available.
CheckLoadsPending(a) ==
    /\ \/ /\ pending # None
          /\ Finishes(a, "load")
          /\ available' = None
       \/ /\ pending = None
          /\ Goes(a, "load", "list")
          /\ UNCHANGED available
    /\ UNCHANGED <<github, record, pending, prepared, job, target, choice,
                   check, install>>

\* Mutant: any other release counts as newer.
Different(offered) == {r \in offered : r # active}

\* select_github_knowledge_update, discover_knowledge_update: of the releases
\* that GitHub, or the catalogue, offers when it is asked, the newest that is
\* newer than the active one.
Newer(offered) == {r \in offered : r > active}
Newest(offered) == {r \in Newer(offered) : \A s \in Newer(offered) : r >= s}

CheckSelects(a) ==
    /\ Goes(a, "list", "save")
    /\ Loadable # None /\ Recovers
    /\ \E offered \in SUBSET Releases :
          \E r \in IF Newer(offered) = {} THEN {None} ELSE Newest(offered) :
             choice' = [choice EXCEPT ![a] = r]
    /\ UNCHANGED <<github, available, pending, prepared, job, target, check,
                   install>>

\* save_available_github_knowledge_update, save_pending_knowledge_update.
CheckSaves(a) ==
    /\ Finishes(a, "save")
    /\ IF github
       THEN available' = choice[a] /\ UNCHANGED pending
       ELSE pending' = choice[a] /\ UNCHANGED available
    /\ choice' = [choice EXCEPT ![a] = None]
    /\ UNCHANGED <<github, record, prepared, job, target, check, install>>

\* The network, the release list, the disk or a missing record fails a check.
ManualCheckFails ==
    /\ UiFails(CheckSteps)
    /\ FailsAt(ui)
    /\ UNCHANGED <<available, pending, prepared>>

AutomaticCheckFails ==
    /\ auto \in CheckSteps
    /\ auto' = "failed"
    /\ lock' = "free"
    /\ choice' = [choice EXCEPT !["auto"] = None]
    /\ FailsAt(auto)
    /\ UNCHANGED <<github, available, pending, prepared, ui, job, target, check,
                   install>>

\* Mutant: a deferred check returns without reporting.
EndUnlessDeferred ==
    /\ auto \in {"completed", "failed"}
    /\ checking' = FALSE
    /\ checkStatus' = auto
    /\ auto' = "off"
    /\ UNCHANGED <<github, disk, lock, ui, job, target, choice, throttled, install>>

\* The last block of _run_automatic_metadata_check.
AutomaticCheckEnds ==
    /\ auto \in {"completed", "failed", "deferred"}
    /\ checking' = FALSE
    /\ checkStatus' = auto
    /\ auto' = "off"
    /\ UNCHANGED <<github, disk, lock, ui, job, target, choice, throttled, install>>

-----------------------------------------------------------------------------
(* approve_download: prepare_github_knowledge_update. *)

\* The approval must name the available release, and no directory of an
\* earlier preparation may be left.
ApproveDownload(r) ==
    /\ github
    /\ UiEnters("download")
    /\ available = r
    /\ prepared[r] = "absent"
    /\ target' = [target EXCEPT !["ui"] = r]
    /\ UNCHANGED <<github, disk, auto, job, choice, check, install>>

\* Downloaded, unpacked and verified in a work directory, and compared with the
\* active release.
Downloads ==
    /\ ui = "download" /\ ui' = "place"
    /\ Loadable # None /\ Recovers
    /\ UNCHANGED <<github, available, pending, prepared, lock, auto, job, target,
                   choice, check, install>>

PlacesPrepared ==
    /\ ui = "place" /\ ui' = "savePending"
    /\ prepared' = [prepared EXCEPT ![target["ui"]] = "whole"]
    /\ UNCHANGED <<github, record, available, pending, lock, auto, job, target,
                   choice, check, install>>

SavesPending ==
    /\ ui = "savePending" /\ ui' = "dropAvailable"
    /\ pending' = target["ui"]
    /\ UNCHANGED <<github, record, available, prepared, lock, auto, job, target,
                   choice, check, install>>

DropsAvailable ==
    /\ ui = "dropAvailable"
    /\ UiLeaves
    /\ available' = None
    /\ UNCHANGED <<github, record, pending, prepared, auto, job, choice, check,
                   install>>

DownloadFails ==
    /\ UiFails({"download", "place", "savePending", "dropAvailable"})
    /\ FailsAt(ui)
    /\ UNCHANGED <<available, pending, prepared>>

-----------------------------------------------------------------------------
(* dismiss_pending_knowledge_update, on the thread a that holds the lock:   *)
(* the record first, then the directory of the release it named.            *)

\* Mutant: the record outlives its directory.
KeepsPending(a) ==
    /\ target' = [target EXCEPT ![a] = pending]
    /\ UNCHANGED <<github, disk, choice, check, install>>

UnlinksPending(a) ==
    /\ pending' = None
    /\ target' = [target EXCEPT ![a] = pending]
    /\ UNCHANGED <<github, record, available, prepared, choice, check, install>>

\* Only a record of a GitHub release has a directory.
HasDirectory == github /\ pending # None

RemovesPrepared(a) ==
    /\ prepared' = [prepared EXCEPT ![target[a]] = "absent"]
    /\ UNCHANGED <<github, record, available, pending, choice, check, install>>

\* A removal that stops half way leaves a directory that still exists.
HalfRemovesPrepared(a) ==
    /\ prepared' \in {prepared, [prepared EXCEPT ![target[a]] =
                        IF prepared[target[a]] = "absent" THEN "absent" ELSE "partial"]}
    /\ UNCHANGED <<available, pending>>

Dismiss ==
    /\ UiEnters("unlink")
    /\ UNCHANGED <<github, disk, auto, job, target, choice, check, install>>

DismissUnlinksPending ==
    /\ ui = "unlink"
    /\ ui' = IF HasDirectory THEN "rmtree" ELSE "dismissAvailable"
    /\ UnlinksPending("ui")
    /\ UNCHANGED <<lock, auto, job>>

DismissRemovesPrepared ==
    /\ ui = "rmtree" /\ ui' = "dismissAvailable"
    /\ RemovesPrepared("ui")
    /\ UNCHANGED <<lock, auto, job, target>>

DismissDropsAvailable ==
    /\ ui = "dismissAvailable"
    /\ UiLeaves
    /\ available' = None
    /\ UNCHANGED <<github, record, pending, prepared, auto, job, choice, check,
                   install>>

DismissFails ==
    \/ UiFails({"unlink", "dismissAvailable"}) /\ UNCHANGED disk
    \/ UiFails({"rmtree"}) /\ HalfRemovesPrepared("ui") /\ UNCHANGED record

-----------------------------------------------------------------------------
(* start_install and the install worker. *)

\* active_release_id: the id of the active release, or none if recovery raises.
ReadsActive(id) ==
    \/ id = Loadable /\ Recovers
    \/ id = None /\ HalfRecovers

\* Mutant: any approved release will do while one is pending.
StartInstallOfAny(r) ==
    /\ ui = "idle" /\ lock = "free" /\ ~Installing
    /\ pending # None
    /\ \E previous \in Maybe :
          /\ ReadsActive(previous)
          /\ install' = [state |-> "running", release |-> r, previous |-> previous,
                         active |-> previous, rolledBack |-> FALSE]
    /\ job' = "verify"
    /\ UNCHANGED <<github, available, pending, prepared, lock, ui, auto, target,
                   choice, check>>

\* The release asked for must be the pending one.  The record lock is given
\* back at once: from here the running state protects the records.
StartInstall(r) ==
    /\ ui = "idle" /\ lock = "free" /\ ~Installing
    /\ pending = r
    /\ \E previous \in Maybe :
          /\ ReadsActive(previous)
          /\ install' = [state |-> "running", release |-> r, previous |-> previous,
                         active |-> previous, rolledBack |-> FALSE]
    /\ job' = "verify"
    /\ UNCHANGED <<github, available, pending, prepared, lock, ui, auto, target,
                   choice, check>>

\* The release is verified, and staged unless it is already active.
JobVerifies ==
    /\ job = "verify"
    /\ github => prepared[install.release] = "whole"
    /\ Recovers
    /\ job' \in IF Loadable = install.release THEN {"stage", "activated"} ELSE {"stage"}
    /\ UNCHANGED <<github, available, pending, prepared, lock, ui, auto, target,
                   choice, check, install>>

JobActivates ==
    /\ job = "stage" /\ job' = "activated"
    /\ Activates(install.release)
    /\ UNCHANGED <<github, available, pending, prepared, lock, ui, auto, target,
                   choice, check, install>>

\* The worker reads that the active release is the approved one.
JobConfirms ==
    /\ job = "activated" /\ job' = "confirmed"
    /\ Loadable = install.release /\ Recovers
    /\ UNCHANGED <<github, available, pending, prepared, lock, ui, auto, target,
                   choice, check, install>>

\* It waits for the record lock.
JobLocksRecords ==
    /\ job = "confirmed"
    /\ lock = "free"
    /\ lock' = "job" /\ job' = "unlink"
    /\ UNCHANGED <<github, disk, ui, auto, target, choice, check, install>>

JobUnlinksPending ==
    /\ job = "unlink"
    /\ UnlinksPending("job")
    /\ IF HasDirectory THEN job' = "rmtree" /\ UNCHANGED lock
                       ELSE job' = "done" /\ lock' = "free"
    /\ UNCHANGED <<ui, auto>>

JobRemovesPrepared ==
    /\ job = "rmtree" /\ job' = "done"
    /\ lock' = "free"
    /\ RemovesPrepared("job")
    /\ UNCHANGED <<ui, auto, target>>

\* An exception anywhere in _perform_installation_work, also after the
\* activation has taken effect.
JobFails ==
    /\ job' = "failed"
    /\ \/ /\ job \in {"verify", "stage", "activated"}
          /\ \/ FailsAt(job)
             \/ job = "stage" /\ Leaves(install.release)
          /\ UNCHANGED <<available, pending, prepared, lock>>
       \/ job = "unlink" /\ lock' = "free" /\ UNCHANGED disk
       \/ /\ job = "rmtree" /\ lock' = "free"
          /\ HalfRemovesPrepared("job") /\ UNCHANGED record
    /\ UNCHANGED <<github, ui, auto, target, choice, check, install>>

\* Mutant: the worker that fails dies without recording it.
EndOnlyWhenDone ==
    /\ job = "done"
    /\ install' = [install EXCEPT !.state = "completed", !.active = install.release]
    /\ job' = "off"
    /\ target' = [target EXCEPT !["job"] = None]
    /\ UNCHANGED <<github, disk, lock, ui, auto, choice, check>>

\* Mutant: a failed installation is recorded as completed.
EndAsCompleted ==
    /\ job \in {"done", "failed"}
    /\ install' = [install EXCEPT !.state = "completed", !.active = install.release]
    /\ job' = "off"
    /\ target' = [target EXCEPT !["job"] = None]
    /\ UNCHANGED <<github, disk, lock, ui, auto, choice, check>>

JobEnds ==
    /\ \/ /\ job = "done"
          /\ install' = [install EXCEPT !.state = "completed",
                                        !.active = install.release]
          /\ UNCHANGED record
       \/ /\ job = "failed"
          /\ \E now \in Maybe :
                /\ ReadsActive(now)
                /\ install' = [install EXCEPT !.state = "failed", !.active = now,
                                              !.rolledBack = (now = install.previous)]
    /\ job' = "off"
    /\ target' = [target EXCEPT !["job"] = None]
    /\ UNCHANGED <<github, available, pending, prepared, lock, ui, auto, choice,
                   check>>

-----------------------------------------------------------------------------

\* The process dies at any point; what is on disk stays, a removal, an
\* activation or a recovery half done.
Crash ==
    /\ \/ UNCHANGED <<available, pending, prepared>>
       \/ ui = "rmtree" /\ HalfRemovesPrepared("ui")
       \/ job = "rmtree" /\ HalfRemovesPrepared("job")
    /\ \/ UNCHANGED record \/ HalfRecovers
       \/ ui = "serve" /\ Leaves(Bundled)
       \/ "bundled" \in {ui, auto} /\ Leaves(Bundled)
       \/ job = "stage" /\ Leaves(install.release)
    /\ lock' = "free"
    /\ ui' = "idle" /\ auto' = "off" /\ job' = "off"
    /\ target' = NoTarget /\ choice' = NoChoice
    /\ checking' = FALSE /\ checkStatus' = "none" /\ throttled' = FALSE
    /\ install' = NoInstall
    /\ UNCHANGED github

UiStep ==
    \/ ServeInstallsBundled \/ CheckInstallsBundled("ui")
    \/ CheckEnsuresRelease("ui") \/ CheckLoadsPending("ui") \/ CheckSelects("ui")
    \/ CheckSaves("ui") \/ ManualCheckFails
    \/ Downloads \/ PlacesPrepared \/ SavesPending \/ DropsAvailable \/ DownloadFails
    \/ DismissUnlinksPending \/ DismissRemovesPrepared \/ DismissDropsAvailable
    \/ DismissFails

AutoStep ==
    \/ CheckInstallsBundled("auto")
    \/ CheckEnsuresRelease("auto") \/ CheckLoadsPending("auto")
    \/ CheckSelects("auto") \/ CheckSaves("auto") \/ AutomaticCheckFails
    \/ AutomaticCheckEnds

JobStep ==
    \/ JobVerifies \/ JobActivates \/ JobConfirms \/ JobUnlinksPending \/ JobRemovesPrepared
    \/ JobFails \/ JobEnds

Next ==
    \/ IntervalElapses \/ ServeRequest \/ ServeFails
    \/ ManualCheck \/ RequestAutomaticCheck \/ Dismiss
    \/ \E r \in Releases : ApproveDownload(r) \/ StartInstall(r)
    \/ AutomaticCheckEnters \/ JobLocksRecords
    \/ UiStep \/ AutoStep \/ JobStep
    \/ Crash

Spec == Init /\ [][Next]_vars

\* Threads run, and what they do on this machine ends.  A request to GitHub
\* need not end (ReleaseNetwork), so nothing is assumed of the steps that wait
\* for one.  The workers block on the record lock, which other holders take only
\* on a user's request or once per throttle interval.
Fairness ==
    /\ WF_vars(UiStep /\ (github => ui \notin {"list", "download"}))
    /\ WF_vars(AutoStep /\ auto # "list")
    /\ WF_vars(JobStep)
    /\ SF_vars(AutomaticCheckEnters)
    /\ SF_vars(JobLocksRecords)

FairSpec == Spec /\ Fairness

-----------------------------------------------------------------------------
(* Properties *)

\* The update records have one writer at a time, and none but the install
\* worker while an installation runs: each thread that works on them holds the
\* record lock, and the running state shuts the others out between the moment
\* start_install gives the lock back and the worker's last dismissal.
OneRecordWriter ==
    /\ ui \notin {"idle", "serve"} => lock = "ui"
    /\ auto \in CheckSteps => lock = "auto"
    /\ job \in {"unlink", "rmtree"} => lock = "job"
    /\ lock \in {"ui", "auto"} => ~Installing
    /\ job # "off" <=> Installing

\* What the worker installs is what the user reviewed: until it dismisses the
\* record itself, the pending record names the release being installed.
InstallsWhatIsPending ==
    job \in {"verify", "stage", "activated", "confirmed", "unlink"} =>
       pending = install.release

\* A pending GitHub release can be installed, after any failure, crash or
\* restart: its verified directory is there and whole.
PendingIsPrepared ==
    github /\ pending # None => prepared[pending] = "whole"

\* No sequence of checks, downloads, dismissals, installs and crashes takes the
\* active release back to an older one, but for this: an activation that is
\* interrupted, and interrupted again in its rollback or its recovery, has its
\* active record deleted by the next load, and a page that once found none
\* installs the bundled release, over whatever is active by then
\* (ensure_minimal_knowledge_release).
NoDowngrade ==
    [][active # None => \/ active' # None /\ active' >= active
                        \/ active' = None /\ transaction = "restored"
                        \/ active' = Bundled /\ ui = "serve" /\ lost]_vars

\* The status page reports completion of a release only while it is active, or
\* after the active record has been lost once: the bundled release may then
\* have replaced it, or its replacement been interrupted.
CompletedIsActive ==
    install.state = "completed" =>
       \/ active = install.release
       \/ lost /\ active \in {Bundled, None}

\* A background installation comes to an end, whatever else is going on.
InstallEnds == []<>~Installing

\* So does an automatic check, which waits for the record lock, unless GitHub's
\* answer to it, or to the request that holds the lock, never ends.
AutomaticCheckSettles ==
    []<>~checking \/ <>[](auto = "list" \/ ui \in {"list", "download"})

\* knowledge_release.py: "already prepared; dismiss it before retrying".  When
\* a dismissal has dealt with the pending record, no directory is left that
\* would refuse the next download.
DismissAllowsRetry ==
    ui = "dismissAvailable" => \A r \in Releases : prepared[r] = "absent"

\* docs/architecture.md: "A failed install leaves the prior knowledge release
\* active."
FailedInstallKeepsPrior ==
    install.state = "failed" => active = install.previous

\* docs/architecture.md: "leaves the prior usable pair active and queryable."
NeverOlder == [][{active, active'} \subseteq Releases => active' >= active]_vars
=============================================================================
