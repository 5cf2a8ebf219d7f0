------------------------ MODULE KnowledgeUpdateProofs ------------------------
(* What KnowledgeUpdate guarantees for any set of releases, whatever is      *)
(* offered and however activations are interrupted.                         *)
EXTENDS KnowledgeUpdate, Integers, TLAPS

(***************************************************************************)
(* The invariant.                                                          *)
(***************************************************************************)
\* A record on disk names a release at least as new as the bundled and the
\* active one; two records, which a crash between two writes leave, name the
\* same.  There is none before a first release is active.
Records ==
    /\ active # None => Bundled <= active
    /\ \A r \in {available, pending} :
          r # None => Bundled <= r /\ (active # None => active <= r)
    /\ available # None /\ pending # None => available = pending
    /\ ~github => available = None
    /\ active = None /\ ~lost => available = None /\ pending = None

\* A check by thread a, at step, will save only what the records allow.
Checks(a, step) ==
    /\ step \in {"load", "list", "save"} => active # None \/ lost
    /\ github /\ step \in {"list", "save"} => pending = None
    /\ step = "save" /\ choice[a] # None =>
          Bundled <= choice[a] /\ (active # None => active <= choice[a])

\* The bundled release is installed where none is active, or after a loss.
Bundling ==
    /\ auto # "off" => github
    /\ ui = "serve" /\ ~lost => active \in {None, Bundled} /\ pending = None
    /\ "bundled" \in {ui, auto} => active \in {None, Bundled}

Downloading ==
    /\ ui \in {"download", "place", "savePending"} =>
          available \in Releases /\ target["ui"] = available
    /\ ui = "savePending" => prepared[target["ui"]] = "whole"

\* A directory is removed only when no record names it any more.
Removing == ui = "rmtree" \/ job = "rmtree" => github /\ pending = None

Installed ==
    /\ install.state # "none" => install.release \in Releases
    /\ job \in {"confirmed", "unlink", "rmtree", "done"} =>
          active = install.release \/ (lost /\ active \in {Bundled, None})

IInv ==
    /\ TypeOK
    /\ OneRecordWriter
    /\ InstallsWhatIsPending /\ CompletedIsActive /\ Installed
    /\ PendingIsPrepared /\ Removing
    /\ Records /\ Bundling
    /\ Checks("ui", ui) /\ Checks("auto", auto)
    /\ Downloading

\* The parts of TypeOK.
RecordTyped == active \in Maybe /\ transaction \in Transactions /\ lost \in BOOLEAN
DiskTyped == github \in BOOLEAN /\ available \in Maybe /\ pending \in Maybe
DirectoriesTyped == prepared \in [Releases -> {"absent", "whole", "partial"}]
ThreadsTyped ==
    /\ lock \in {"free", "ui", "auto", "job"}
    /\ ui \in UiSteps /\ auto \in AutoSteps /\ job \in JobSteps
WorkTyped ==
    /\ target \in [{"ui", "job"} -> Maybe]
    /\ choice \in [{"ui", "auto"} -> Maybe]
StatusTyped ==
    /\ checking \in BOOLEAN /\ throttled \in BOOLEAN
    /\ checkStatus \in {"none", "running", "completed", "failed", "deferred"}
InstallTyped ==
    install \in [state : InstallStates, release : Maybe, previous : Maybe,
                 active : Maybe, rolledBack : BOOLEAN]

LEMMA TypeParts ==
    /\ TypeOK <=> /\ RecordTyped /\ DiskTyped /\ DirectoriesTyped /\ ThreadsTyped
                  /\ WorkTyped /\ StatusTyped /\ InstallTyped
    /\ TypeOK' <=> /\ RecordTyped' /\ DiskTyped' /\ DirectoriesTyped' /\ ThreadsTyped'
                   /\ WorkTyped' /\ StatusTyped' /\ InstallTyped'
BY DEF TypeOK, RecordTyped, DiskTyped, DirectoriesTyped, ThreadsTyped, WorkTyped,
       StatusTyped, InstallTyped

-----------------------------------------------------------------------------
(* What a step does to the active record.                                   *)

RecordMoves ==
    /\ RecordTyped'
    /\ \/ active' = active /\ lost' = lost
       \/ active' = None /\ lost' /\ transaction = "restored"
       \/ /\ active' = Bundled /\ lost' = lost
          /\ active \in {None, Bundled} \/ (ui = "serve" /\ lost)
       \/ active' = install.release /\ lost' = lost /\ job = "stage"

LEMMA LoadMoves ==
    ASSUME TypeOK, UNCHANGED record \/ Recovers \/ HalfRecovers
    PROVE  RecordMoves
<1>1. CASE UNCHANGED record
  BY <1>1 DEF record, RecordMoves, RecordTyped, TypeOK
<1>2. CASE Recovers
  BY <1>2 DEF Recovers, Loadable, Loses, RecordMoves, RecordTyped, TypeOK, Maybe,
     Transactions
<1>3. CASE HalfRecovers
  BY <1>3 DEF HalfRecovers, RecordMoves, RecordTyped, TypeOK, Transactions
<1> QED BY <1>1, <1>2, <1>3

LEMMA BundledMoves ==
    ASSUME IInv, ui = "serve" \/ "bundled" \in {ui, auto},
           Activates(Bundled) \/ Leaves(Bundled)
    PROVE  RecordMoves
<1>1. active \in {None, Bundled} \/ (ui = "serve" /\ lost)
  BY DEF IInv, Bundling
<1>2. RecordTyped'
  BY ConstantsAssumption DEF IInv, TypeOK, Activates, Leaves, RecordTyped, Maybe, Transactions
<1>3. active' \in {active, Bundled} /\ lost' = lost
  BY DEF Activates, Leaves
<1> QED BY <1>1, <1>2, <1>3 DEF RecordMoves

LEMMA JobMoves ==
    ASSUME IInv, job = "stage", Activates(install.release) \/ Leaves(install.release)
    PROVE  RecordMoves
<1>1. install.release \in Maybe
  BY DEF IInv, TypeOK
<1>2. RecordTyped'
  BY <1>1 DEF IInv, TypeOK, Activates, Leaves, RecordTyped, Maybe, Transactions
<1>3. active' \in {active, install.release} /\ lost' = lost
  BY DEF Activates, Leaves
<1> QED BY <1>2, <1>3 DEF RecordMoves

LEMMA FailureMoves ==
    ASSUME IInv, NEW step \in {ui, auto, job}, FailsAt(step)
    PROVE  RecordMoves
<1>1. CASE UNCHANGED record \/ Recovers \/ HalfRecovers
  BY <1>1, LoadMoves DEF IInv
<1>2. CASE step \in {"serve", "bundled"} /\ Leaves(Bundled)
  <2>1. ui = "serve" \/ "bundled" \in {ui, auto}
    BY <1>2 DEF IInv, TypeOK, AutoSteps, JobSteps, CheckSteps
  <2> QED BY <1>2, <2>1, BundledMoves
<1> QED BY <1>1, <1>2 DEF FailsAt

LEMMA StepMoves == IInv /\ [Next]_vars => RecordMoves
<1> SUFFICES ASSUME IInv, [Next]_vars PROVE RecordMoves
  OBVIOUS
<1>1. CASE UNCHANGED record \/ Recovers \/ HalfRecovers
  BY <1>1, LoadMoves DEF IInv
<1>2. CASE ServeInstallsBundled \/ CheckInstallsBundled("ui") \/ CheckInstallsBundled("auto")
  <2>1. CASE Loadable = Bundled /\ Recovers
    BY <1>1, <2>1
  <2>2. CASE Activates(Bundled)
    BY <1>2, <2>2, BundledMoves DEF ServeInstallsBundled, CheckInstallsBundled, Goes
  <2> QED BY <1>2, <2>1, <2>2 DEF ServeInstallsBundled, CheckInstallsBundled
<1>3. CASE ServeFails \/ ManualCheckFails \/ DownloadFails \/ AutomaticCheckFails
  <2>1. FailsAt(ui) \/ FailsAt(auto)
    BY <1>3 DEF ServeFails, ManualCheckFails, DownloadFails, AutomaticCheckFails
  <2> QED BY <2>1, FailureMoves
<1>4. CASE JobActivates
  BY <1>4, JobMoves DEF JobActivates
<1>5. CASE JobFails
  <2>1. CASE job = "stage" /\ Leaves(install.release)
    BY <2>1, JobMoves
  <2>2. CASE FailsAt(job)
    BY <2>2, FailureMoves
  <2> QED BY <1>1, <1>5, <2>1, <2>2 DEF JobFails, disk
<1>6. CASE Crash
  <2>1. CASE ui = "serve" \/ "bundled" \in {ui, auto}
    BY <1>1, <1>6, <2>1, BundledMoves, JobMoves DEF Crash
  <2>2. CASE ~(ui = "serve" \/ "bundled" \in {ui, auto})
    BY <1>1, <1>6, <2>2, JobMoves DEF Crash
  <2> QED BY <2>1, <2>2
<1>7. CASE \/ ServeRequest \/ \E r \in Releases : StartInstall(r)
           \/ CheckEnsuresRelease("ui") \/ CheckEnsuresRelease("auto")
           \/ CheckSelects("ui") \/ CheckSelects("auto") \/ Downloads
           \/ JobVerifies \/ JobConfirms \/ JobEnds
  BY <1>1, <1>7 DEF ServeRequest, StartInstall, ReadsActive, CheckEnsuresRelease,
     CheckSelects, Downloads, JobVerifies, JobConfirms, JobEnds
<1>8. CASE \/ IntervalElapses \/ ManualCheck \/ RequestAutomaticCheck \/ Dismiss
           \/ \E r \in Releases : ApproveDownload(r)
           \/ AutomaticCheckEnters \/ JobLocksRecords
           \/ CheckLoadsPending("ui") \/ CheckLoadsPending("auto")
           \/ CheckSaves("ui") \/ CheckSaves("auto") \/ AutomaticCheckEnds
  BY <1>1, <1>8 DEF IntervalElapses, ManualCheck, RequestAutomaticCheck, Dismiss,
     ApproveDownload, AutomaticCheckEnters, JobLocksRecords, CheckLoadsPending, CheckSaves,
     AutomaticCheckEnds, disk
<1>9. CASE \/ PlacesPrepared \/ SavesPending \/ DropsAvailable
           \/ DismissUnlinksPending \/ DismissRemovesPrepared \/ DismissDropsAvailable
           \/ DismissFails \/ JobUnlinksPending \/ JobRemovesPrepared \/ UNCHANGED vars
  BY <1>1, <1>9 DEF PlacesPrepared, SavesPending, DropsAvailable, DismissUnlinksPending,
     DismissRemovesPrepared, DismissDropsAvailable, DismissFails, UnlinksPending,
     RemovesPrepared, JobUnlinksPending, JobRemovesPrepared, vars, disk
<1> QED BY <1>2, <1>3, <1>4, <1>5, <1>6, <1>7, <1>8, <1>9 DEF Next, UiStep, AutoStep, JobStep

-----------------------------------------------------------------------------
(* The steps.                                                               *)

LEMMA InitHolds == Init => IInv
<1> SUFFICES ASSUME Init PROVE IInv
  OBVIOUS
<1> USE ConstantsAssumption DEF Init
<1>1. TypeOK
  BY DEF TypeOK, Maybe, NoTarget, NoChoice, NoInstall, UiSteps, AutoSteps, JobSteps,
         CheckSteps, InstallStates, Transactions
<1>2. OneRecordWriter /\ InstallsWhatIsPending /\ CompletedIsActive /\ Installed
  BY DEF OneRecordWriter, InstallsWhatIsPending, CompletedIsActive, Installed,
         NoInstall, Installing, CheckSteps
<1>3. PendingIsPrepared /\ Removing /\ Records /\ Bundling
  BY DEF PendingIsPrepared, Removing, Records, Bundling
<1>4. Checks("ui", ui) /\ Checks("auto", auto) /\ Downloading
  BY DEF Checks, Downloading
<1> QED BY <1>1, <1>2, <1>3, <1>4 DEF IInv

\* What serving a page does beside the record.
LEMMA ServeKeeps ==
    ASSUME IInv, RecordMoves, 
           \/ ServeRequest
           \/ ServeInstallsBundled
           \/ ServeFails
    PROVE  IInv'
<1> USE DEF IInv, disk, check, ServeRequest, ServeInstallsBundled, ServeFails,
        Recovers, Loadable
<1>1. TypeOK'
  <2>1. RecordTyped'
    BY DEF RecordMoves
  <2>2. DiskTyped'
    BY ConstantsAssumption DEF TypeOK, DiskTyped, Downloading, Maybe
  <2>3. DirectoriesTyped'
    BY ConstantsAssumption DEF TypeOK, DirectoriesTyped, Maybe
  <2>4. ThreadsTyped'
    BY DEF TypeOK, ThreadsTyped, UiSteps, AutoSteps, JobSteps, CheckSteps
  <2>5. WorkTyped'
    BY ConstantsAssumption DEF TypeOK, WorkTyped, Maybe
  <2>6. StatusTyped'
    BY DEF TypeOK, StatusTyped, AutoSteps
  <2>7. InstallTyped'
    BY ConstantsAssumption DEF TypeOK, InstallTyped, Maybe, InstallStates
  <2> QED BY <2>1, <2>2, <2>3, <2>4, <2>5, <2>6, <2>7, TypeParts
<1>2. OneRecordWriter' /\ InstallsWhatIsPending'
  BY DEF OneRecordWriter, InstallsWhatIsPending, Installing, CheckSteps, TypeOK
<1>3. CompletedIsActive' /\ Installed'
  BY ConstantsAssumption DEF RecordMoves, CompletedIsActive, Installed,
     InstallsWhatIsPending, OneRecordWriter, Bundling, Installing, TypeOK
<1>4. PendingIsPrepared' /\ Removing'
  BY DEF PendingIsPrepared, Removing, Records, Downloading, OneRecordWriter, CheckSteps,
     TypeOK, Maybe
<1>5. Records'
  BY ConstantsAssumption DEF RecordMoves, Records, Checks, Downloading, Bundling, Installed,
     InstallsWhatIsPending, OneRecordWriter, Installing, CheckSteps, TypeOK, Maybe
<1>6. Bundling'
  BY ConstantsAssumption DEF RecordMoves, Bundling, Records, InstallsWhatIsPending, Installed,
     OneRecordWriter, Installing, CheckSteps, TypeOK, Maybe, Loses
<1>7. Checks("ui", ui)' /\ Checks("auto", auto)'
  BY ConstantsAssumption DEF RecordMoves, Checks, Records, Bundling, OneRecordWriter,
     Installing, CheckSteps, TypeOK, Maybe
<1>8. Downloading'
  BY DEF Downloading, OneRecordWriter, CheckSteps, UiSteps, TypeOK, Maybe
<1> QED BY <1>1, <1>2, <1>3, <1>4, <1>5, <1>6, <1>7, <1>8

\* Requests that take the record lock, and the start of the check worker.
LEMMA BeginKeeps ==
    ASSUME IInv, RecordMoves, 
           \/ ManualCheck
           \/ RequestAutomaticCheck
           \/ IntervalElapses
           \/ Dismiss
           \/ \E r \in Releases : ApproveDownload(r)
    PROVE  IInv'
<1> USE DEF IInv, disk, check, ManualCheck, RequestAutomaticCheck, IntervalElapses,
        Dismiss, ApproveDownload, UiEnters
<1>1. TypeOK'
  <2>1. RecordTyped'
    BY DEF RecordMoves
  <2>2. DiskTyped'
    BY ConstantsAssumption DEF TypeOK, DiskTyped, Downloading, Maybe
  <2>3. DirectoriesTyped'
    BY ConstantsAssumption DEF TypeOK, DirectoriesTyped, Maybe
  <2>4. ThreadsTyped'
    BY DEF TypeOK, ThreadsTyped, UiSteps, AutoSteps, JobSteps, CheckSteps
  <2>5. WorkTyped'
    BY ConstantsAssumption DEF TypeOK, WorkTyped, Maybe
  <2>6. StatusTyped'
    BY DEF TypeOK, StatusTyped, AutoSteps
  <2>7. InstallTyped'
    BY ConstantsAssumption DEF TypeOK, InstallTyped, Maybe, InstallStates
  <2> QED BY <2>1, <2>2, <2>3, <2>4, <2>5, <2>6, <2>7, TypeParts
<1>2. OneRecordWriter' /\ InstallsWhatIsPending'
  BY DEF OneRecordWriter, InstallsWhatIsPending, Installing, CheckSteps, TypeOK
<1>3. CompletedIsActive' /\ Installed'
  BY ConstantsAssumption DEF RecordMoves, CompletedIsActive, Installed,
     InstallsWhatIsPending, OneRecordWriter, Bundling, Installing, TypeOK
<1>4. PendingIsPrepared' /\ Removing'
  BY DEF PendingIsPrepared, Removing, Records, Downloading, OneRecordWriter, CheckSteps,
     TypeOK, Maybe
<1>5. Records'
  BY ConstantsAssumption DEF RecordMoves, Records, Checks, Downloading, Bundling, Installed,
     InstallsWhatIsPending, OneRecordWriter, Installing, CheckSteps, TypeOK, Maybe
<1>6. Bundling'
  BY ConstantsAssumption DEF RecordMoves, Bundling, Records, InstallsWhatIsPending, Installed,
     OneRecordWriter, Installing, CheckSteps, TypeOK, Maybe, Loses
<1>7. Checks("ui", ui)' /\ Checks("auto", auto)'
  BY ConstantsAssumption DEF RecordMoves, Checks, Records, Bundling, OneRecordWriter,
     Installing, CheckSteps, TypeOK, Maybe
<1>8. Downloading'
  BY DEF Downloading, OneRecordWriter, CheckSteps, UiSteps, TypeOK, Maybe
<1> QED BY <1>1, <1>2, <1>3, <1>4, <1>5, <1>6, <1>7, <1>8

\* The workers take the lock; an installation starts.
LEMMA EnterKeeps ==
    ASSUME IInv, RecordMoves, 
           \/ AutomaticCheckEnters
           \/ JobLocksRecords
           \/ \E r \in Releases : StartInstall(r)
    PROVE  IInv'
<1> USE DEF IInv, disk, check, AutomaticCheckEnters, JobLocksRecords, StartInstall
<1>1. TypeOK'
  <2>1. RecordTyped'
    BY DEF RecordMoves
  <2>2. DiskTyped'
    BY ConstantsAssumption DEF TypeOK, DiskTyped, Downloading, Maybe
  <2>3. DirectoriesTyped'
    BY ConstantsAssumption DEF TypeOK, DirectoriesTyped, Maybe
  <2>4. ThreadsTyped'
    BY DEF TypeOK, ThreadsTyped, UiSteps, AutoSteps, JobSteps, CheckSteps
  <2>5. WorkTyped'
    BY ConstantsAssumption DEF TypeOK, WorkTyped, Maybe
  <2>6. StatusTyped'
    BY DEF TypeOK, StatusTyped, AutoSteps
  <2>7. InstallTyped'
    <3>1. CASE UNCHANGED install
      BY <3>1 DEF TypeOK, InstallTyped
    <3>2. CASE \E r \in Releases : StartInstall(r)
      <4>1. PICK r \in Releases, previous \in Maybe :
               install' = [state |-> "running", release |-> r, previous |-> previous,
                           active |-> previous, rolledBack |-> FALSE]
        BY <3>2
      <4>2. r \in Maybe /\ "running" \in InstallStates
        BY DEF Maybe, InstallStates
      <4> HIDE DEF IInv, StartInstall
      <4> QED BY <4>1, <4>2 DEF InstallTyped
    <3> QED BY <3>1, <3>2
  <2> QED BY <2>1, <2>2, <2>3, <2>4, <2>5, <2>6, <2>7, TypeParts
<1>2. OneRecordWriter' /\ InstallsWhatIsPending'
  BY DEF OneRecordWriter, InstallsWhatIsPending, Installing, CheckSteps, TypeOK
<1>3. CompletedIsActive' /\ Installed'
  BY ConstantsAssumption DEF RecordMoves, CompletedIsActive, Installed,
     InstallsWhatIsPending, OneRecordWriter, Bundling, Installing, TypeOK
<1>4. PendingIsPrepared' /\ Removing'
  BY DEF PendingIsPrepared, Removing, Records, Downloading, OneRecordWriter, CheckSteps,
     TypeOK, Maybe
<1>5. Records'
  BY ConstantsAssumption DEF RecordMoves, Records, Checks, Downloading, Bundling, Installed,
     InstallsWhatIsPending, OneRecordWriter, Installing, CheckSteps, TypeOK, Maybe
<1>6. Bundling'
  BY ConstantsAssumption DEF RecordMoves, Bundling, Records, InstallsWhatIsPending, Installed,
     OneRecordWriter, Installing, CheckSteps, TypeOK, Maybe, Loses
<1>7. Checks("ui", ui)' /\ Checks("auto", auto)'
  BY ConstantsAssumption DEF RecordMoves, Checks, Records, Bundling, OneRecordWriter,
     Installing, CheckSteps, TypeOK, Maybe
<1>8. Downloading'
  BY DEF Downloading, OneRecordWriter, CheckSteps, UiSteps, TypeOK, Maybe
<1> QED BY <1>1, <1>2, <1>3, <1>4, <1>5, <1>6, <1>7, <1>8

\* A check makes sure of an active release.
LEMMA EnsureKeeps ==
    ASSUME IInv, RecordMoves, 
           \/ \E a \in {"ui", "auto"} : CheckEnsuresRelease(a)
           \/ \E a \in {"ui", "auto"} : CheckInstallsBundled(a)
    PROVE  IInv'
<1> USE DEF IInv, disk, check, CheckEnsuresRelease, CheckInstallsBundled, Goes,
        Activates, Recovers, Loadable
<1>1. TypeOK'
  <2>1. RecordTyped'
    BY DEF RecordMoves
  <2>2. DiskTyped'
    BY ConstantsAssumption DEF TypeOK, DiskTyped, Downloading, Maybe
  <2>3. DirectoriesTyped'
    BY ConstantsAssumption DEF TypeOK, DirectoriesTyped, Maybe
  <2>4. ThreadsTyped'
    BY DEF TypeOK, ThreadsTyped, UiSteps, AutoSteps, JobSteps, CheckSteps
  <2>5. WorkTyped'
    BY ConstantsAssumption DEF TypeOK, WorkTyped, Maybe
  <2>6. StatusTyped'
    BY DEF TypeOK, StatusTyped, AutoSteps
  <2>7. InstallTyped'
    BY ConstantsAssumption DEF TypeOK, InstallTyped, Maybe, InstallStates
  <2> QED BY <2>1, <2>2, <2>3, <2>4, <2>5, <2>6, <2>7, TypeParts
<1>2. OneRecordWriter' /\ InstallsWhatIsPending'
  BY DEF OneRecordWriter, InstallsWhatIsPending, Installing, CheckSteps, TypeOK
<1>3. CompletedIsActive' /\ Installed'
  BY ConstantsAssumption DEF RecordMoves, CompletedIsActive, Installed,
     InstallsWhatIsPending, OneRecordWriter, Bundling, Installing, TypeOK
<1>4. PendingIsPrepared' /\ Removing'
  BY DEF PendingIsPrepared, Removing, Records, Downloading, OneRecordWriter, CheckSteps,
     TypeOK, Maybe
<1>5. Records'
  BY ConstantsAssumption DEF RecordMoves, Records, Checks, Downloading, Bundling, Installed,
     InstallsWhatIsPending, OneRecordWriter, Installing, CheckSteps, TypeOK, Maybe
<1>6. Bundling'
  BY ConstantsAssumption DEF RecordMoves, Bundling, Records, InstallsWhatIsPending, Installed,
     OneRecordWriter, Installing, CheckSteps, TypeOK, Maybe, Loses
<1>7. Checks("ui", ui)' /\ Checks("auto", auto)'
  BY ConstantsAssumption DEF RecordMoves, Checks, Records, Bundling, OneRecordWriter,
     Installing, CheckSteps, TypeOK, Maybe
<1>8. Downloading'
  BY DEF Downloading, OneRecordWriter, CheckSteps, UiSteps, TypeOK, Maybe
<1> QED BY <1>1, <1>2, <1>3, <1>4, <1>5, <1>6, <1>7, <1>8

LEMMA LoadKeeps ==
    ASSUME IInv, RecordMoves, \E a \in {"ui", "auto"} : CheckLoadsPending(a)
    PROVE  IInv'
<1> USE DEF IInv, disk, check, CheckLoadsPending, Goes, Finishes
<1>1. TypeOK'
  <2>1. RecordTyped'
    BY DEF RecordMoves
  <2>2. DiskTyped'
    BY ConstantsAssumption DEF TypeOK, DiskTyped, Downloading, Maybe
  <2>3. DirectoriesTyped'
    BY ConstantsAssumption DEF TypeOK, DirectoriesTyped, Maybe
  <2>4. ThreadsTyped'
    BY DEF TypeOK, ThreadsTyped, UiSteps, AutoSteps, JobSteps, CheckSteps
  <2>5. WorkTyped'
    BY ConstantsAssumption DEF TypeOK, WorkTyped, Maybe
  <2>6. StatusTyped'
    BY DEF TypeOK, StatusTyped, AutoSteps
  <2>7. InstallTyped'
    BY ConstantsAssumption DEF TypeOK, InstallTyped, Maybe, InstallStates
  <2> QED BY <2>1, <2>2, <2>3, <2>4, <2>5, <2>6, <2>7, TypeParts
<1>2. OneRecordWriter' /\ InstallsWhatIsPending'
  BY DEF OneRecordWriter, InstallsWhatIsPending, Installing, CheckSteps, TypeOK
<1>3. CompletedIsActive' /\ Installed'
  BY ConstantsAssumption DEF RecordMoves, CompletedIsActive, Installed,
     InstallsWhatIsPending, OneRecordWriter, Bundling, Installing, TypeOK
<1>4. PendingIsPrepared' /\ Removing'
  BY DEF PendingIsPrepared, Removing, Records, Downloading, OneRecordWriter, CheckSteps,
     TypeOK, Maybe
<1>5. Records'
  BY ConstantsAssumption DEF RecordMoves, Records, Checks, Downloading, Bundling, Installed,
     InstallsWhatIsPending, OneRecordWriter, Installing, CheckSteps, TypeOK, Maybe
<1>6. Bundling'
  BY ConstantsAssumption DEF RecordMoves, Bundling, Records, InstallsWhatIsPending, Installed,
     OneRecordWriter, Installing, CheckSteps, TypeOK, Maybe, Loses
<1>7. Checks("ui", ui)' /\ Checks("auto", auto)'
  BY ConstantsAssumption DEF RecordMoves, Checks, Records, Bundling, OneRecordWriter,
     Installing, CheckSteps, TypeOK, Maybe
<1>8. Downloading'
  BY DEF Downloading, OneRecordWriter, CheckSteps, UiSteps, TypeOK, Maybe
<1> QED BY <1>1, <1>2, <1>3, <1>4, <1>5, <1>6, <1>7, <1>8

LEMMA SelectKeeps ==
    ASSUME IInv, RecordMoves, \E a \in {"ui", "auto"} : CheckSelects(a)
    PROVE  IInv'
<1> USE DEF IInv, disk, check, CheckSelects
<1>0. /\ active' = active /\ active # None /\ lost' = lost
      /\ \E a \in {"ui", "auto"}, r \in Maybe :
            /\ r # None => active <= r
            /\ Goes(a, "list", "save")
            /\ choice' = [choice EXCEPT ![a] = r]
  <2>1. active' = active /\ active # None /\ lost' = lost
    BY DEF Recovers, Loadable, Loses, TypeOK
  <2>2. active \in Nat
    BY <2>1, ConstantsAssumption DEF TypeOK, Maybe
  <2>3. PICK a \in {"ui", "auto"}, offered \in SUBSET Releases :
           /\ Goes(a, "list", "save")
           /\ \E r \in IF Newer(offered) = {} THEN {None} ELSE Newest(offered) :
                 choice' = [choice EXCEPT ![a] = r]
    OBVIOUS
  <2>4. PICK r \in {None} \cup Newest(offered) : choice' = [choice EXCEPT ![a] = r]
    BY <2>3
  <2>5. r \in Newest(offered) => r \in offered /\ r > active
    BY DEF Newest, Newer
  <2>6. r \in Maybe /\ (r # None => active <= r)
    <3>1. CASE r = None
      BY <3>1 DEF Maybe
    <3>2. CASE r \in Newest(offered)
      <4>1. r \in Releases /\ r > active
        BY <2>5, <3>2
      <4>2. r \in Nat
        BY <4>1, ConstantsAssumption
      <4> QED BY <2>2, <4>1, <4>2 DEF Maybe
    <3> QED BY <2>4, <3>1, <3>2
  <2> QED BY <2>1, <2>3, <2>4, <2>6
<1> HIDE DEF CheckSelects
<1> USE DEF Goes
<1>A. UNCHANGED <<github, available, pending, prepared, job, target, check, install>>
  BY DEF CheckSelects
<1>1. TypeOK'
  <2>1. RecordTyped'
    BY DEF RecordMoves
  <2>2. DiskTyped'
    BY ConstantsAssumption, <1>0, <1>A DEF TypeOK, DiskTyped, Downloading, Maybe
  <2>3. DirectoriesTyped'
    BY ConstantsAssumption, <1>0, <1>A DEF TypeOK, DirectoriesTyped, Maybe
  <2>4. ThreadsTyped'
    BY <1>0, <1>A DEF TypeOK, ThreadsTyped, UiSteps, AutoSteps, JobSteps, CheckSteps
  <2>5. WorkTyped'
    BY ConstantsAssumption, <1>0, <1>A DEF TypeOK, WorkTyped, Maybe
  <2>6. StatusTyped'
    BY <1>0, <1>A DEF TypeOK, StatusTyped, AutoSteps
  <2>7. InstallTyped'
    BY ConstantsAssumption, <1>0, <1>A DEF TypeOK, InstallTyped, Maybe, InstallStates
  <2> QED BY <2>1, <2>2, <2>3, <2>4, <2>5, <2>6, <2>7, TypeParts
<1>2. OneRecordWriter' /\ InstallsWhatIsPending'
  BY <1>0, <1>A DEF OneRecordWriter, InstallsWhatIsPending, Installing, CheckSteps, TypeOK
<1>3. CompletedIsActive' /\ Installed'
  BY ConstantsAssumption, <1>0, <1>A DEF RecordMoves, CompletedIsActive, Installed,
     InstallsWhatIsPending, OneRecordWriter, Bundling, Installing, TypeOK
<1>4. PendingIsPrepared' /\ Removing'
  BY <1>0, <1>A DEF PendingIsPrepared, Removing, Records, Downloading, OneRecordWriter, CheckSteps,
     TypeOK, Maybe
<1>5. Records'
  BY ConstantsAssumption, <1>0, <1>A DEF RecordMoves, Records, Checks, Downloading, Bundling, Installed,
     InstallsWhatIsPending, OneRecordWriter, Installing, CheckSteps, TypeOK, Maybe
<1>6. Bundling'
  BY ConstantsAssumption, <1>0, <1>A DEF RecordMoves, Bundling, Records, InstallsWhatIsPending, Installed,
     OneRecordWriter, Installing, CheckSteps, TypeOK, Maybe, Loses
<1>7. Checks("ui", ui)' /\ Checks("auto", auto)'
  BY ConstantsAssumption, <1>0, <1>A DEF RecordMoves, Checks, Records, Bundling, OneRecordWriter,
     Installing, CheckSteps, TypeOK, Maybe
<1>8. Downloading'
  BY <1>0, <1>A DEF Downloading, OneRecordWriter, CheckSteps, UiSteps, TypeOK, Maybe
<1> QED BY <1>1, <1>2, <1>3, <1>4, <1>5, <1>6, <1>7, <1>8

LEMMA SaveKeeps ==
    ASSUME IInv, RecordMoves, \E a \in {"ui", "auto"} : CheckSaves(a)
    PROVE  IInv'
<1> USE DEF IInv, disk, check, CheckSaves, Finishes
<1>1. TypeOK'
  <2>1. RecordTyped'
    BY DEF RecordMoves
  <2>2. DiskTyped'
    BY ConstantsAssumption DEF TypeOK, DiskTyped, Downloading, Maybe
  <2>3. DirectoriesTyped'
    BY ConstantsAssumption DEF TypeOK, DirectoriesTyped, Maybe
  <2>4. ThreadsTyped'
    BY DEF TypeOK, ThreadsTyped, UiSteps, AutoSteps, JobSteps, CheckSteps
  <2>5. WorkTyped'
    BY ConstantsAssumption DEF TypeOK, WorkTyped, Maybe
  <2>6. StatusTyped'
    BY DEF TypeOK, StatusTyped, AutoSteps
  <2>7. InstallTyped'
    BY ConstantsAssumption DEF TypeOK, InstallTyped, Maybe, InstallStates
  <2> QED BY <2>1, <2>2, <2>3, <2>4, <2>5, <2>6, <2>7, TypeParts
<1>2. OneRecordWriter' /\ InstallsWhatIsPending'
  BY DEF OneRecordWriter, InstallsWhatIsPending, Installing, CheckSteps, TypeOK
<1>3. CompletedIsActive' /\ Installed'
  BY ConstantsAssumption DEF RecordMoves, CompletedIsActive, Installed,
     InstallsWhatIsPending, OneRecordWriter, Bundling, Installing, TypeOK
<1>4. PendingIsPrepared' /\ Removing'
  BY DEF PendingIsPrepared, Removing, Records, Downloading, OneRecordWriter, CheckSteps,
     TypeOK, Maybe
<1>5. Records'
  BY ConstantsAssumption DEF RecordMoves, Records, Checks, Downloading, Bundling, Installed,
     InstallsWhatIsPending, OneRecordWriter, Installing, CheckSteps, TypeOK, Maybe
<1>6. Bundling'
  BY ConstantsAssumption DEF RecordMoves, Bundling, Records, InstallsWhatIsPending, Installed,
     OneRecordWriter, Installing, CheckSteps, TypeOK, Maybe, Loses
<1>7. Checks("ui", ui)' /\ Checks("auto", auto)'
  BY ConstantsAssumption DEF RecordMoves, Checks, Records, Bundling, OneRecordWriter,
     Installing, CheckSteps, TypeOK, Maybe
<1>8. Downloading'
  BY DEF Downloading, OneRecordWriter, CheckSteps, UiSteps, TypeOK, Maybe
<1> QED BY <1>1, <1>2, <1>3, <1>4, <1>5, <1>6, <1>7, <1>8

LEMMA CheckEndKeeps ==
    ASSUME IInv, RecordMoves, 
           \/ ManualCheckFails
           \/ AutomaticCheckFails
           \/ AutomaticCheckEnds
    PROVE  IInv'
<1> USE DEF IInv, disk, check, ManualCheckFails, UiFails, UiLeaves,
        AutomaticCheckFails, AutomaticCheckEnds
<1>1. TypeOK'
  <2>1. RecordTyped'
    BY DEF RecordMoves
  <2>2. DiskTyped'
    BY ConstantsAssumption DEF TypeOK, DiskTyped, Downloading, Maybe
  <2>3. DirectoriesTyped'
    BY ConstantsAssumption DEF TypeOK, DirectoriesTyped, Maybe
  <2>4. ThreadsTyped'
    BY DEF TypeOK, ThreadsTyped, UiSteps, AutoSteps, JobSteps, CheckSteps
  <2>5. WorkTyped'
    BY ConstantsAssumption DEF TypeOK, WorkTyped, Maybe
  <2>6. StatusTyped'
    BY DEF TypeOK, StatusTyped, AutoSteps
  <2>7. InstallTyped'
    BY ConstantsAssumption DEF TypeOK, InstallTyped, Maybe, InstallStates
  <2> QED BY <2>1, <2>2, <2>3, <2>4, <2>5, <2>6, <2>7, TypeParts
<1>2. OneRecordWriter' /\ InstallsWhatIsPending'
  BY DEF OneRecordWriter, InstallsWhatIsPending, Installing, CheckSteps, TypeOK
<1>3. CompletedIsActive' /\ Installed'
  BY ConstantsAssumption DEF RecordMoves, CompletedIsActive, Installed,
     InstallsWhatIsPending, OneRecordWriter, Bundling, Installing, TypeOK
<1>4. PendingIsPrepared' /\ Removing'
  BY DEF PendingIsPrepared, Removing, Records, Downloading, OneRecordWriter, CheckSteps,
     TypeOK, Maybe
<1>5. Records'
  BY ConstantsAssumption DEF RecordMoves, Records, Checks, Downloading, Bundling, Installed,
     InstallsWhatIsPending, OneRecordWriter, Installing, CheckSteps, TypeOK, Maybe
<1>6. Bundling'
  BY ConstantsAssumption DEF RecordMoves, Bundling, Records, InstallsWhatIsPending, Installed,
     OneRecordWriter, Installing, CheckSteps, TypeOK, Maybe, Loses
<1>7. Checks("ui", ui)' /\ Checks("auto", auto)'
  BY ConstantsAssumption DEF RecordMoves, Checks, Records, Bundling, OneRecordWriter,
     Installing, CheckSteps, TypeOK, Maybe
<1>8. Downloading'
  BY DEF Downloading, OneRecordWriter, CheckSteps, UiSteps, TypeOK, Maybe
<1> QED BY <1>1, <1>2, <1>3, <1>4, <1>5, <1>6, <1>7, <1>8

LEMMA DownloadKeeps ==
    ASSUME IInv, RecordMoves, 
           \/ Downloads
           \/ PlacesPrepared
           \/ SavesPending
           \/ DropsAvailable
           \/ DownloadFails
    PROVE  IInv'
<1> USE DEF IInv, disk, check, Downloads, PlacesPrepared, SavesPending, DropsAvailable,
        DownloadFails, UiFails, UiLeaves
<1>1. TypeOK'
  <2>1. RecordTyped'
    BY DEF RecordMoves
  <2>2. DiskTyped'
    BY ConstantsAssumption DEF TypeOK, DiskTyped, Downloading, Maybe
  <2>3. DirectoriesTyped'
    BY ConstantsAssumption DEF TypeOK, DirectoriesTyped, Maybe
  <2>4. ThreadsTyped'
    BY DEF TypeOK, ThreadsTyped, UiSteps, AutoSteps, JobSteps, CheckSteps
  <2>5. WorkTyped'
    BY ConstantsAssumption DEF TypeOK, WorkTyped, Maybe
  <2>6. StatusTyped'
    BY DEF TypeOK, StatusTyped, AutoSteps
  <2>7. InstallTyped'
    BY ConstantsAssumption DEF TypeOK, InstallTyped, Maybe, InstallStates
  <2> QED BY <2>1, <2>2, <2>3, <2>4, <2>5, <2>6, <2>7, TypeParts
<1>2. OneRecordWriter' /\ InstallsWhatIsPending'
  BY DEF OneRecordWriter, InstallsWhatIsPending, Installing, CheckSteps, TypeOK
<1>3. CompletedIsActive' /\ Installed'
  BY ConstantsAssumption DEF RecordMoves, CompletedIsActive, Installed,
     InstallsWhatIsPending, OneRecordWriter, Bundling, Installing, TypeOK
<1>4. PendingIsPrepared' /\ Removing'
  BY DEF PendingIsPrepared, Removing, Records, Downloading, OneRecordWriter, CheckSteps,
     TypeOK, Maybe
<1>5. Records'
  BY ConstantsAssumption DEF RecordMoves, Records, Checks, Downloading, Bundling, Installed,
     InstallsWhatIsPending, OneRecordWriter, Installing, CheckSteps, TypeOK, Maybe
<1>6. Bundling'
  BY ConstantsAssumption DEF RecordMoves, Bundling, Records, InstallsWhatIsPending, Installed,
     OneRecordWriter, Installing, CheckSteps, TypeOK, Maybe, Loses
<1>7. Checks("ui", ui)' /\ Checks("auto", auto)'
  BY ConstantsAssumption DEF RecordMoves, Checks, Records, Bundling, OneRecordWriter,
     Installing, CheckSteps, TypeOK, Maybe
<1>8. Downloading'
  BY DEF Downloading, OneRecordWriter, CheckSteps, UiSteps, TypeOK, Maybe
<1> QED BY <1>1, <1>2, <1>3, <1>4, <1>5, <1>6, <1>7, <1>8

LEMMA DismissKeeps ==
    ASSUME IInv, RecordMoves, 
           \/ DismissUnlinksPending
           \/ DismissRemovesPrepared
           \/ DismissDropsAvailable
    PROVE  IInv'
<1> USE DEF IInv, disk, check, DismissUnlinksPending, UnlinksPending, HasDirectory,
        RemovesPrepared, DismissRemovesPrepared, DismissDropsAvailable, UiLeaves
<1>1. TypeOK'
  <2>1. RecordTyped'
    BY DEF RecordMoves
  <2>2. DiskTyped'
    BY ConstantsAssumption DEF TypeOK, DiskTyped, Downloading, Maybe
  <2>3. DirectoriesTyped'
    BY ConstantsAssumption DEF TypeOK, DirectoriesTyped, Maybe
  <2>4. ThreadsTyped'
    BY DEF TypeOK, ThreadsTyped, UiSteps, AutoSteps, JobSteps, CheckSteps
  <2>5. WorkTyped'
    BY ConstantsAssumption DEF TypeOK, WorkTyped, Maybe
  <2>6. StatusTyped'
    BY DEF TypeOK, StatusTyped, AutoSteps
  <2>7. InstallTyped'
    BY ConstantsAssumption DEF TypeOK, InstallTyped, Maybe, InstallStates
  <2> QED BY <2>1, <2>2, <2>3, <2>4, <2>5, <2>6, <2>7, TypeParts
<1>2. OneRecordWriter' /\ InstallsWhatIsPending'
  BY DEF OneRecordWriter, InstallsWhatIsPending, Installing, CheckSteps, TypeOK
<1>3. CompletedIsActive' /\ Installed'
  BY ConstantsAssumption DEF RecordMoves, CompletedIsActive, Installed,
     InstallsWhatIsPending, OneRecordWriter, Bundling, Installing, TypeOK
<1>4. PendingIsPrepared' /\ Removing'
  BY DEF PendingIsPrepared, Removing, Records, Downloading, OneRecordWriter, CheckSteps,
     TypeOK, Maybe
<1>5. Records'
  BY ConstantsAssumption DEF RecordMoves, Records, Checks, Downloading, Bundling, Installed,
     InstallsWhatIsPending, OneRecordWriter, Installing, CheckSteps, TypeOK, Maybe
<1>6. Bundling'
  BY ConstantsAssumption DEF RecordMoves, Bundling, Records, InstallsWhatIsPending, Installed,
     OneRecordWriter, Installing, CheckSteps, TypeOK, Maybe, Loses
<1>7. Checks("ui", ui)' /\ Checks("auto", auto)'
  BY ConstantsAssumption DEF RecordMoves, Checks, Records, Bundling, OneRecordWriter,
     Installing, CheckSteps, TypeOK, Maybe
<1>8. Downloading'
  BY DEF Downloading, OneRecordWriter, CheckSteps, UiSteps, TypeOK, Maybe
<1> QED BY <1>1, <1>2, <1>3, <1>4, <1>5, <1>6, <1>7, <1>8

LEMMA DismissFailKeeps ==
    ASSUME IInv, RecordMoves, DismissFails
    PROVE  IInv'
<1> USE DEF IInv, disk, check, DismissFails, UiFails, UiLeaves, HalfRemovesPrepared
<1>1. TypeOK'
  <2>1. RecordTyped'
    BY DEF RecordMoves
  <2>2. DiskTyped'
    BY ConstantsAssumption DEF TypeOK, DiskTyped, Downloading, Maybe
  <2>3. DirectoriesTyped'
    BY ConstantsAssumption DEF TypeOK, DirectoriesTyped, Maybe
  <2>4. ThreadsTyped'
    BY DEF TypeOK, ThreadsTyped, UiSteps, AutoSteps, JobSteps, CheckSteps
  <2>5. WorkTyped'
    BY ConstantsAssumption DEF TypeOK, WorkTyped, Maybe
  <2>6. StatusTyped'
    BY DEF TypeOK, StatusTyped, AutoSteps
  <2>7. InstallTyped'
    BY ConstantsAssumption DEF TypeOK, InstallTyped, Maybe, InstallStates
  <2> QED BY <2>1, <2>2, <2>3, <2>4, <2>5, <2>6, <2>7, TypeParts
<1>2. OneRecordWriter' /\ InstallsWhatIsPending'
  BY DEF OneRecordWriter, InstallsWhatIsPending, Installing, CheckSteps, TypeOK
<1>3. CompletedIsActive' /\ Installed'
  BY ConstantsAssumption DEF RecordMoves, CompletedIsActive, Installed,
     InstallsWhatIsPending, OneRecordWriter, Bundling, Installing, TypeOK
<1>4. PendingIsPrepared' /\ Removing'
  BY DEF PendingIsPrepared, Removing, Records, Downloading, OneRecordWriter, CheckSteps,
     TypeOK, Maybe
<1>5. Records'
  BY ConstantsAssumption DEF RecordMoves, Records, Checks, Downloading, Bundling, Installed,
     InstallsWhatIsPending, OneRecordWriter, Installing, CheckSteps, TypeOK, Maybe
<1>6. Bundling'
  BY ConstantsAssumption DEF RecordMoves, Bundling, Records, InstallsWhatIsPending, Installed,
     OneRecordWriter, Installing, CheckSteps, TypeOK, Maybe, Loses
<1>7. Checks("ui", ui)' /\ Checks("auto", auto)'
  BY ConstantsAssumption DEF RecordMoves, Checks, Records, Bundling, OneRecordWriter,
     Installing, CheckSteps, TypeOK, Maybe
<1>8. Downloading'
  BY DEF Downloading, OneRecordWriter, CheckSteps, UiSteps, TypeOK, Maybe
<1> QED BY <1>1, <1>2, <1>3, <1>4, <1>5, <1>6, <1>7, <1>8

\* The install worker activates what is pending, and nothing else is available.
LEMMA JobKeeps ==
    ASSUME IInv, RecordMoves, 
           \/ JobVerifies
           \/ JobActivates
           \/ JobConfirms
           \/ JobUnlinksPending
           \/ JobRemovesPrepared
    PROVE  IInv'
<1> USE DEF IInv, disk, check, JobVerifies, JobActivates, JobConfirms,
        JobUnlinksPending, JobRemovesPrepared, UnlinksPending, HasDirectory,
        RemovesPrepared, Recovers, Loadable
<1>1. TypeOK'
  <2>1. RecordTyped'
    BY DEF RecordMoves
  <2>2. DiskTyped'
    BY ConstantsAssumption DEF TypeOK, DiskTyped, Downloading, Maybe
  <2>3. DirectoriesTyped'
    BY ConstantsAssumption DEF TypeOK, DirectoriesTyped, Maybe
  <2>4. ThreadsTyped'
    BY DEF TypeOK, ThreadsTyped, UiSteps, AutoSteps, JobSteps, CheckSteps
  <2>5. WorkTyped'
    BY ConstantsAssumption DEF TypeOK, WorkTyped, Maybe
  <2>6. StatusTyped'
    BY DEF TypeOK, StatusTyped, AutoSteps
  <2>7. InstallTyped'
    BY ConstantsAssumption DEF TypeOK, InstallTyped, Maybe, InstallStates
  <2> QED BY <2>1, <2>2, <2>3, <2>4, <2>5, <2>6, <2>7, TypeParts
<1>2. OneRecordWriter' /\ InstallsWhatIsPending'
  BY DEF OneRecordWriter, InstallsWhatIsPending, Installing, CheckSteps, TypeOK
<1>3. CompletedIsActive' /\ Installed'
  BY ConstantsAssumption DEF RecordMoves, CompletedIsActive, Installed,
     InstallsWhatIsPending, OneRecordWriter, Bundling, Installing, TypeOK
<1>4. PendingIsPrepared' /\ Removing'
  BY DEF PendingIsPrepared, Removing, Records, Downloading, OneRecordWriter, CheckSteps,
     TypeOK, Maybe
<1>5. Records'
  BY ConstantsAssumption DEF RecordMoves, Records, Checks, Downloading, Bundling, Installed,
     InstallsWhatIsPending, OneRecordWriter, Installing, CheckSteps, TypeOK, Maybe
<1>6. Bundling'
  BY ConstantsAssumption DEF RecordMoves, Bundling, Records, InstallsWhatIsPending, Installed,
     OneRecordWriter, Installing, CheckSteps, TypeOK, Maybe, Loses
<1>7. Checks("ui", ui)' /\ Checks("auto", auto)'
  BY ConstantsAssumption DEF RecordMoves, Checks, Records, Bundling, OneRecordWriter,
     Installing, CheckSteps, TypeOK, Maybe
<1>8. Downloading'
  BY DEF Downloading, OneRecordWriter, CheckSteps, UiSteps, TypeOK, Maybe
<1> QED BY <1>1, <1>2, <1>3, <1>4, <1>5, <1>6, <1>7, <1>8

LEMMA JobFailKeeps ==
    ASSUME IInv, RecordMoves, JobFails
    PROVE  IInv'
<1> USE DEF IInv, disk, check, JobFails, HalfRemovesPrepared
<1>1. TypeOK'
  <2>1. RecordTyped'
    BY DEF RecordMoves
  <2>2. DiskTyped'
    BY ConstantsAssumption DEF TypeOK, DiskTyped, Downloading, Maybe
  <2>3. DirectoriesTyped'
    BY ConstantsAssumption DEF TypeOK, DirectoriesTyped, Maybe
  <2>4. ThreadsTyped'
    BY DEF TypeOK, ThreadsTyped, UiSteps, AutoSteps, JobSteps, CheckSteps
  <2>5. WorkTyped'
    BY ConstantsAssumption DEF TypeOK, WorkTyped, Maybe
  <2>6. StatusTyped'
    BY DEF TypeOK, StatusTyped, AutoSteps
  <2>7. InstallTyped'
    BY ConstantsAssumption DEF TypeOK, InstallTyped, Maybe, InstallStates
  <2> QED BY <2>1, <2>2, <2>3, <2>4, <2>5, <2>6, <2>7, TypeParts
<1>2. OneRecordWriter' /\ InstallsWhatIsPending'
  BY DEF OneRecordWriter, InstallsWhatIsPending, Installing, CheckSteps, TypeOK
<1>3. CompletedIsActive' /\ Installed'
  BY ConstantsAssumption DEF RecordMoves, CompletedIsActive, Installed,
     InstallsWhatIsPending, OneRecordWriter, Bundling, Installing, TypeOK
<1>4. PendingIsPrepared' /\ Removing'
  BY DEF PendingIsPrepared, Removing, Records, Downloading, OneRecordWriter, CheckSteps,
     TypeOK, Maybe
<1>5. Records'
  BY ConstantsAssumption DEF RecordMoves, Records, Checks, Downloading, Bundling, Installed,
     InstallsWhatIsPending, OneRecordWriter, Installing, CheckSteps, TypeOK, Maybe
<1>6. Bundling'
  BY ConstantsAssumption DEF RecordMoves, Bundling, Records, InstallsWhatIsPending, Installed,
     OneRecordWriter, Installing, CheckSteps, TypeOK, Maybe, Loses
<1>7. Checks("ui", ui)' /\ Checks("auto", auto)'
  BY ConstantsAssumption DEF RecordMoves, Checks, Records, Bundling, OneRecordWriter,
     Installing, CheckSteps, TypeOK, Maybe
<1>8. Downloading'
  BY DEF Downloading, OneRecordWriter, CheckSteps, UiSteps, TypeOK, Maybe
<1> QED BY <1>1, <1>2, <1>3, <1>4, <1>5, <1>6, <1>7, <1>8

LEMMA JobEndKeeps ==
    ASSUME IInv, RecordMoves, JobEnds
    PROVE  IInv'
<1> USE DEF IInv, disk, check
<1>0. /\ job' = "off" /\ job \in {"done", "failed"}
      /\ target' = [target EXCEPT !["job"] = None]
      /\ install'.release = install.release
      /\ install'.state = IF job = "done" THEN "completed" ELSE "failed"
      /\ InstallTyped'
      /\ UNCHANGED <<github, available, pending, prepared, lock, ui, auto, choice, check>>
  <2>1. CASE job = "done"
    BY <2>1 DEF JobEnds, TypeOK, InstallTyped, InstallStates
  <2>2. CASE job = "failed"
    <3>1. PICK now \in Maybe :
             install' = [install EXCEPT !.state = "failed", !.active = now,
                                        !.rolledBack = (now = install.previous)]
      BY <2>2 DEF JobEnds
    <3>2. InstallTyped'
      BY <3>1 DEF TypeOK, InstallTyped, InstallStates
    <3> QED BY <2>2, <3>1, <3>2 DEF JobEnds, TypeOK
  <2> QED BY <2>1, <2>2 DEF JobEnds
<1>1. TypeOK'
  <2>1. RecordTyped'
    BY DEF RecordMoves
  <2>2. DiskTyped'
    BY ConstantsAssumption, <1>0 DEF TypeOK, DiskTyped, Downloading, Maybe
  <2>3. DirectoriesTyped'
    BY ConstantsAssumption, <1>0 DEF TypeOK, DirectoriesTyped, Maybe
  <2>4. ThreadsTyped'
    BY <1>0 DEF TypeOK, ThreadsTyped, UiSteps, AutoSteps, JobSteps, CheckSteps
  <2>5. WorkTyped'
    BY ConstantsAssumption, <1>0 DEF TypeOK, WorkTyped, Maybe
  <2>6. StatusTyped'
    BY <1>0 DEF TypeOK, StatusTyped, AutoSteps
  <2>7. InstallTyped'
    BY ConstantsAssumption, <1>0 DEF TypeOK, InstallTyped, Maybe, InstallStates
  <2> QED BY <2>1, <2>2, <2>3, <2>4, <2>5, <2>6, <2>7, TypeParts
<1>2. OneRecordWriter' /\ InstallsWhatIsPending'
  BY <1>0 DEF OneRecordWriter, InstallsWhatIsPending, Installing, CheckSteps, TypeOK
<1>3. CompletedIsActive' /\ Installed'
  BY ConstantsAssumption, <1>0 DEF RecordMoves, CompletedIsActive, Installed,
     InstallsWhatIsPending, OneRecordWriter, Bundling, Installing, TypeOK
<1>4. PendingIsPrepared' /\ Removing'
  BY <1>0 DEF PendingIsPrepared, Removing, Records, Downloading, OneRecordWriter, CheckSteps,
     TypeOK, Maybe
<1>5. Records'
  BY ConstantsAssumption, <1>0 DEF RecordMoves, Records, Checks, Downloading, Bundling, Installed,
     InstallsWhatIsPending, OneRecordWriter, Installing, CheckSteps, TypeOK, Maybe
<1>6. Bundling'
  BY ConstantsAssumption, <1>0 DEF RecordMoves, Bundling, Records, InstallsWhatIsPending, Installed,
     OneRecordWriter, Installing, CheckSteps, TypeOK, Maybe, Loses
<1>7. Checks("ui", ui)' /\ Checks("auto", auto)'
  BY ConstantsAssumption, <1>0 DEF RecordMoves, Checks, Records, Bundling, OneRecordWriter,
     Installing, CheckSteps, TypeOK, Maybe
<1>8. Downloading'
  BY <1>0 DEF Downloading, OneRecordWriter, CheckSteps, UiSteps, TypeOK, Maybe
<1> QED BY <1>1, <1>2, <1>3, <1>4, <1>5, <1>6, <1>7, <1>8

LEMMA CrashKeeps ==
    ASSUME IInv, RecordMoves, Crash
    PROVE  IInv'
<1> USE DEF IInv, disk, check, Crash, HalfRemovesPrepared, NoTarget, NoChoice,
        NoInstall
<1>1. TypeOK'
  <2>1. RecordTyped'
    BY DEF RecordMoves
  <2>2. DiskTyped'
    BY ConstantsAssumption DEF TypeOK, DiskTyped, Downloading, Maybe
  <2>3. DirectoriesTyped'
    BY ConstantsAssumption DEF TypeOK, DirectoriesTyped, Maybe
  <2>4. ThreadsTyped'
    BY DEF TypeOK, ThreadsTyped, UiSteps, AutoSteps, JobSteps, CheckSteps
  <2>5. WorkTyped'
    BY ConstantsAssumption DEF TypeOK, WorkTyped, Maybe
  <2>6. StatusTyped'
    BY DEF TypeOK, StatusTyped, AutoSteps
  <2>7. InstallTyped'
    BY ConstantsAssumption DEF TypeOK, InstallTyped, Maybe, InstallStates
  <2> QED BY <2>1, <2>2, <2>3, <2>4, <2>5, <2>6, <2>7, TypeParts
<1>2. OneRecordWriter' /\ InstallsWhatIsPending'
  BY DEF OneRecordWriter, InstallsWhatIsPending, Installing, CheckSteps, TypeOK
<1>3. CompletedIsActive' /\ Installed'
  BY ConstantsAssumption DEF RecordMoves, CompletedIsActive, Installed,
     InstallsWhatIsPending, OneRecordWriter, Bundling, Installing, TypeOK
<1>4. PendingIsPrepared' /\ Removing'
  BY DEF PendingIsPrepared, Removing, Records, Downloading, OneRecordWriter, CheckSteps,
     TypeOK, Maybe
<1>5. Records'
  BY ConstantsAssumption DEF RecordMoves, Records, Checks, Downloading, Bundling, Installed,
     InstallsWhatIsPending, OneRecordWriter, Installing, CheckSteps, TypeOK, Maybe
<1>6. Bundling'
  BY ConstantsAssumption DEF RecordMoves, Bundling, Records, InstallsWhatIsPending, Installed,
     OneRecordWriter, Installing, CheckSteps, TypeOK, Maybe, Loses
<1>7. Checks("ui", ui)' /\ Checks("auto", auto)'
  BY ConstantsAssumption DEF RecordMoves, Checks, Records, Bundling, OneRecordWriter,
     Installing, CheckSteps, TypeOK, Maybe
<1>8. Downloading'
  BY DEF Downloading, OneRecordWriter, CheckSteps, UiSteps, TypeOK, Maybe
<1> QED BY <1>1, <1>2, <1>3, <1>4, <1>5, <1>6, <1>7, <1>8

LEMMA StutterKeeps ==
    ASSUME IInv, RecordMoves, UNCHANGED vars
    PROVE  IInv'
<1> USE DEF IInv, disk, check, vars, record
<1>1. TypeOK'
  <2>1. RecordTyped'
    BY DEF RecordMoves
  <2>2. DiskTyped'
    BY ConstantsAssumption DEF TypeOK, DiskTyped, Downloading, Maybe
  <2>3. DirectoriesTyped'
    BY ConstantsAssumption DEF TypeOK, DirectoriesTyped, Maybe
  <2>4. ThreadsTyped'
    BY DEF TypeOK, ThreadsTyped, UiSteps, AutoSteps, JobSteps, CheckSteps
  <2>5. WorkTyped'
    BY ConstantsAssumption DEF TypeOK, WorkTyped, Maybe
  <2>6. StatusTyped'
    BY DEF TypeOK, StatusTyped, AutoSteps
  <2>7. InstallTyped'
    BY ConstantsAssumption DEF TypeOK, InstallTyped, Maybe, InstallStates
  <2> QED BY <2>1, <2>2, <2>3, <2>4, <2>5, <2>6, <2>7, TypeParts
<1>2. OneRecordWriter' /\ InstallsWhatIsPending'
  BY DEF OneRecordWriter, InstallsWhatIsPending, Installing, CheckSteps, TypeOK
<1>3. CompletedIsActive' /\ Installed'
  BY ConstantsAssumption DEF RecordMoves, CompletedIsActive, Installed,
     InstallsWhatIsPending, OneRecordWriter, Bundling, Installing, TypeOK
<1>4. PendingIsPrepared' /\ Removing'
  BY DEF PendingIsPrepared, Removing, Records, Downloading, OneRecordWriter, CheckSteps,
     TypeOK, Maybe
<1>5. Records'
  BY ConstantsAssumption DEF RecordMoves, Records, Checks, Downloading, Bundling, Installed,
     InstallsWhatIsPending, OneRecordWriter, Installing, CheckSteps, TypeOK, Maybe
<1>6. Bundling'
  BY ConstantsAssumption DEF RecordMoves, Bundling, Records, InstallsWhatIsPending, Installed,
     OneRecordWriter, Installing, CheckSteps, TypeOK, Maybe, Loses
<1>7. Checks("ui", ui)' /\ Checks("auto", auto)'
  BY ConstantsAssumption DEF RecordMoves, Checks, Records, Bundling, OneRecordWriter,
     Installing, CheckSteps, TypeOK, Maybe
<1>8. Downloading'
  BY DEF Downloading, OneRecordWriter, CheckSteps, UiSteps, TypeOK, Maybe
<1> QED BY <1>1, <1>2, <1>3, <1>4, <1>5, <1>6, <1>7, <1>8

LEMMA NextKeeps == IInv /\ [Next]_vars => IInv'
<1> SUFFICES ASSUME IInv, [Next]_vars PROVE IInv'
  OBVIOUS
<1>0. RecordMoves
  BY StepMoves
<1>1. CASE ServeRequest \/ ServeFails
  BY <1>0, <1>1, ServeKeeps
<1>2. CASE \/ ManualCheck \/ RequestAutomaticCheck \/ IntervalElapses \/ Dismiss
           \/ \E r \in Releases : ApproveDownload(r)
  BY <1>0, <1>2, BeginKeeps
<1>3. CASE \/ AutomaticCheckEnters \/ JobLocksRecords
           \/ \E r \in Releases : StartInstall(r)
  BY <1>0, <1>3, EnterKeeps
<1>4. CASE UiStep
  BY <1>0, <1>4, ServeKeeps, EnsureKeeps, LoadKeeps, SelectKeeps, SaveKeeps, CheckEndKeeps,
     DownloadKeeps, DismissKeeps, DismissFailKeeps DEF UiStep
<1>5. CASE AutoStep
  BY <1>0, <1>5, EnsureKeeps, LoadKeeps, SelectKeeps, SaveKeeps, CheckEndKeeps DEF AutoStep
<1>6. CASE JobStep
  BY <1>0, <1>6, JobKeeps, JobFailKeeps, JobEndKeeps DEF JobStep
<1>7. CASE Crash
  BY <1>0, <1>7, CrashKeeps
<1>8. CASE UNCHANGED vars
  BY <1>0, <1>8, StutterKeeps
<1> QED BY <1>1, <1>2, <1>3, <1>4, <1>5, <1>6, <1>7, <1>8 DEF Next

LEMMA Invariant == Spec => []IInv
BY InitHolds, NextKeeps, PTL DEF Spec

-----------------------------------------------------------------------------
(* The theorems. *)

\* The update records have one writer at a time (_record_lock and the running
\* installation state of the controller).
THEOREM RecordsHaveOneWriter == Spec => []OneRecordWriter
BY Invariant, PTL DEF IInv

\* The worker installs the release the user approved: nothing changes the
\* pending record between start_install and the worker's dismissal.
THEOREM ApprovedIsInstalled == Spec => []InstallsWhatIsPending
BY Invariant, PTL DEF IInv

\* A pending GitHub release has its whole directory, through failures and
\* crashes (prepare_github_knowledge_update, dismiss_pending_knowledge_update).
THEOREM PendingCanBeInstalled == Spec => []PendingIsPrepared
BY Invariant, PTL DEF IInv

\* Completion is reported of the active release only (_run_installation_job),
\* unless the active record has been lost at some time.
THEOREM CompletionIsTrue == Spec => []CompletedIsActive
BY Invariant, PTL DEF IInv

\* A step of any thread makes active what is as new as what it replaces, or
\* deletes a record whose backup is used up, or installs the bundled release
\* for a page, a record having been lost.
LEMMA StepUpgrades ==
    ASSUME IInv, [Next]_vars, active # None
    PROVE  \/ active' # None /\ active' >= active
           \/ active' = None /\ transaction = "restored"
           \/ active' = Bundled /\ ui = "serve" /\ lost
<1> USE DEF IInv
<1>0. RecordMoves
  BY StepMoves
<1>1. active \in Nat
  BY ConstantsAssumption DEF TypeOK, Maybe
<1>2. CASE active' = active
  BY <1>1, <1>2
<1>3. CASE active' = Bundled /\ active = Bundled
  BY <1>1, <1>3
<1>4. CASE active' = install.release /\ job = "stage"
  <2>1. pending = install.release /\ install.release \in Releases
    BY <1>4 DEF InstallsWhatIsPending, Installed, OneRecordWriter, Installing
  <2>2. active' = pending /\ pending # None /\ pending \in Nat
    BY <1>4, <2>1, ConstantsAssumption
  <2> QED BY <1>1, <2>2 DEF Records
<1> QED BY <1>0, <1>2, <1>3, <1>4 DEF RecordMoves

\* Nothing takes the active release back to an older one, but the installation
\* of the bundled release for a page, after a load has deleted the record that
\* a twice interrupted activation left without a backup (version comparison of
\* select_github_knowledge_update and discover_knowledge_update;
\* _recover_interrupted_activation; ensure_minimal_knowledge_release).
THEOREM NewerUnlessLost == Spec => NoDowngrade
<1>1. IInv /\ [Next]_vars =>
        [active # None => \/ active' # None /\ active' >= active
                          \/ active' = None /\ transaction = "restored"
                          \/ active' = Bundled /\ ui = "serve" /\ lost]_vars
  BY StepUpgrades
<1> QED BY <1>1, Invariant, PTL DEF Spec, NoDowngrade
=============================================================================
