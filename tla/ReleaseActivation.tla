-------------------------- MODULE ReleaseActivation --------------------------
(***************************************************************************)
(* Installing a knowledge release: the file-by-file activation protocol of *)
(* knowledge_release.py, its rollback and its recovery after a crash.      *)
(*                                                                         *)
(* An installer thread stages a build in a private directory and then,     *)
(* holding the process-wide _ACTIVE_RELEASE_LOCK, moves corpus and index   *)
(* into their final places with a transaction file on disk.  Every step    *)
(* that touches the disk is an action here; at any of them an exception    *)
(* may be raised (Fault) or the process may die (Crash), with the step     *)
(* half done.  Any later load of the active release first recovers.        *)
(***************************************************************************)
EXTENDS Naturals

CONSTANTS
    Builds,           \* complete staged installations, distinct in content
    ReleaseIds,       \* knowledge_release_id values
    ReleaseOf,        \* the release id each build carries
    None,             \* no such file
    Absent,           \* no such directory
    Partial,          \* a file or directory that is there but incomplete
    MaxInterruptions, \* bound on faults and crashes per transaction file
    RestoreMayFail    \* may a rollback's own file operations raise?

ASSUME ConstantsAssumption ==
    /\ ReleaseOf \in [Builds -> ReleaseIds]
    /\ None \notin Builds /\ Absent \notin Builds /\ Partial \notin Builds
    /\ None # Absent /\ None # Partial /\ Absent # Partial
    /\ MaxInterruptions \in Nat
    /\ RestoreMayFail \in BOOLEAN

Kinds == {"corpus", "index"}
Places == Kinds \X ReleaseIds
Content == Builds \cup {Absent, Partial}
Record == Builds \cup {None, Partial}

VARIABLES
    final,        \* <data>/{corpus,index}/<id>
    pending,      \* <data>/{corpus,index}/.<id>.pending
    backup,       \* <data>/{corpus,index}/.<id>.backup
    active,       \* active-release.json
    activeBackup, \* .active-release.json.backup
    tx,           \* the activation transaction file: the target build
    pc,           \* next step of the thread that holds the lock, or "idle"
    cur,          \* the build that thread is activating
    had,          \* had_final_corpus_dir, had_final_index_dir
    staged,       \* builds whose installers wait for the lock
    used,         \* builds ever staged
    interruptions \* faults and crashes charged to the current transaction

dirs == <<final, pending, backup>>
files == <<active, activeBackup, tx>>
proc == <<cur, had, staged, used, interruptions>>
vars == <<final, pending, backup, active, activeBackup, tx, pc, cur, had,
          staged, used, interruptions>>

PreTrySteps == {"clearPending", "clearBackup", "stage", "copyActive", "writeTx"}
TrySteps == {"backupCorpus", "backupIndex", "promoteCorpus", "promoteIndex",
             "commit"}
UndoSteps == {"undoCorpus", "undoIndex", "undoActive"}
FinallySteps == {"sweepPending", "sweepBackup", "forget", "endTx"}
RecoverySteps == {"recDropBackup", "recCorpus", "recIndex", "recActive",
                  "recPending", "recForget", "recEndTx"}
Steps == PreTrySteps \cup TrySteps \cup UndoSteps \cup FinallySteps
            \cup RecoverySteps

TypeOK ==
    /\ final \in [Places -> Content]
    /\ pending \in [Places -> Content]
    /\ backup \in [Places -> Content]
    /\ active \in Record
    /\ activeBackup \in Record
    /\ tx \in Builds \cup {None}
    /\ pc \in Steps \cup {"idle"}
    /\ cur \in Builds \cup {None}
    /\ had \in [Kinds -> BOOLEAN]
    /\ staged \subseteq used
    /\ used \subseteq Builds
    /\ interruptions \in 0 .. MaxInterruptions
    /\ cur # None <=> pc \in Steps \ RecoverySteps
    /\ pc \in RecoverySteps => tx # None

-----------------------------------------------------------------------------
(* Directories *)

\* d with the pair of release r replaced.
Put(d, r, corpus, index) ==
    [d EXCEPT ![<<"corpus", r>>] = corpus, ![<<"index", r>>] = index]

\* shutil.rmtree of both directories of r.
Removed(d, r) == Put(d, r, Absent, Absent)

Gnawed(c) == IF c = Absent THEN Absent ELSE Partial

\* What an interrupted removal of both directories of r leaves.
HalfRemoved(d, r) ==
    {Put(d, r, Gnawed(d[<<"corpus", r>>]), d[<<"index", r>>]),
     Put(d, r, Absent, d[<<"index", r>>]),
     Put(d, r, Absent, Gnawed(d[<<"index", r>>]))}

\* What an interrupted copy of b into both directories of r leaves.
HalfCopied(d, r, b) ==
    {Put(d, r, Partial, Absent), Put(d, r, b, Absent), Put(d, r, b, Partial)}

\* The pair of build b is in place.
Complete(b) == \A k \in Kinds : final[<<k, ReleaseOf[b]>>] = b

\* _recover_interrupted_activation's test: the target is the active record
\* and both of its directories exist.
Committed ==
    /\ active = tx
    /\ \A k \in Kinds : final[<<k, ReleaseOf[tx]>>] # Absent

-----------------------------------------------------------------------------
(* Initial state: an empty data directory. *)

Init ==
    /\ final = [p \in Places |-> Absent]
    /\ pending = [p \in Places |-> Absent]
    /\ backup = [p \in Places |-> Absent]
    /\ active = None
    /\ activeBackup = None
    /\ tx = None
    /\ pc = "idle"
    /\ cur = None
    /\ had = [k \in Kinds |-> FALSE]
    /\ staged = {}
    /\ used = {}
    /\ interruptions = 0

-----------------------------------------------------------------------------
(* Installer threads outside the lock. *)

\* install_knowledge_release up to its staging directory: the release is
\* verified and the active record is loaded under the lock, which returns
\* only once no interrupted activation is left to recover.
BeginInstall(b) ==
    /\ pc = "idle" /\ tx = None
    /\ b \notin used
    /\ used' = used \cup {b}
    /\ staged' = staged \cup {b}
    /\ UNCHANGED <<dirs, files, pc, cur, had, interruptions>>

\* Staging fails: the signature of the private copy, the index build, the
\* compatibility check or the progress callback raised.
AbandonStaging(b) ==
    /\ b \in staged
    /\ staged' = staged \ {b}
    /\ UNCHANGED <<dirs, files, pc, cur, had, used, interruptions>>

\* Mutant: an installer waits until the last transaction has been recovered.
AcquireAfterRecovery(b) ==
    /\ pc = "idle" /\ tx = None
    /\ b \in staged
    /\ pc' = "clearPending"
    /\ cur' = b
    /\ had' = [k \in Kinds |-> final[<<k, ReleaseOf[b]>>] # Absent]
    /\ staged' = staged \ {b}
    /\ UNCHANGED <<dirs, files, used, interruptions>>

\* The installer gets the lock and enters _activate_staged_release.  It does
\* not look for a transaction file an earlier installer may have left.
Acquire(b) ==
    /\ pc = "idle"
    /\ b \in staged
    /\ pc' = "clearPending"
    /\ cur' = b
    /\ had' = [k \in Kinds |-> final[<<k, ReleaseOf[b]>>] # Absent]
    /\ staged' = staged \ {b}
    /\ UNCHANGED <<dirs, files, used, interruptions>>

-----------------------------------------------------------------------------
(* _activate_staged_release, by the thread that holds the lock. *)

Step(from, to) == pc = from /\ pc' = to

ClearPending ==
    /\ Step("clearPending", "clearBackup")
    /\ pending' = Removed(pending, ReleaseOf[cur])
    /\ UNCHANGED <<final, backup, files, proc>>

\* Mutant: a backup an interrupted activation has left is not cleared.
KeepBackup == Step("clearBackup", "stage") /\ UNCHANGED <<dirs, files, proc>>

ClearBackup ==
    /\ Step("clearBackup", "stage")
    /\ backup' = Removed(backup, ReleaseOf[cur])
    /\ UNCHANGED <<final, pending, files, proc>>

CopyToPending ==
    /\ Step("stage", "copyActive")
    /\ pending' = Put(pending, ReleaseOf[cur], cur, cur)
    /\ UNCHANGED <<final, backup, files, proc>>

\* Without an active record no backup is kept.
CopyActive ==
    /\ Step("copyActive", "writeTx")
    /\ activeBackup' = active
    /\ UNCHANGED <<dirs, active, tx, proc>>

WriteTransaction ==
    /\ Step("writeTx", "backupCorpus")
    /\ tx' = cur
    /\ interruptions' = 0
    /\ UNCHANGED <<dirs, active, activeBackup, cur, had, staged, used>>

\* Mutant: the final directory is removed instead of renamed.
DiscardFinal(k) ==
    /\ final' = [final EXCEPT ![<<k, ReleaseOf[cur]>>] = Absent]
    /\ UNCHANGED <<pending, backup, files, proc>>

\* Renaming a final directory to its backup, if there is one.
BackupFinal(k) ==
    LET p == <<k, ReleaseOf[cur]>> IN
    /\ \/ /\ final[p] # Absent
          /\ backup' = [backup EXCEPT ![p] = final[p]]
          /\ final' = [final EXCEPT ![p] = Absent]
       \/ /\ final[p] = Absent
          /\ UNCHANGED <<final, backup>>
    /\ UNCHANGED <<pending, files, proc>>

BackupCorpus == Step("backupCorpus", "backupIndex") /\ BackupFinal("corpus")
BackupIndex == Step("backupIndex", "promoteCorpus") /\ BackupFinal("index")

\* Renaming a pending directory to its final place.
Promote(k) ==
    LET p == <<k, ReleaseOf[cur]>> IN
    /\ final' = [final EXCEPT ![p] = pending[p]]
    /\ pending' = [pending EXCEPT ![p] = Absent]
    /\ UNCHANGED <<backup, files, proc>>

PromoteCorpus == Step("promoteCorpus", "promoteIndex") /\ Promote("corpus")
PromoteIndex == Step("promoteIndex", "commit") /\ Promote("index")

\* Writing active-release.json: the commit point.
CommitActive ==
    /\ Step("commit", "sweepPending")
    /\ active' = cur
    /\ UNCHANGED <<dirs, activeBackup, tx, proc>>

-----------------------------------------------------------------------------
(* Its except clause. *)

\* _restore_directory_backup of one directory.  Without a backup, a
\* directory that was there before the activation is preserved.
RestoreDirectory(p, preserve) ==
    /\ \/ /\ backup[p] # Absent
          /\ final' = [final EXCEPT ![p] = backup[p]]
          /\ backup' = [backup EXCEPT ![p] = Absent]
       \/ /\ backup[p] = Absent /\ ~preserve
          /\ final' = [final EXCEPT ![p] = Absent]
          /\ UNCHANGED backup
       \/ /\ backup[p] = Absent /\ preserve
          /\ UNCHANGED <<final, backup>>
    /\ UNCHANGED <<pending, files, proc>>

UndoCorpus ==
    /\ Step("undoCorpus", "undoIndex")
    /\ RestoreDirectory(<<"corpus", ReleaseOf[cur]>>, had["corpus"])

UndoIndex ==
    /\ Step("undoIndex", "undoActive")
    /\ RestoreDirectory(<<"index", ReleaseOf[cur]>>, had["index"])

\* Mutant: the active record is deleted although there is a backup of it.
DeleteActive ==
    /\ active' = None
    /\ activeBackup' = None
    /\ UNCHANGED <<dirs, tx, proc>>

\* Renaming the backup over the active record uses the backup up.
RestoreActive ==
    /\ active' = activeBackup
    /\ activeBackup' = None
    /\ UNCHANGED <<dirs, tx, proc>>

UndoActive == Step("undoActive", "sweepPending") /\ RestoreActive

-----------------------------------------------------------------------------
(* Its finally clause, after a commit and after a rollback. *)

SweepPending ==
    /\ Step("sweepPending", "sweepBackup")
    /\ pending' = Removed(pending, ReleaseOf[cur])
    /\ UNCHANGED <<final, backup, files, proc>>

SweepBackup ==
    /\ Step("sweepBackup", "forget")
    /\ backup' = Removed(backup, ReleaseOf[cur])
    /\ UNCHANGED <<final, pending, files, proc>>

ForgetActiveBackup ==
    /\ Step("forget", "endTx")
    /\ activeBackup' = None
    /\ UNCHANGED <<dirs, active, tx, proc>>

EndTransaction ==
    /\ Step("endTx", "idle")
    /\ tx' = None
    /\ cur' = None
    /\ interruptions' = 0
    /\ UNCHANGED <<dirs, active, activeBackup, had, staged, used>>

-----------------------------------------------------------------------------
(* _recover_interrupted_activation, at the start of every locked load. *)

StartRecovery ==
    /\ pc = "idle" /\ tx # None
    /\ pc' = IF Committed THEN "recDropBackup" ELSE "recCorpus"
    /\ UNCHANGED <<dirs, files, proc>>

RecoverDropBackup ==
    /\ Step("recDropBackup", "recPending")
    /\ backup' = Removed(backup, ReleaseOf[tx])
    /\ UNCHANGED <<final, pending, files, proc>>

\* A missing backup means the final directory was never moved.
RecoverCorpus ==
    /\ Step("recCorpus", "recIndex")
    /\ RestoreDirectory(<<"corpus", ReleaseOf[tx]>>, TRUE)

\* Mutant: recovery deletes an index that has no backup.
DeleteIndex ==
    /\ Step("recIndex", "recActive")
    /\ RestoreDirectory(<<"index", ReleaseOf[tx]>>, FALSE)

RecoverIndex ==
    /\ Step("recIndex", "recActive")
    /\ RestoreDirectory(<<"index", ReleaseOf[tx]>>, TRUE)

\* Without a backup the active record is deleted.
RecoverActive == Step("recActive", "recPending") /\ RestoreActive

RecoverPending ==
    /\ Step("recPending", "recForget")
    /\ pending' = Removed(pending, ReleaseOf[tx])
    /\ UNCHANGED <<final, backup, files, proc>>

RecoverForget ==
    /\ Step("recForget", "recEndTx")
    /\ activeBackup' = None
    /\ UNCHANGED <<dirs, active, tx, proc>>

RecoverEnd ==
    /\ Step("recEndTx", "idle")
    /\ tx' = None
    /\ interruptions' = 0
    /\ UNCHANGED <<dirs, active, activeBackup, cur, had, staged, used>>

-----------------------------------------------------------------------------
(* Interruptions *)

\* The disk after the step at pc stopped half way.  Renames, unlinks and the
\* atomic JSON writes are all or nothing; removals and copies are not.
HalfDone ==
    \/ UNCHANGED <<dirs, activeBackup>>
    \/ /\ pc \in {"clearPending", "sweepPending"}
       /\ pending' \in HalfRemoved(pending, ReleaseOf[cur])
       /\ UNCHANGED <<final, backup, activeBackup>>
    \/ /\ pc \in {"clearBackup", "sweepBackup"}
       /\ backup' \in HalfRemoved(backup, ReleaseOf[cur])
       /\ UNCHANGED <<final, pending, activeBackup>>
    \/ /\ pc = "stage"
       /\ pending' \in HalfCopied(pending, ReleaseOf[cur], cur)
       /\ UNCHANGED <<final, backup, activeBackup>>
    \/ /\ pc = "copyActive"
       /\ activeBackup' \in {None, IF active = None THEN None ELSE Partial}
       /\ UNCHANGED dirs
    \/ \E k \in Kinds :
         LET p == <<k, ReleaseOf[IF pc \in UndoSteps THEN cur ELSE tx]>> IN
         /\ pc \in IF k = "corpus" THEN {"undoCorpus", "recCorpus"}
                                   ELSE {"undoIndex", "recIndex"}
         /\ backup[p] # Absent \/ (pc \in UndoSteps /\ ~had[k])
         /\ final' \in {[final EXCEPT ![p] = c] : c \in {Absent, Gnawed(final[p])}}
         /\ UNCHANGED <<pending, backup, activeBackup>>
    \/ /\ pc = "recDropBackup"
       /\ backup' \in HalfRemoved(backup, ReleaseOf[tx])
       /\ UNCHANGED <<final, pending, activeBackup>>
    \/ /\ pc = "recPending"
       /\ pending' \in HalfRemoved(pending, ReleaseOf[tx])
       /\ UNCHANGED <<final, backup, activeBackup>>

\* An exception in the step at pc.  Before the try statement, in its finally
\* clause and in recovery it ends the call and releases the lock; in the try
\* body it starts the rollback; in the rollback it still runs the finally
\* clause.
Fault ==
    /\ interruptions < MaxInterruptions
    /\ interruptions' = interruptions + 1
    /\ HalfDone
    /\ \/ /\ pc \in PreTrySteps \cup FinallySteps \cup RecoverySteps
          /\ pc' = "idle"
          /\ cur' = None
       \/ /\ pc \in TrySteps
          /\ pc' = "undoCorpus"
          /\ UNCHANGED cur
       \/ /\ pc \in UndoSteps
          /\ RestoreMayFail
          /\ pc' = "sweepPending"
          /\ UNCHANGED cur
    /\ UNCHANGED <<active, tx, had, staged, used>>

\* The process dies and is started again: the lock and every installer are
\* gone, the disk stays as it is.
Crash ==
    /\ interruptions < MaxInterruptions
    /\ interruptions' = interruptions + 1
    /\ HalfDone
    /\ pc' = "idle"
    /\ cur' = None
    /\ staged' = {}
    /\ UNCHANGED <<active, tx, had, used>>

-----------------------------------------------------------------------------

Activation ==
    \/ ClearPending \/ ClearBackup \/ CopyToPending \/ CopyActive
    \/ WriteTransaction \/ BackupCorpus \/ BackupIndex \/ PromoteCorpus
    \/ PromoteIndex \/ CommitActive

Rollback == UndoCorpus \/ UndoIndex \/ UndoActive

Finally == SweepPending \/ SweepBackup \/ ForgetActiveBackup \/ EndTransaction

Recovery ==
    \/ RecoverDropBackup \/ RecoverCorpus \/ RecoverIndex \/ RecoverActive
    \/ RecoverPending \/ RecoverForget \/ RecoverEnd

\* The thread that holds the lock runs on.
HolderStep == Activation \/ Rollback \/ Finally \/ Recovery

Next ==
    \/ \E b \in Builds : BeginInstall(b) \/ AbandonStaging(b) \/ Acquire(b)
    \/ HolderStep
    \/ StartRecovery
    \/ Fault
    \/ Crash

Spec == Init /\ [][Next]_vars

\* The lock holder is a running thread, and a waiting installer gets a lock
\* that stays free.  Nothing obliges anyone to load or to install.
Fairness ==
    /\ WF_vars(HolderStep)
    /\ \A b \in Builds : WF_vars(Acquire(b))

FairSpec == Spec /\ Fairness

-----------------------------------------------------------------------------
(* Properties *)

\* The outcome of the activation on record is settled by the code that runs.
OutcomeWritten ==
    pc \in FinallySteps \cup {"recPending", "recForget", "recEndTx"}

\* The build a load returns if nothing else happens first: recovery reverts
\* an activation that has not committed to the backup of the active record.
Visible == IF tx = None \/ Committed \/ OutcomeWritten THEN active ELSE activeBackup

\* Installations that can still take effect.
Offered ==
    staged \cup IF pc \in PreTrySteps \cup TrySteps THEN {cur} ELSE {}

\* A question never reads a corpus of one build with the index of another, or
\* one that is partly written: whenever the lock is free and nothing is left
\* to recover, the active record's corpus and index are exactly its build's.
PairConsistent ==
    pc = "idle" /\ tx = None /\ active \in Builds => Complete(active)

\* Directory k of build b is whole, in the backup place a rollback of tx
\* would restore it from, or else in its final place.
Survives(b, k) ==
    LET p == <<k, ReleaseOf[b]>> IN
    IF ReleaseOf[b] = ReleaseOf[tx] /\ backup[p] # Absent
    THEN backup[p] = b
    ELSE final[p] = b

\* The old build can always be put back: at every step of an activation that
\* has not committed, and after any interruption of it, the backup of the
\* active record names a build of which both directories survive.
OldBuildRecoverable ==
    tx # None /\ ~Committed /\ ~OutcomeWritten /\ activeBackup \in Builds =>
        \A k \in Kinds : Survives(activeBackup, k)

\* An activation is atomic and durable: seen through loads, the active
\* release changes in one step to a build on offer, and is never lost.
Atomic == INSTANCE ActiveRelease WITH
    current <- Visible, offered <- Offered, seen <- used
AtomicSpec == Atomic!Spec

\* docs/architecture.md: an activation failure "leaves the prior usable pair
\* active and queryable".  Once a release is active, some release stays so.
PriorReleaseKept == [][Visible # None => Visible' # None]_vars

\* An installer that waits for the lock is not kept waiting for ever, whatever
\* failures leave the lock holder's work unfinished.
InstallersGetLock == \A b \in Builds : b \in staged ~> b \notin staged

-----------------------------------------------------------------------------
(* The inductive invariant behind PairConsistent.  It needs ~RestoreMayFail. *)

Whole(b) == b \in Builds => Complete(b)

\* The directories a rollback of tx would restore are gone.
NoBackupOf(b) == \A k \in Kinds : backup[<<k, ReleaseOf[b]>>] = Absent

\* Who works on which transaction.
TxOwner ==
    /\ pc \in TrySteps \cup UndoSteps \cup FinallySteps => tx = cur
    /\ pc = "recDropBackup" => active = tx
    /\ pc \in {"recCorpus", "recIndex", "recActive"} => active # tx

\* A build is offered once: one that waits, or has not committed, is on no
\* record, and a build on record has been used up.
Freshness ==
    /\ active \in used \cup {None, Partial}
    /\ activeBackup \in used \cup {None, Partial}
    /\ tx \in used \cup {None}
    /\ cur \in used \cup {None}
    /\ active \notin staged /\ activeBackup \notin staged
    /\ tx \notin staged /\ cur \notin staged
    /\ pc \in PreTrySteps => cur # tx
    /\ pc \in PreTrySteps \cup TrySteps \cup UndoSteps =>
           cur # active /\ cur # activeBackup
    /\ tx # None /\ activeBackup = tx => active = tx

\* What the directories hold as the activation proceeds.
Progress ==
    /\ pc \in {"copyActive", "writeTx", "backupCorpus", "backupIndex",
              "promoteCorpus"} => \A k \in Kinds : pending[<<k, ReleaseOf[cur]>>] = cur
    /\ pc \in {"stage", "copyActive", "writeTx", "backupCorpus"} => NoBackupOf(cur)
    /\ pc = "writeTx" => activeBackup = active
    /\ pc = "backupIndex" => backup[<<"index", ReleaseOf[cur]>>] = Absent
    /\ pc \in {"backupIndex", "promoteCorpus"} =>
           final[<<"corpus", ReleaseOf[cur]>>] = Absent
    /\ pc \in {"promoteCorpus", "promoteIndex"} =>
           final[<<"index", ReleaseOf[cur]>>] = Absent
    /\ pc = "promoteIndex" =>
           /\ pending[<<"index", ReleaseOf[cur]>>] = cur
           /\ final[<<"corpus", ReleaseOf[cur]>>] = cur
    /\ pc = "commit" => Complete(cur)
    /\ pc \in {"undoIndex", "undoActive"} => backup[<<"corpus", ReleaseOf[cur]>>] = Absent
    /\ pc = "undoActive" => backup[<<"index", ReleaseOf[cur]>>] = Absent
    /\ pc \in {"recIndex", "recActive"} => backup[<<"corpus", ReleaseOf[tx]>>] = Absent
    /\ pc = "recActive" => backup[<<"index", ReleaseOf[tx]>>] = Absent

\* had_final_corpus_dir and had_final_index_dir protect the old pair.
HadOld ==
    \A k \in Kinds :
        /\ pc \in PreTrySteps /\ active \in Builds
              /\ ReleaseOf[active] = ReleaseOf[cur] => had[k]
        /\ pc \in TrySteps \cup UndoSteps /\ activeBackup \in Builds
              /\ ReleaseOf[activeBackup] = ReleaseOf[cur] => had[k]

\* Once an activation is over, and in a process that has loaded the record
\* before, the active pair is whole and no stale backup can undo it.
Settled ==
    /\ tx = None \/ active = tx \/ OutcomeWritten => Whole(active)
    /\ OutcomeWritten /\ active # tx => activeBackup = None
    /\ pc \in FinallySteps /\ active # tx => NoBackupOf(tx)
    /\ \/ pc \in PreTrySteps
       \/ pc \in {"idle"} \cup RecoverySteps /\ staged # {}
       => /\ Whole(active)
          /\ tx # None /\ active # tx => NoBackupOf(tx)

Inductive ==
    /\ TypeOK
    /\ TxOwner
    /\ Freshness
    /\ Progress
    /\ HadOld
    /\ Settled
    /\ OldBuildRecoverable
=============================================================================
