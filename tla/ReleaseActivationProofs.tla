----------------------- MODULE ReleaseActivationProofs -----------------------
(***************************************************************************)
(* Proofs about ReleaseActivation, for any builds, releases and number of  *)
(* interruptions: its types are right, and, when a rollback's own file     *)
(* operations do not fail, no question ever reads a mixed corpus and index *)
(* and the old build can be put back at every step.                        *)
(***************************************************************************)
EXTENDS ReleaseActivation, TLAPS

-----------------------------------------------------------------------------
(* Directory updates *)

LEMMA PutLemma ==
    ASSUME NEW d \in [Places -> Content], NEW r \in ReleaseIds,
           NEW c \in Content, NEW i \in Content
    PROVE  /\ Put(d, r, c, i) \in [Places -> Content]
           /\ Put(d, r, c, i)[<<"corpus", r>>] = c
           /\ Put(d, r, c, i)[<<"index", r>>] = i
           /\ c = i => \A k \in Kinds : Put(d, r, c, i)[<<k, r>>] = c
           /\ \A k \in Kinds, s \in ReleaseIds :
                 s # r => Put(d, r, c, i)[<<k, s>>] = d[<<k, s>>]
BY DEF Put, Places, Kinds

LEMMA RemovedLemma ==
    ASSUME NEW d \in [Places -> Content], NEW r \in ReleaseIds
    PROVE  /\ Removed(d, r) \in [Places -> Content]
           /\ \A k \in Kinds : Removed(d, r)[<<k, r>>] = Absent
           /\ \A k \in Kinds, s \in ReleaseIds :
                 /\ s # r => Removed(d, r)[<<k, s>>] = d[<<k, s>>]
                 /\ d[<<k, s>>] = Absent => Removed(d, r)[<<k, s>>] = Absent
BY DEF Removed, Put, Places, Kinds, Content

\* An interrupted removal leaves no new build behind, and nothing where there
\* was nothing.
LEMMA HalfRemovedLemma ==
    ASSUME NEW d \in [Places -> Content], NEW r \in ReleaseIds,
           NEW e \in HalfRemoved(d, r)
    PROVE  /\ e \in [Places -> Content]
           /\ \A k \in Kinds : d[<<k, r>>] = Absent => e[<<k, r>>] = Absent
           /\ \A k \in Kinds, s \in ReleaseIds :
                 s # r => e[<<k, s>>] = d[<<k, s>>]
<1>1. /\ <<"corpus", r>> \in Places /\ <<"index", r>> \in Places
      /\ d[<<"corpus", r>>] \in Content /\ d[<<"index", r>>] \in Content
  BY DEF Places, Kinds
<1>2. /\ Gnawed(d[<<"corpus", r>>]) \in Content /\ Gnawed(d[<<"index", r>>]) \in Content
      /\ Absent \in Content
      /\ Gnawed(Absent) = Absent
  BY DEF Gnawed, Content
<1>3. CASE e = Put(d, r, Gnawed(d[<<"corpus", r>>]), d[<<"index", r>>])
  BY <1>1, <1>2, <1>3 DEF Put, Places, Kinds, Content
<1>4. CASE e = Put(d, r, Absent, d[<<"index", r>>])
  BY <1>1, <1>2, <1>4 DEF Put, Places, Kinds, Content
<1>5. CASE e = Put(d, r, Absent, Gnawed(d[<<"index", r>>]))
  BY <1>1, <1>2, <1>5 DEF Put, Places, Kinds, Content
<1> QED
  BY <1>3, <1>4, <1>5 DEF HalfRemoved

LEMMA HalfCopiedLemma ==
    ASSUME NEW d \in [Places -> Content], NEW r \in ReleaseIds,
           NEW b \in Builds, NEW e \in HalfCopied(d, r, b)
    PROVE  e \in [Places -> Content]
BY DEF HalfCopied, Put, Places, Kinds, Content

-----------------------------------------------------------------------------
(* Types *)

LEMMA InitType == Init => TypeOK
BY ConstantsAssumption
   DEF Init, TypeOK, Content, Record, Places, Kinds, Steps, PreTrySteps, TrySteps,
       UndoSteps, FinallySteps, RecoverySteps

LEMMA ReleaseType ==
    ASSUME TypeOK
    PROVE  /\ pc \in Steps \ RecoverySteps =>
                cur \in Builds /\ ReleaseOf[cur] \in ReleaseIds
           /\ pc \in RecoverySteps => tx \in Builds /\ ReleaseOf[tx] \in ReleaseIds
BY ConstantsAssumption DEF TypeOK

\* The steps of the thread that holds the lock.
LEMMA HolderType ==
    ASSUME TypeOK, HolderStep
    PROVE  TypeOK'
<1> USE ConstantsAssumption, ReleaseType DEF TypeOK, Steps, PreTrySteps, TrySteps,
        UndoSteps, FinallySteps, RecoverySteps, Step, dirs, files, proc
<1>1. CASE ClearPending
  BY <1>1, RemovedLemma DEF ClearPending
<1>2. CASE ClearBackup
  BY <1>2, RemovedLemma DEF ClearBackup
<1>3. CASE CopyToPending
  BY <1>3, PutLemma DEF CopyToPending, Content
<1>4. CASE CopyActive
  BY <1>4 DEF CopyActive
<1>5. CASE WriteTransaction
  BY <1>5 DEF WriteTransaction
<1>6. CASE BackupCorpus \/ BackupIndex
  BY <1>6 DEF BackupCorpus, BackupIndex, BackupFinal, Content, Places, Kinds
<1>7. CASE PromoteCorpus \/ PromoteIndex
  BY <1>7 DEF PromoteCorpus, PromoteIndex, Promote, Content, Places, Kinds
<1>8. CASE CommitActive
  BY <1>8 DEF CommitActive, Record
<1>9. CASE UndoCorpus \/ UndoIndex
  BY <1>9 DEF UndoCorpus, UndoIndex, RestoreDirectory, Content, Places, Kinds
<1>10. CASE UndoActive \/ RecoverActive
  BY <1>10 DEF UndoActive, RecoverActive, RestoreActive, Record
<1>11. CASE SweepPending \/ RecoverPending
  BY <1>11, RemovedLemma DEF SweepPending, RecoverPending
<1>12. CASE SweepBackup \/ RecoverDropBackup
  BY <1>12, RemovedLemma DEF SweepBackup, RecoverDropBackup
<1>13. CASE ForgetActiveBackup \/ RecoverForget
  BY <1>13 DEF ForgetActiveBackup, RecoverForget, Record
<1>14. CASE EndTransaction \/ RecoverEnd
  BY <1>14 DEF EndTransaction, RecoverEnd
<1>15. CASE RecoverCorpus \/ RecoverIndex
  BY <1>15 DEF RecoverCorpus, RecoverIndex, RestoreDirectory, Content, Places, Kinds
<1> QED
  BY <1>1, <1>2, <1>3, <1>4, <1>5, <1>6, <1>7, <1>8, <1>9, <1>10, <1>11, <1>12,
     <1>13, <1>14, <1>15 DEF HolderStep, Activation, Rollback, Finally, Recovery

\* What an interrupted step leaves on disk.
LEMMA HalfDoneType ==
    ASSUME TypeOK, HalfDone
    PROVE  /\ final' \in [Places -> Content]
           /\ pending' \in [Places -> Content]
           /\ backup' \in [Places -> Content]
           /\ activeBackup' \in Record
<1> USE ConstantsAssumption, ReleaseType DEF TypeOK, Steps, PreTrySteps,
        TrySteps, UndoSteps, FinallySteps, RecoverySteps, dirs
<1>1. CASE UNCHANGED <<dirs, activeBackup>>
  BY <1>1
<1>2. CASE /\ pc \in {"clearPending", "sweepPending"}
           /\ pending' \in HalfRemoved(pending, ReleaseOf[cur])
           /\ UNCHANGED <<final, backup, activeBackup>>
  BY <1>2, HalfRemovedLemma
<1>3. CASE /\ pc \in {"clearBackup", "sweepBackup"}
           /\ backup' \in HalfRemoved(backup, ReleaseOf[cur])
           /\ UNCHANGED <<final, pending, activeBackup>>
  BY <1>3, HalfRemovedLemma
<1>4. CASE /\ pc = "stage"
           /\ pending' \in HalfCopied(pending, ReleaseOf[cur], cur)
           /\ UNCHANGED <<final, backup, activeBackup>>
  BY <1>4, HalfCopiedLemma
<1>5. CASE /\ pc = "copyActive"
           /\ activeBackup' \in {None, IF active = None THEN None ELSE Partial}
           /\ UNCHANGED dirs
  BY <1>5 DEF Record
<1>6. ASSUME NEW k \in Kinds, NEW p, NEW c \in {Absent, Gnawed(final[p])},
             final' = [final EXCEPT ![p] = c],
             UNCHANGED <<pending, backup, activeBackup>>
      PROVE  /\ final' \in [Places -> Content]
             /\ pending' \in [Places -> Content]
             /\ backup' \in [Places -> Content]
             /\ activeBackup' \in Record
  BY <1>6 DEF Gnawed, Content
<1>7. CASE /\ pc = "recDropBackup"
           /\ backup' \in HalfRemoved(backup, ReleaseOf[tx])
           /\ UNCHANGED <<final, pending, activeBackup>>
  BY <1>7, HalfRemovedLemma
<1>8. CASE /\ pc = "recPending"
           /\ pending' \in HalfRemoved(pending, ReleaseOf[tx])
           /\ UNCHANGED <<final, backup, activeBackup>>
  BY <1>8, HalfRemovedLemma
<1> HIDE DEF TypeOK, Steps, PreTrySteps, TrySteps, UndoSteps, FinallySteps,
        RecoverySteps
<1> QED
  BY <1>1, <1>2, <1>3, <1>4, <1>5, <1>6, <1>7, <1>8 DEF HalfDone

LEMMA NextType ==
    ASSUME TypeOK, [Next]_vars
    PROVE  TypeOK'
<1>1. CASE HolderStep
  BY <1>1, HolderType
<1>2. ASSUME NEW b \in Builds, BeginInstall(b) \/ AbandonStaging(b) \/ Acquire(b)
      PROVE  TypeOK'
  BY <1>2, ConstantsAssumption
     DEF BeginInstall, AbandonStaging, Acquire, TypeOK, Steps, PreTrySteps,
         TrySteps, UndoSteps, FinallySteps, RecoverySteps, dirs, files
<1>3. CASE StartRecovery
  BY <1>3 DEF StartRecovery, TypeOK, Steps, PreTrySteps, TrySteps, UndoSteps,
         FinallySteps, RecoverySteps, dirs, files, proc
<1>4. CASE Fault
  BY <1>4, HalfDoneType, ConstantsAssumption
     DEF Fault, TypeOK, Steps, PreTrySteps, TrySteps, UndoSteps, FinallySteps,
         RecoverySteps
<1>5. CASE Crash
  BY <1>5, HalfDoneType, ConstantsAssumption
     DEF Crash, TypeOK, Steps, PreTrySteps, TrySteps, UndoSteps, FinallySteps,
         RecoverySteps
<1>6. CASE UNCHANGED vars
  BY <1>6 DEF vars, TypeOK
<1> QED
  BY <1>1, <1>2, <1>3, <1>4, <1>5, <1>6 DEF Next

\* The file contents, the lock holder's step and its build are always of
\* their types: cur is set exactly while an activation runs, and recovery
\* always has a transaction file to recover.
THEOREM TypeCorrect == Spec => []TypeOK
BY InitType, NextType, PTL DEF Spec

-----------------------------------------------------------------------------
(* The inductive invariant *)

\* The committed test of the recovery looks at the directories too; here the
\* record alone decides.
LEMMA CommittedLemma ==
    ASSUME TypeOK, Settled, tx # None
    PROVE  Committed <=> active = tx
BY ConstantsAssumption DEF TypeOK, Settled, Whole, Complete, Committed

\* The old build while nothing has settled the activation.
LEMMA OldLemma ==
    ASSUME Inductive, tx # None, active # tx, ~OutcomeWritten,
           activeBackup \in Builds, NEW k \in Kinds
    PROVE  Survives(activeBackup, k)
BY CommittedLemma DEF Inductive, OldBuildRecoverable

LEMMA NoBackupLemma ==
    ASSUME TypeOK, NEW r \in ReleaseIds, backup' = Removed(backup, r)
    PROVE  /\ tx' \in Builds /\ tx' = tx /\ NoBackupOf(tx) => NoBackupOf(tx)'
           /\ cur' \in Builds /\ cur' = cur /\ r = ReleaseOf[cur] => NoBackupOf(cur)'
           /\ tx' \in Builds /\ tx' = tx /\ r = ReleaseOf[tx] => NoBackupOf(tx)'
BY ConstantsAssumption, RemovedLemma DEF TypeOK, NoBackupOf

LEMMA InitInductive == Init => Inductive
BY InitType, ConstantsAssumption
   DEF Init, Inductive, TxOwner, Freshness, Progress, HadOld, Settled,
       OldBuildRecoverable, Whole, OutcomeWritten, PreTrySteps, TrySteps,
       UndoSteps, FinallySteps, RecoverySteps

\* The body of _activate_staged_release.
LEMMA ActivationInductive ==
    ASSUME Inductive, TypeOK', Activation
    PROVE  Inductive'
<1> USE ConstantsAssumption, ReleaseType, CommittedLemma DEF Inductive, PreTrySteps, TrySteps,
        UndoSteps, FinallySteps, RecoverySteps, Step, dirs, files, proc
<1>1. CASE ClearPending
  <2>1. TxOwner' /\ Freshness'
    BY <1>1, RemovedLemma
       DEF ClearPending, TypeOK, TxOwner, Freshness, OutcomeWritten
  <2>2. Progress' /\ HadOld'
    BY <1>1, RemovedLemma
       DEF ClearPending, TypeOK, TxOwner, Freshness, Progress, HadOld, Settled,
           Whole, Complete, NoBackupOf, Kinds, Places, Content
  <2>3. Settled'
    BY <1>1, RemovedLemma
       DEF ClearPending, TypeOK, TxOwner, Freshness, Progress, Settled, OutcomeWritten,
           OldBuildRecoverable, Survives, Whole, Complete, NoBackupOf, Kinds, Places
  <2>4. OldBuildRecoverable'
    BY <1>1, RemovedLemma
       DEF ClearPending, TypeOK, TxOwner, Freshness, Progress, HadOld, Settled, OutcomeWritten,
           OldBuildRecoverable, Survives, Whole, Complete, NoBackupOf, Kinds, Places, Committed
  <2> QED
    BY <2>1, <2>2, <2>3, <2>4
<1>2. CASE ClearBackup
  <2>1. TxOwner' /\ Freshness'
    BY <1>2, RemovedLemma
       DEF ClearBackup, TypeOK, TxOwner, Freshness, OutcomeWritten
  <2>2. Progress' /\ HadOld'
    <3>1. NoBackupOf(cur)'
      BY <1>2, NoBackupLemma DEF ClearBackup, TypeOK
    <3> QED
      BY <1>2, <3>1 DEF ClearBackup, Progress, HadOld
  <2>3. Settled'
    <3>1. tx # None /\ NoBackupOf(tx) => NoBackupOf(tx)'
      BY <1>2, NoBackupLemma DEF ClearBackup, TypeOK
    <3> QED
      BY <1>2, <3>1 DEF ClearBackup, TypeOK, TxOwner, Settled, OutcomeWritten, Whole, Complete
  <2>4. OldBuildRecoverable'
    <3>1. /\ tx' = tx /\ activeBackup' = activeBackup /\ active' = active
          /\ ~OutcomeWritten /\ final' = final
      BY <1>2 DEF ClearBackup, OutcomeWritten
    <3> SUFFICES ASSUME tx # None, active # tx, activeBackup \in Builds,
                        NEW k \in Kinds
                 PROVE  Survives(activeBackup, k)'
      BY <1>2, <3>1 DEF OldBuildRecoverable, Committed, Settled, Whole, Complete, TypeOK
    <3>2. Survives(activeBackup, k)
      BY <3>1, OldLemma
    <3>3. NoBackupOf(tx) /\ NoBackupOf(tx)'
      BY <1>2, NoBackupLemma DEF ClearBackup, TypeOK, Settled
    <3> QED
      BY <3>1, <3>2, <3>3 DEF Survives, NoBackupOf, TypeOK
  <2> QED
    BY <2>1, <2>2, <2>3, <2>4
<1>3. CASE CopyToPending
  <2>1. TxOwner' /\ Freshness'
    BY <1>3, PutLemma
       DEF CopyToPending, TypeOK, TxOwner, Freshness, OutcomeWritten
  <2>2. Progress' /\ HadOld'
    <3>1. \A k \in Kinds : pending'[<<k, ReleaseOf[cur]>>] = cur
      <4>1. /\ pending \in [Places -> Content]
            /\ ReleaseOf[cur] \in ReleaseIds /\ cur \in Content
            /\ pending' = Put(pending, ReleaseOf[cur], cur, cur)
        BY <1>3 DEF CopyToPending, TypeOK, Content, Steps
      <4> QED
        BY <4>1 DEF Put, Places, Kinds
    <3> QED
      BY <1>3, <3>1 DEF CopyToPending, Progress, HadOld, NoBackupOf
  <2>3. Settled'
    BY <1>3, PutLemma
       DEF CopyToPending, TypeOK, TxOwner, Freshness, Progress, Settled, OutcomeWritten,
           OldBuildRecoverable, Survives, Whole, Complete, NoBackupOf, Kinds, Places
  <2>4. OldBuildRecoverable'
    BY <1>3, PutLemma
       DEF CopyToPending, TypeOK, TxOwner, Freshness, Progress, HadOld, Settled, OutcomeWritten,
           OldBuildRecoverable, Survives, Whole, Complete, NoBackupOf, Kinds, Places, Committed
  <2> QED
    BY <2>1, <2>2, <2>3, <2>4
<1>4. CASE CopyActive
  <2>1. TxOwner' /\ Freshness'
    BY <1>4
       DEF CopyActive, TypeOK, TxOwner, Freshness, OutcomeWritten
  <2>2. Progress' /\ HadOld'
    BY <1>4
       DEF CopyActive, TypeOK, TxOwner, Freshness, Progress, HadOld, Settled,
           Whole, Complete, NoBackupOf, Kinds, Places, Content
  <2>3. Settled'
    BY <1>4
       DEF CopyActive, TypeOK, TxOwner, Freshness, Progress, Settled, OutcomeWritten,
           OldBuildRecoverable, Survives, Whole, Complete, NoBackupOf, Kinds, Places
  <2>4. OldBuildRecoverable'
    BY <1>4
       DEF CopyActive, TypeOK, TxOwner, Freshness, Progress, HadOld, Settled, OutcomeWritten,
           OldBuildRecoverable, Survives, Whole, Complete, NoBackupOf, Kinds, Places, Committed
  <2> QED
    BY <2>1, <2>2, <2>3, <2>4
<1>5. CASE WriteTransaction
  <2>1. TxOwner' /\ Freshness'
    BY <1>5
       DEF WriteTransaction, TypeOK, TxOwner, Freshness, OutcomeWritten
  <2>2. Progress' /\ HadOld'
    BY <1>5
       DEF WriteTransaction, TypeOK, TxOwner, Freshness, Progress, HadOld, Settled,
           Whole, Complete, NoBackupOf, Kinds, Places, Content
  <2>3. Settled'
    BY <1>5
       DEF WriteTransaction, TypeOK, TxOwner, Freshness, Progress, Settled, OutcomeWritten,
           OldBuildRecoverable, Survives, Whole, Complete, NoBackupOf, Kinds, Places
  <2>4. OldBuildRecoverable'
    BY <1>5
       DEF WriteTransaction, TypeOK, TxOwner, Freshness, Progress, HadOld, Settled, OutcomeWritten,
           OldBuildRecoverable, Survives, Whole, Complete, NoBackupOf, Kinds, Places, Committed
  <2> QED
    BY <2>1, <2>2, <2>3, <2>4
<1>6. CASE BackupCorpus
  <2>1. TxOwner' /\ Freshness'
    BY <1>6
       DEF BackupCorpus, BackupFinal, TypeOK, TxOwner, Freshness, OutcomeWritten
  <2>2. Progress' /\ HadOld'
    BY <1>6
       DEF BackupCorpus, BackupFinal, TypeOK, TxOwner, Freshness, Progress, HadOld, Settled,
           Whole, Complete, NoBackupOf, Kinds, Places, Content
  <2>3. Settled'
    BY <1>6
       DEF BackupCorpus, BackupFinal, TypeOK, TxOwner, Freshness, Progress, Settled, OutcomeWritten,
           OldBuildRecoverable, Survives, Whole, Complete, NoBackupOf, Kinds, Places
  <2>4. OldBuildRecoverable'
    <3>1. /\ tx' = tx /\ tx \in Builds /\ activeBackup' = activeBackup
          /\ active' = active /\ tx = cur /\ active # tx /\ ~OutcomeWritten
      BY <1>6 DEF BackupCorpus, BackupFinal, TypeOK, TxOwner, Freshness, OutcomeWritten
    <3> SUFFICES ASSUME activeBackup \in Builds, NEW k \in Kinds
                 PROVE  Survives(activeBackup, k)'
      BY <3>1 DEF OldBuildRecoverable
    <3>2. Survives(activeBackup, k) /\ activeBackup # cur
      BY <1>6, <3>1, OldLemma DEF BackupCorpus, BackupFinal, Freshness
    <3>3. /\ <<k, ReleaseOf[activeBackup]>> \in Places
          /\ <<"corpus", ReleaseOf[cur]>> \in Places
      BY <3>1 DEF Places, Kinds
    <3>4. CASE <<k, ReleaseOf[activeBackup]>> = <<"corpus", ReleaseOf[cur]>>
      BY <1>6, <3>1, <3>2, <3>3, <3>4
         DEF BackupCorpus, BackupFinal, Survives, TypeOK, Progress, NoBackupOf, Kinds
    <3>5. CASE <<k, ReleaseOf[activeBackup]>> # <<"corpus", ReleaseOf[cur]>>
      BY <1>6, <3>1, <3>2, <3>3, <3>5 DEF BackupCorpus, BackupFinal, Survives, TypeOK
    <3> QED
      BY <3>4, <3>5
  <2> QED
    BY <2>1, <2>2, <2>3, <2>4
<1>7. CASE BackupIndex
  <2>1. TxOwner' /\ Freshness'
    BY <1>7
       DEF BackupIndex, BackupFinal, TypeOK, TxOwner, Freshness, OutcomeWritten
  <2>2. Progress' /\ HadOld'
    BY <1>7
       DEF BackupIndex, BackupFinal, TypeOK, TxOwner, Freshness, Progress, HadOld, Settled,
           Whole, Complete, NoBackupOf, Kinds, Places, Content
  <2>3. Settled'
    BY <1>7
       DEF BackupIndex, BackupFinal, TypeOK, TxOwner, Freshness, Progress, Settled, OutcomeWritten,
           OldBuildRecoverable, Survives, Whole, Complete, NoBackupOf, Kinds, Places
  <2>4. OldBuildRecoverable'
    <3>1. /\ tx' = tx /\ tx \in Builds /\ activeBackup' = activeBackup
          /\ active' = active /\ tx = cur /\ active # tx /\ ~OutcomeWritten
      BY <1>7 DEF BackupIndex, BackupFinal, TypeOK, TxOwner, Freshness, OutcomeWritten
    <3> SUFFICES ASSUME activeBackup \in Builds, NEW k \in Kinds
                 PROVE  Survives(activeBackup, k)'
      BY <3>1 DEF OldBuildRecoverable
    <3>2. Survives(activeBackup, k) /\ activeBackup # cur
      BY <1>7, <3>1, OldLemma DEF BackupIndex, BackupFinal, Freshness
    <3>3. /\ <<k, ReleaseOf[activeBackup]>> \in Places
          /\ <<"index", ReleaseOf[cur]>> \in Places
      BY <3>1 DEF Places, Kinds
    <3>4. CASE <<k, ReleaseOf[activeBackup]>> = <<"index", ReleaseOf[cur]>>
      BY <1>7, <3>1, <3>2, <3>3, <3>4
         DEF BackupIndex, BackupFinal, Survives, TypeOK, Progress, NoBackupOf, Kinds
    <3>5. CASE <<k, ReleaseOf[activeBackup]>> # <<"index", ReleaseOf[cur]>>
      BY <1>7, <3>1, <3>2, <3>3, <3>5 DEF BackupIndex, BackupFinal, Survives, TypeOK
    <3> QED
      BY <3>4, <3>5
  <2> QED
    BY <2>1, <2>2, <2>3, <2>4
<1>8. CASE PromoteCorpus
  <2>1. TxOwner' /\ Freshness'
    BY <1>8
       DEF PromoteCorpus, Promote, TypeOK, TxOwner, Freshness, OutcomeWritten
  <2>2. Progress' /\ HadOld'
    BY <1>8
       DEF PromoteCorpus, Promote, TypeOK, TxOwner, Freshness, Progress, HadOld, Settled,
           Whole, Complete, NoBackupOf, Kinds, Places, Content
  <2>3. Settled'
    BY <1>8
       DEF PromoteCorpus, Promote, TypeOK, TxOwner, Freshness, Progress, Settled, OutcomeWritten,
           OldBuildRecoverable, Survives, Whole, Complete, NoBackupOf, Kinds, Places
  <2>4. OldBuildRecoverable'
    <3>1. /\ tx' = tx /\ tx \in Builds /\ activeBackup' = activeBackup
          /\ active' = active /\ tx = cur /\ active # tx /\ ~OutcomeWritten
      BY <1>8 DEF PromoteCorpus, Promote, TypeOK, TxOwner, Freshness, OutcomeWritten
    <3> SUFFICES ASSUME activeBackup \in Builds, NEW k \in Kinds
                 PROVE  Survives(activeBackup, k)'
      BY <3>1 DEF OldBuildRecoverable
    <3>2. Survives(activeBackup, k) /\ activeBackup # cur
      BY <1>8, <3>1, OldLemma DEF PromoteCorpus, Promote, Freshness
    <3>3. /\ <<k, ReleaseOf[activeBackup]>> \in Places
          /\ <<"corpus", ReleaseOf[cur]>> \in Places
      BY <3>1 DEF Places, Kinds
    <3>4. CASE <<k, ReleaseOf[activeBackup]>> = <<"corpus", ReleaseOf[cur]>>
      BY <1>8, <3>1, <3>2, <3>3, <3>4
         DEF PromoteCorpus, Promote, Survives, TypeOK, Progress, NoBackupOf, Kinds
    <3>5. CASE <<k, ReleaseOf[activeBackup]>> # <<"corpus", ReleaseOf[cur]>>
      BY <1>8, <3>1, <3>2, <3>3, <3>5 DEF PromoteCorpus, Promote, Survives, TypeOK
    <3> QED
      BY <3>4, <3>5
  <2> QED
    BY <2>1, <2>2, <2>3, <2>4
<1>9. CASE PromoteIndex
  <2>1. TxOwner' /\ Freshness'
    BY <1>9
       DEF PromoteIndex, Promote, TypeOK, TxOwner, Freshness, OutcomeWritten
  <2>2. Progress' /\ HadOld'
    BY <1>9
       DEF PromoteIndex, Promote, TypeOK, TxOwner, Freshness, Progress, HadOld, Settled,
           Whole, Complete, NoBackupOf, Kinds, Places, Content
  <2>3. Settled'
    BY <1>9
       DEF PromoteIndex, Promote, TypeOK, TxOwner, Freshness, Progress, Settled, OutcomeWritten,
           OldBuildRecoverable, Survives, Whole, Complete, NoBackupOf, Kinds, Places
  <2>4. OldBuildRecoverable'
    <3>1. /\ tx' = tx /\ tx \in Builds /\ activeBackup' = activeBackup
          /\ active' = active /\ tx = cur /\ active # tx /\ ~OutcomeWritten
      BY <1>9 DEF PromoteIndex, Promote, TypeOK, TxOwner, Freshness, OutcomeWritten
    <3> SUFFICES ASSUME activeBackup \in Builds, NEW k \in Kinds
                 PROVE  Survives(activeBackup, k)'
      BY <3>1 DEF OldBuildRecoverable
    <3>2. Survives(activeBackup, k) /\ activeBackup # cur
      BY <1>9, <3>1, OldLemma DEF PromoteIndex, Promote, Freshness
    <3>3. /\ <<k, ReleaseOf[activeBackup]>> \in Places
          /\ <<"index", ReleaseOf[cur]>> \in Places
      BY <3>1 DEF Places, Kinds
    <3>4. CASE <<k, ReleaseOf[activeBackup]>> = <<"index", ReleaseOf[cur]>>
      BY <1>9, <3>1, <3>2, <3>3, <3>4
         DEF PromoteIndex, Promote, Survives, TypeOK, Progress, NoBackupOf, Kinds
    <3>5. CASE <<k, ReleaseOf[activeBackup]>> # <<"index", ReleaseOf[cur]>>
      BY <1>9, <3>1, <3>2, <3>3, <3>5 DEF PromoteIndex, Promote, Survives, TypeOK
    <3> QED
      BY <3>4, <3>5
  <2> QED
    BY <2>1, <2>2, <2>3, <2>4
<1>10. CASE CommitActive
  <2>1. TxOwner' /\ Freshness'
    BY <1>10
       DEF CommitActive, TypeOK, TxOwner, Freshness, OutcomeWritten
  <2>2. Progress' /\ HadOld'
    BY <1>10
       DEF CommitActive, TypeOK, TxOwner, Freshness, Progress, HadOld, Settled,
           Whole, Complete, NoBackupOf, Kinds, Places, Content
  <2>3. Settled'
    BY <1>10
       DEF CommitActive, TypeOK, TxOwner, Freshness, Progress, Settled, OutcomeWritten,
           OldBuildRecoverable, Survives, Whole, Complete, NoBackupOf, Kinds, Places
  <2>4. OldBuildRecoverable'
    BY <1>10
       DEF CommitActive, TypeOK, TxOwner, Freshness, Progress, HadOld, Settled, OutcomeWritten,
           OldBuildRecoverable, Survives, Whole, Complete, NoBackupOf, Kinds, Places, Committed
  <2> QED
    BY <2>1, <2>2, <2>3, <2>4
<1> QED
  BY <1>1, <1>2, <1>3, <1>4, <1>5, <1>6, <1>7, <1>8, <1>9, <1>10 DEF Activation

\* Its except and finally clauses.
LEMMA RollbackInductive ==
    ASSUME Inductive, TypeOK', Rollback \/ Finally
    PROVE  Inductive'
<1> USE ConstantsAssumption, ReleaseType, CommittedLemma DEF Inductive, PreTrySteps, TrySteps,
        UndoSteps, FinallySteps, RecoverySteps, Step, dirs, files, proc
<1>1. CASE UndoCorpus
  <2>1. TxOwner' /\ Freshness'
    BY <1>1
       DEF UndoCorpus, RestoreDirectory, TypeOK, TxOwner, Freshness, OutcomeWritten
  <2>2. Progress' /\ HadOld'
    BY <1>1
       DEF UndoCorpus, RestoreDirectory, TypeOK, TxOwner, Freshness, Progress, HadOld, Settled,
           Whole, Complete, NoBackupOf, Kinds, Places, Content
  <2>3. Settled'
    BY <1>1
       DEF UndoCorpus, RestoreDirectory, TypeOK, TxOwner, Freshness, Progress, Settled, OutcomeWritten,
           OldBuildRecoverable, Survives, Whole, Complete, NoBackupOf, Kinds, Places
  <2>4. OldBuildRecoverable'
    <3>1. /\ tx' = tx /\ tx \in Builds /\ activeBackup' = activeBackup
          /\ active' = active /\ tx = cur /\ active # tx /\ ~OutcomeWritten
      BY <1>1 DEF UndoCorpus, RestoreDirectory, TypeOK, TxOwner, Freshness, OutcomeWritten
    <3> SUFFICES ASSUME activeBackup \in Builds, NEW k \in Kinds
                 PROVE  Survives(activeBackup, k)'
      BY <3>1 DEF OldBuildRecoverable
    <3>2. Survives(activeBackup, k) /\ activeBackup # cur
      BY <1>1, <3>1, OldLemma DEF UndoCorpus, RestoreDirectory, Freshness
    <3> QED
      BY <1>1, <3>1, <3>2 DEF UndoCorpus, RestoreDirectory, Survives, TypeOK, Progress, HadOld, Kinds, Places
  <2> QED
    BY <2>1, <2>2, <2>3, <2>4
<1>2. CASE UndoIndex
  <2>1. TxOwner' /\ Freshness'
    BY <1>2
       DEF UndoIndex, RestoreDirectory, TypeOK, TxOwner, Freshness, OutcomeWritten
  <2>2. Progress' /\ HadOld'
    BY <1>2
       DEF UndoIndex, RestoreDirectory, TypeOK, TxOwner, Freshness, Progress, HadOld, Settled,
           Whole, Complete, NoBackupOf, Kinds, Places, Content
  <2>3. Settled'
    BY <1>2
       DEF UndoIndex, RestoreDirectory, TypeOK, TxOwner, Freshness, Progress, Settled, OutcomeWritten,
           OldBuildRecoverable, Survives, Whole, Complete, NoBackupOf, Kinds, Places
  <2>4. OldBuildRecoverable'
    <3>1. /\ tx' = tx /\ tx \in Builds /\ activeBackup' = activeBackup
          /\ active' = active /\ tx = cur /\ active # tx /\ ~OutcomeWritten
      BY <1>2 DEF UndoIndex, RestoreDirectory, TypeOK, TxOwner, Freshness, OutcomeWritten
    <3> SUFFICES ASSUME activeBackup \in Builds, NEW k \in Kinds
                 PROVE  Survives(activeBackup, k)'
      BY <3>1 DEF OldBuildRecoverable
    <3>2. Survives(activeBackup, k) /\ activeBackup # cur
      BY <1>2, <3>1, OldLemma DEF UndoIndex, RestoreDirectory, Freshness
    <3> QED
      BY <1>2, <3>1, <3>2 DEF UndoIndex, RestoreDirectory, Survives, TypeOK, Progress, HadOld, Kinds, Places
  <2> QED
    BY <2>1, <2>2, <2>3, <2>4
<1>3. CASE UndoActive
  <2>1. TxOwner' /\ Freshness'
    BY <1>3
       DEF UndoActive, RestoreActive, TypeOK, TxOwner, Freshness, OutcomeWritten
  <2>2. Progress' /\ HadOld'
    BY <1>3
       DEF UndoActive, RestoreActive, TypeOK, TxOwner, Freshness, Progress, HadOld, Settled,
           Whole, Complete, NoBackupOf, Kinds, Places, Content
  <2>3. Settled'
    BY <1>3
       DEF UndoActive, RestoreActive, TypeOK, TxOwner, Freshness, Progress, Settled, OutcomeWritten,
           OldBuildRecoverable, Survives, Whole, Complete, NoBackupOf, Kinds, Places
  <2>4. OldBuildRecoverable'
    BY <1>3
       DEF UndoActive, RestoreActive, TypeOK, TxOwner, Freshness, Progress, HadOld, Settled, OutcomeWritten,
           OldBuildRecoverable, Survives, Whole, Complete, NoBackupOf, Kinds, Places, Committed
  <2> QED
    BY <2>1, <2>2, <2>3, <2>4
<1>4. CASE SweepPending
  <2>1. TxOwner' /\ Freshness'
    BY <1>4, RemovedLemma
       DEF SweepPending, TypeOK, TxOwner, Freshness, OutcomeWritten
  <2>2. Progress' /\ HadOld'
    BY <1>4, RemovedLemma
       DEF SweepPending, TypeOK, TxOwner, Freshness, Progress, HadOld, Settled,
           Whole, Complete, NoBackupOf, Kinds, Places, Content
  <2>3. Settled'
    BY <1>4, RemovedLemma
       DEF SweepPending, TypeOK, TxOwner, Freshness, Progress, Settled, OutcomeWritten,
           OldBuildRecoverable, Survives, Whole, Complete, NoBackupOf, Kinds, Places
  <2>4. OldBuildRecoverable'
    BY <1>4, RemovedLemma
       DEF SweepPending, TypeOK, TxOwner, Freshness, Progress, HadOld, Settled, OutcomeWritten,
           OldBuildRecoverable, Survives, Whole, Complete, NoBackupOf, Kinds, Places, Committed
  <2> QED
    BY <2>1, <2>2, <2>3, <2>4
<1>5. CASE SweepBackup
  <2>1. TxOwner' /\ Freshness'
    BY <1>5, RemovedLemma
       DEF SweepBackup, TypeOK, TxOwner, Freshness, OutcomeWritten
  <2>2. Progress' /\ HadOld'
    BY <1>5, RemovedLemma
       DEF SweepBackup, TypeOK, TxOwner, Freshness, Progress, HadOld, Settled,
           Whole, Complete, NoBackupOf, Kinds, Places, Content
  <2>3. Settled'
    <3>1. tx # None /\ NoBackupOf(tx) => NoBackupOf(tx)'
      BY <1>5, NoBackupLemma DEF SweepBackup, TypeOK
    <3> QED
      BY <1>5, <3>1 DEF SweepBackup, TypeOK, TxOwner, Settled, OutcomeWritten, Whole, Complete
  <2>4. OldBuildRecoverable'
    BY <1>5, RemovedLemma
       DEF SweepBackup, TypeOK, TxOwner, Freshness, Progress, HadOld, Settled, OutcomeWritten,
           OldBuildRecoverable, Survives, Whole, Complete, NoBackupOf, Kinds, Places, Committed
  <2> QED
    BY <2>1, <2>2, <2>3, <2>4
<1>6. CASE ForgetActiveBackup
  <2>1. TxOwner' /\ Freshness'
    BY <1>6
       DEF ForgetActiveBackup, TypeOK, TxOwner, Freshness, OutcomeWritten
  <2>2. Progress' /\ HadOld'
    BY <1>6
       DEF ForgetActiveBackup, TypeOK, TxOwner, Freshness, Progress, HadOld, Settled,
           Whole, Complete, NoBackupOf, Kinds, Places, Content
  <2>3. Settled'
    BY <1>6
       DEF ForgetActiveBackup, TypeOK, TxOwner, Freshness, Progress, Settled, OutcomeWritten,
           OldBuildRecoverable, Survives, Whole, Complete, NoBackupOf, Kinds, Places
  <2>4. OldBuildRecoverable'
    BY <1>6
       DEF ForgetActiveBackup, TypeOK, TxOwner, Freshness, Progress, HadOld, Settled, OutcomeWritten,
           OldBuildRecoverable, Survives, Whole, Complete, NoBackupOf, Kinds, Places, Committed
  <2> QED
    BY <2>1, <2>2, <2>3, <2>4
<1>7. CASE EndTransaction
  <2>1. TxOwner' /\ Freshness'
    BY <1>7
       DEF EndTransaction, TypeOK, TxOwner, Freshness, OutcomeWritten
  <2>2. Progress' /\ HadOld'
    BY <1>7
       DEF EndTransaction, TypeOK, TxOwner, Freshness, Progress, HadOld, Settled,
           Whole, Complete, NoBackupOf, Kinds, Places, Content
  <2>3. Settled'
    BY <1>7
       DEF EndTransaction, TypeOK, TxOwner, Freshness, Progress, Settled, OutcomeWritten,
           OldBuildRecoverable, Survives, Whole, Complete, NoBackupOf, Kinds, Places
  <2>4. OldBuildRecoverable'
    BY <1>7
       DEF EndTransaction, TypeOK, TxOwner, Freshness, Progress, HadOld, Settled, OutcomeWritten,
           OldBuildRecoverable, Survives, Whole, Complete, NoBackupOf, Kinds, Places, Committed
  <2> QED
    BY <2>1, <2>2, <2>3, <2>4
<1> QED
  BY <1>1, <1>2, <1>3, <1>4, <1>5, <1>6, <1>7 DEF Rollback, Finally

\* _recover_interrupted_activation.
LEMMA RecoveryInductive ==
    ASSUME Inductive, TypeOK', StartRecovery \/ Recovery
    PROVE  Inductive'
<1> USE ConstantsAssumption, ReleaseType, CommittedLemma DEF Inductive, PreTrySteps, TrySteps,
        UndoSteps, FinallySteps, RecoverySteps, Step, dirs, files, proc
<1>1. CASE StartRecovery
  <2>1. TxOwner' /\ Freshness'
    BY <1>1
       DEF StartRecovery, TypeOK, TxOwner, Freshness, OutcomeWritten
  <2>2. Progress' /\ HadOld'
    BY <1>1
       DEF StartRecovery, TypeOK, TxOwner, Freshness, Progress, HadOld, Settled,
           Whole, Complete, NoBackupOf, Kinds, Places, Content
  <2>3. Settled'
    BY <1>1
       DEF StartRecovery, TypeOK, TxOwner, Freshness, Progress, Settled, OutcomeWritten,
           OldBuildRecoverable, Survives, Whole, Complete, NoBackupOf, Kinds, Places
  <2>4. OldBuildRecoverable'
    BY <1>1
       DEF StartRecovery, TypeOK, TxOwner, Freshness, Progress, HadOld, Settled, OutcomeWritten,
           OldBuildRecoverable, Survives, Whole, Complete, NoBackupOf, Kinds, Places, Committed
  <2> QED
    BY <2>1, <2>2, <2>3, <2>4
<1>2. CASE RecoverDropBackup
  <2>1. TxOwner' /\ Freshness'
    BY <1>2, RemovedLemma
       DEF RecoverDropBackup, TypeOK, TxOwner, Freshness, OutcomeWritten
  <2>2. Progress' /\ HadOld'
    BY <1>2, RemovedLemma
       DEF RecoverDropBackup, TypeOK, TxOwner, Freshness, Progress, HadOld, Settled,
           Whole, Complete, NoBackupOf, Kinds, Places, Content
  <2>3. Settled'
    BY <1>2, RemovedLemma
       DEF RecoverDropBackup, TypeOK, TxOwner, Freshness, Progress, Settled, OutcomeWritten,
           OldBuildRecoverable, Survives, Whole, Complete, NoBackupOf, Kinds, Places
  <2>4. OldBuildRecoverable'
    BY <1>2, RemovedLemma
       DEF RecoverDropBackup, TypeOK, TxOwner, Freshness, Progress, HadOld, Settled, OutcomeWritten,
           OldBuildRecoverable, Survives, Whole, Complete, NoBackupOf, Kinds, Places, Committed
  <2> QED
    BY <2>1, <2>2, <2>3, <2>4
<1>3. CASE RecoverCorpus
  <2>1. TxOwner' /\ Freshness'
    BY <1>3
       DEF RecoverCorpus, RestoreDirectory, TypeOK, TxOwner, Freshness, OutcomeWritten
  <2>2. Progress' /\ HadOld'
    BY <1>3
       DEF RecoverCorpus, RestoreDirectory, TypeOK, TxOwner, Freshness, Progress, HadOld, Settled,
           Whole, Complete, NoBackupOf, Kinds, Places, Content
  <2>3. Settled'
    BY <1>3
       DEF RecoverCorpus, RestoreDirectory, TypeOK, TxOwner, Freshness, Progress, Settled, OutcomeWritten,
           OldBuildRecoverable, Survives, Whole, Complete, NoBackupOf, Kinds, Places
  <2>4. OldBuildRecoverable'
    <3>1. /\ tx' = tx /\ tx \in Builds /\ activeBackup' = activeBackup
          /\ active' = active /\ active # tx /\ ~OutcomeWritten
      BY <1>3 DEF RecoverCorpus, RestoreDirectory, TypeOK, TxOwner, Freshness, OutcomeWritten
    <3> SUFFICES ASSUME activeBackup \in Builds, NEW k \in Kinds
                 PROVE  Survives(activeBackup, k)'
      BY <3>1 DEF OldBuildRecoverable
    <3>2. Survives(activeBackup, k)
      BY <1>3, <3>1, OldLemma DEF RecoverCorpus, RestoreDirectory, Freshness
    <3> QED
      BY <1>3, <3>1, <3>2 DEF RecoverCorpus, RestoreDirectory, Survives, TypeOK, Progress, HadOld, Kinds, Places
  <2> QED
    BY <2>1, <2>2, <2>3, <2>4
<1>4. CASE RecoverIndex
  <2>1. TxOwner' /\ Freshness'
    BY <1>4
       DEF RecoverIndex, RestoreDirectory, TypeOK, TxOwner, Freshness, OutcomeWritten
  <2>2. Progress' /\ HadOld'
    BY <1>4
       DEF RecoverIndex, RestoreDirectory, TypeOK, TxOwner, Freshness, Progress, HadOld, Settled,
           Whole, Complete, NoBackupOf, Kinds, Places, Content
  <2>3. Settled'
    BY <1>4
       DEF RecoverIndex, RestoreDirectory, TypeOK, TxOwner, Freshness, Progress, Settled, OutcomeWritten,
           OldBuildRecoverable, Survives, Whole, Complete, NoBackupOf, Kinds, Places
  <2>4. OldBuildRecoverable'
    <3>1. /\ tx' = tx /\ tx \in Builds /\ activeBackup' = activeBackup
          /\ active' = active /\ active # tx /\ ~OutcomeWritten
      BY <1>4 DEF RecoverIndex, RestoreDirectory, TypeOK, TxOwner, Freshness, OutcomeWritten
    <3> SUFFICES ASSUME activeBackup \in Builds, NEW k \in Kinds
                 PROVE  Survives(activeBackup, k)'
      BY <3>1 DEF OldBuildRecoverable
    <3>2. Survives(activeBackup, k)
      BY <1>4, <3>1, OldLemma DEF RecoverIndex, RestoreDirectory, Freshness
    <3> QED
      BY <1>4, <3>1, <3>2 DEF RecoverIndex, RestoreDirectory, Survives, TypeOK, Progress, HadOld, Kinds, Places
  <2> QED
    BY <2>1, <2>2, <2>3, <2>4
<1>5. CASE RecoverActive
  <2>1. TxOwner' /\ Freshness'
    BY <1>5
       DEF RecoverActive, RestoreActive, TypeOK, TxOwner, Freshness, OutcomeWritten
  <2>2. Progress' /\ HadOld'
    BY <1>5
       DEF RecoverActive, RestoreActive, TypeOK, TxOwner, Freshness, Progress, HadOld, Settled,
           Whole, Complete, NoBackupOf, Kinds, Places, Content
  <2>3. Settled'
    BY <1>5
       DEF RecoverActive, RestoreActive, TypeOK, TxOwner, Freshness, Progress, Settled, OutcomeWritten,
           OldBuildRecoverable, Survives, Whole, Complete, NoBackupOf, Kinds, Places
  <2>4. OldBuildRecoverable'
    BY <1>5
       DEF RecoverActive, RestoreActive, TypeOK, TxOwner, Freshness, Progress, HadOld, Settled, OutcomeWritten,
           OldBuildRecoverable, Survives, Whole, Complete, NoBackupOf, Kinds, Places, Committed
  <2> QED
    BY <2>1, <2>2, <2>3, <2>4
<1>6. CASE RecoverPending
  <2>1. TxOwner' /\ Freshness'
    BY <1>6, RemovedLemma
       DEF RecoverPending, TypeOK, TxOwner, Freshness, OutcomeWritten
  <2>2. Progress' /\ HadOld'
    BY <1>6, RemovedLemma
       DEF RecoverPending, TypeOK, TxOwner, Freshness, Progress, HadOld, Settled,
           Whole, Complete, NoBackupOf, Kinds, Places, Content
  <2>3. Settled'
    BY <1>6, RemovedLemma
       DEF RecoverPending, TypeOK, TxOwner, Freshness, Progress, Settled, OutcomeWritten,
           OldBuildRecoverable, Survives, Whole, Complete, NoBackupOf, Kinds, Places
  <2>4. OldBuildRecoverable'
    BY <1>6, RemovedLemma
       DEF RecoverPending, TypeOK, TxOwner, Freshness, Progress, HadOld, Settled, OutcomeWritten,
           OldBuildRecoverable, Survives, Whole, Complete, NoBackupOf, Kinds, Places, Committed
  <2> QED
    BY <2>1, <2>2, <2>3, <2>4
<1>7. CASE RecoverForget
  <2>1. TxOwner' /\ Freshness'
    BY <1>7
       DEF RecoverForget, TypeOK, TxOwner, Freshness, OutcomeWritten
  <2>2. Progress' /\ HadOld'
    BY <1>7
       DEF RecoverForget, TypeOK, TxOwner, Freshness, Progress, HadOld, Settled,
           Whole, Complete, NoBackupOf, Kinds, Places, Content
  <2>3. Settled'
    BY <1>7
       DEF RecoverForget, TypeOK, TxOwner, Freshness, Progress, Settled, OutcomeWritten,
           OldBuildRecoverable, Survives, Whole, Complete, NoBackupOf, Kinds, Places
  <2>4. OldBuildRecoverable'
    BY <1>7
       DEF RecoverForget, TypeOK, TxOwner, Freshness, Progress, HadOld, Settled, OutcomeWritten,
           OldBuildRecoverable, Survives, Whole, Complete, NoBackupOf, Kinds, Places, Committed
  <2> QED
    BY <2>1, <2>2, <2>3, <2>4
<1>8. CASE RecoverEnd
  <2>1. TxOwner' /\ Freshness'
    BY <1>8
       DEF RecoverEnd, TypeOK, TxOwner, Freshness, OutcomeWritten
  <2>2. Progress' /\ HadOld'
    BY <1>8
       DEF RecoverEnd, TypeOK, TxOwner, Freshness, Progress, HadOld, Settled,
           Whole, Complete, NoBackupOf, Kinds, Places, Content
  <2>3. Settled'
    BY <1>8
       DEF RecoverEnd, TypeOK, TxOwner, Freshness, Progress, Settled, OutcomeWritten,
           OldBuildRecoverable, Survives, Whole, Complete, NoBackupOf, Kinds, Places
  <2>4. OldBuildRecoverable'
    BY <1>8
       DEF RecoverEnd, TypeOK, TxOwner, Freshness, Progress, HadOld, Settled, OutcomeWritten,
           OldBuildRecoverable, Survives, Whole, Complete, NoBackupOf, Kinds, Places, Committed
  <2> QED
    BY <2>1, <2>2, <2>3, <2>4
<1> QED
  BY <1>1, <1>2, <1>3, <1>4, <1>5, <1>6, <1>7, <1>8 DEF Recovery

\* What an interrupted step cannot destroy.
LEMMA HalfDoneLemma ==
    ASSUME Inductive, HalfDone, tx' = tx
    PROVE  /\ \/ final' = final
              \/ /\ tx # None /\ active # tx /\ ~OutcomeWritten
                 /\ pc \in UndoSteps \/ ~NoBackupOf(tx)
                 /\ pc \notin PreTrySteps
           /\ \/ activeBackup' = activeBackup
              \/ activeBackup' \in {None, Partial} /\ ~OutcomeWritten
           /\ tx # None /\ NoBackupOf(tx) => NoBackupOf(tx)'
           /\ tx # None /\ active # tx /\ ~OutcomeWritten /\ activeBackup' \in Builds =>
                \A k \in Kinds : Survives(activeBackup, k)'
<1> USE ConstantsAssumption, ReleaseType DEF Inductive, PreTrySteps, TrySteps,
        UndoSteps, FinallySteps, RecoverySteps, dirs
<1> DEFINE Safe ==
        /\ \/ final' = final
           \/ /\ tx # None /\ active # tx /\ ~OutcomeWritten
              /\ pc \in UndoSteps \/ ~NoBackupOf(tx)
              /\ pc \notin PreTrySteps
        /\ \/ activeBackup' = activeBackup
           \/ activeBackup' \in {None, Partial} /\ ~OutcomeWritten
        /\ tx # None /\ NoBackupOf(tx) => NoBackupOf(tx)'
        /\ tx # None /\ active # tx /\ ~OutcomeWritten /\ activeBackup' \in Builds =>
             \A k \in Kinds : Survives(activeBackup, k)'
<1>1. CASE UNCHANGED <<dirs, activeBackup>>
  BY <1>1, OldLemma DEF NoBackupOf, Survives
<1>2. CASE UNCHANGED <<final, backup, activeBackup>>
  BY <1>2, OldLemma DEF NoBackupOf, Survives
<1>3. CASE /\ pc \in {"clearBackup", "sweepBackup"}
           /\ backup' \in HalfRemoved(backup, ReleaseOf[cur])
           /\ UNCHANGED <<final, pending, activeBackup>>
  <2>1. tx # None /\ NoBackupOf(tx) => NoBackupOf(tx)'
    BY <1>3, HalfRemovedLemma DEF TypeOK, NoBackupOf
  <2>2. tx # None /\ active # tx /\ ~OutcomeWritten => NoBackupOf(tx)
    BY <1>3 DEF Settled, OutcomeWritten
  <2> QED
    BY <1>3, <2>1, <2>2, OldLemma DEF NoBackupOf, Survives, TypeOK
<1>4. CASE /\ pc = "copyActive"
           /\ activeBackup' \in {None, IF active = None THEN None ELSE Partial}
           /\ UNCHANGED dirs
  BY <1>4 DEF NoBackupOf, OutcomeWritten
<1>5. ASSUME NEW k \in Kinds,
             LET p == <<k, ReleaseOf[IF pc \in UndoSteps THEN cur ELSE tx]>> IN
             /\ pc \in IF k = "corpus" THEN {"undoCorpus", "recCorpus"}
                                       ELSE {"undoIndex", "recIndex"}
             /\ backup[p] # Absent \/ (pc \in UndoSteps /\ ~had[k])
             /\ final' \in {[final EXCEPT ![p] = c] : c \in {Absent, Gnawed(final[p])}}
             /\ UNCHANGED <<pending, backup, activeBackup>>
      PROVE  Safe
  <2>1. /\ tx \in Builds /\ active # tx /\ ~OutcomeWritten
        /\ pc \in UndoSteps => tx = cur
        /\ pc \notin PreTrySteps
    BY <1>5 DEF TypeOK, TxOwner, Freshness, OutcomeWritten
  <2>2. backup[<<k, ReleaseOf[tx]>>] # Absent \/ (pc \in UndoSteps /\ ~had[k])
    BY <1>5, <2>1
  <2>3. PICK c : final' = [final EXCEPT ![<<k, ReleaseOf[tx]>>] = c]
    BY <1>5, <2>1
  <2>4. ASSUME activeBackup \in Builds, NEW j \in Kinds
        PROVE  Survives(activeBackup, j)'
    <3>1. Survives(activeBackup, j)
      BY <2>1, <2>4, OldLemma
    <3>2. CASE <<j, ReleaseOf[activeBackup]>> = <<k, ReleaseOf[tx]>>
      BY <1>5, <2>1, <2>2, <2>4, <3>1, <3>2 DEF Survives, HadOld
    <3>3. CASE <<j, ReleaseOf[activeBackup]>> # <<k, ReleaseOf[tx]>>
      BY <1>5, <2>1, <2>3, <2>4, <3>1, <3>3 DEF Survives, TypeOK, Places
    <3> QED
      BY <3>2, <3>3
  <2> QED
    BY <1>5, <2>1, <2>2, <2>4 DEF NoBackupOf
<1>6. CASE /\ pc = "recDropBackup"
           /\ backup' \in HalfRemoved(backup, ReleaseOf[tx])
           /\ UNCHANGED <<final, pending, activeBackup>>
  BY <1>6, HalfRemovedLemma DEF TypeOK, TxOwner, NoBackupOf
<1> QED
  BY <1>1, <1>2, <1>3, <1>4, <1>5, <1>6 DEF HalfDone

LEMMA CrashInductive ==
    ASSUME Inductive, TypeOK', Crash
    PROVE  Inductive'
<1> USE ConstantsAssumption, HalfDoneLemma, CommittedLemma
    DEF Inductive, Crash, PreTrySteps, TrySteps, UndoSteps, FinallySteps, RecoverySteps
<1>1. TxOwner' /\ Freshness'
  BY DEF TypeOK, TxOwner, Freshness
<1>2. Progress' /\ HadOld'
  BY DEF Progress, HadOld
<1>3. Settled'
  BY DEF TypeOK, Settled, OutcomeWritten, Whole, Complete
<1>4. OldBuildRecoverable'
  BY <1>3 DEF OldBuildRecoverable, Committed, Settled, OutcomeWritten, Whole,
     Complete, TypeOK
<1> QED
  BY <1>1, <1>2, <1>3, <1>4

LEMMA FaultInductive ==
    ASSUME Inductive, TypeOK', Fault, ~RestoreMayFail \/ pc \notin UndoSteps
    PROVE  Inductive'
<1> USE ConstantsAssumption, HalfDoneLemma, CommittedLemma
    DEF Inductive, Fault, PreTrySteps, TrySteps, UndoSteps, FinallySteps, RecoverySteps
<1>1. TxOwner' /\ Freshness'
  BY DEF TypeOK, TxOwner, Freshness
<1>2. Progress' /\ HadOld'
  BY DEF Progress, HadOld, HalfDone
<1>3. Settled'
  BY DEF TypeOK, Settled, OutcomeWritten, Whole, Complete, TxOwner
<1>4. OldBuildRecoverable'
  BY <1>3 DEF OldBuildRecoverable, Committed, Settled, OutcomeWritten, Whole,
     Complete, TypeOK
<1> QED
  BY <1>1, <1>2, <1>3, <1>4

\* Installers outside the lock.
LEMMA InstallerInductive ==
    ASSUME Inductive, TypeOK', NEW b \in Builds,
           BeginInstall(b) \/ AbandonStaging(b) \/ Acquire(b)
    PROVE  Inductive'
<1> USE ConstantsAssumption, CommittedLemma
    DEF Inductive, BeginInstall, AbandonStaging, Acquire, PreTrySteps, TrySteps,
        UndoSteps, FinallySteps, RecoverySteps, dirs, files
<1>1. TxOwner' /\ Freshness'
  BY DEF TypeOK, TxOwner, Freshness
<1>2. Progress' /\ HadOld'
  <2>1. CASE Acquire(b)
    <3>1. active \in Builds /\ ReleaseOf[active] = ReleaseOf[b] =>
             \A k \in Kinds : final[<<k, ReleaseOf[b]>>] # Absent
      BY <2>1 DEF Settled, Whole, Complete
    <3> QED
      BY <2>1, <3>1 DEF Progress, HadOld
  <2>2. CASE BeginInstall(b) \/ AbandonStaging(b)
    BY <2>2 DEF TypeOK, Progress, HadOld, NoBackupOf, Complete
  <2> QED
    BY <2>1, <2>2
<1>3. Settled'
  BY DEF TypeOK, Settled, OutcomeWritten, Whole, Complete, NoBackupOf
<1>4. OldBuildRecoverable'
  BY DEF OldBuildRecoverable, Survives, Committed, OutcomeWritten
<1> QED
  BY <1>1, <1>2, <1>3, <1>4

LEMMA NextInductive ==
    ASSUME Inductive, [Next]_vars,
           ~RestoreMayFail \/ ~(Fault /\ pc \in UndoSteps)
    PROVE  Inductive'
<1>1. TypeOK'
  BY NextType DEF Inductive
<1>2. CASE HolderStep \/ StartRecovery
  BY <1>1, <1>2, ActivationInductive, RollbackInductive, RecoveryInductive
     DEF HolderStep
<1>3. CASE \E b \in Builds : BeginInstall(b) \/ AbandonStaging(b) \/ Acquire(b)
  BY <1>1, <1>3, InstallerInductive
<1>4. CASE Fault \/ Crash
  BY <1>1, <1>4, FaultInductive, CrashInductive
<1>5. CASE UNCHANGED vars
  BY <1>5 DEF vars, Inductive, TypeOK, TxOwner, Freshness, Progress, HadOld, Settled,
     OldBuildRecoverable, Survives, Whole, Complete, NoBackupOf, Committed,
     OutcomeWritten
<1> QED
  BY <1>2, <1>3, <1>4, <1>5 DEF Next

\* Every state of an activation, of its rollback and of a recovery satisfies
\* the inductive invariant, as long as the file operations of a rollback do
\* not themselves raise.
THEOREM InductiveInvariant ==
    ASSUME ~RestoreMayFail
    PROVE  Spec => []Inductive
BY InitInductive, NextInductive, PTL DEF Spec

\* A question never reads a corpus of one build with the index of another:
\* whatever exceptions and crashes interrupt installations and recoveries, as
\* long as the file operations of a rollback do not themselves raise.
THEOREM PairAlwaysConsistent ==
    ASSUME ~RestoreMayFail
    PROVE  Spec => []PairConsistent
<1>1. Inductive => PairConsistent
  BY DEF Inductive, Settled, Whole, PairConsistent
<1> QED
  BY <1>1, InductiveInvariant, PTL

\* Until an activation commits, both directories of the build it replaces
\* survive, in their backup or their final places.
THEOREM OldBuildAlwaysRecoverable ==
    ASSUME ~RestoreMayFail
    PROVE  Spec => []OldBuildRecoverable
<1>1. Inductive => OldBuildRecoverable
  BY DEF Inductive
<1> QED
  BY <1>1, InductiveInvariant, PTL

-----------------------------------------------------------------------------
(* Seen through loads, an activation is one step. *)

\* With one interruption at most, what is interrupted is a transaction that has
\* committed, or one whose rollback or recovery then comes to its end; and an
\* installer that is still waiting meets only the former.
AtMostOne ==
    /\ \/ pc \in UndoSteps
       \/ pc \in FinallySteps /\ active # tx
       \/ pc \in PreTrySteps \cup RecoverySteps \cup {"idle"} /\ tx # None
       => interruptions = 1
    /\ \/ pc \in PreTrySteps
       \/ pc \in RecoverySteps \cup {"idle"} /\ staged # {}
       => tx = None \/ active = tx

\* What can then still be interrupted.
LEMMA InterruptedOnce ==
    ASSUME MaxInterruptions \in 0 .. 1, Inductive, AtMostOne, Fault \/ Crash
    PROVE  /\ interruptions' = 1
           /\ \/ pc \in TrySteps
              \/ pc \in FinallySteps /\ active = tx
              \/ pc \in PreTrySteps \cup {"idle"} /\ tx = None
<1>1. interruptions < MaxInterruptions /\ interruptions' = interruptions + 1
  BY DEF Fault, Crash
<1>2. interruptions \in Nat
  BY DEF Inductive, TypeOK
<1>3. interruptions = 0 /\ interruptions' = 1
  BY <1>1, <1>2
<1>4. pc \in Steps \cup {"idle"} /\ (pc \in RecoverySteps => tx # None)
  BY DEF Inductive, TypeOK
<1> QED
  BY <1>3, <1>4 DEF AtMostOne, Steps

LEMMA AtMostOneKeeps ==
    ASSUME MaxInterruptions \in 0 .. 1, Inductive, AtMostOne, [Next]_vars
    PROVE  AtMostOne'
<1> USE ConstantsAssumption DEF PreTrySteps, TrySteps, UndoSteps, FinallySteps, RecoverySteps
<1>1. /\ pc \in TrySteps \cup UndoSteps \cup FinallySteps => tx = cur
      /\ pc \in PreTrySteps \cup TrySteps \cup UndoSteps => cur # active
  BY DEF Inductive, TxOwner, Freshness
<1>2. CASE \E b \in Builds : BeginInstall(b) \/ AbandonStaging(b) \/ Acquire(b)
  BY <1>2 DEF BeginInstall, AbandonStaging, Acquire, dirs, files, AtMostOne
<1>3. CASE Activation
  BY <1>1, <1>3 DEF Activation, ClearPending, ClearBackup, CopyToPending, CopyActive,
     WriteTransaction, BackupCorpus, BackupIndex, BackupFinal, PromoteCorpus, PromoteIndex,
     Promote, CommitActive, Step, dirs, files, proc, AtMostOne
<1>4. CASE Rollback
  BY <1>4 DEF Rollback, UndoCorpus, UndoIndex, RestoreDirectory, UndoActive, RestoreActive,
     Step, files, proc, AtMostOne
<1>5. CASE Finally
  BY <1>5 DEF Finally, SweepPending, SweepBackup, ForgetActiveBackup, EndTransaction,
     Step, files, proc, AtMostOne
<1>6. CASE Recovery
  <2>1. pc \in {"recCorpus", "recIndex", "recActive"} => active # tx
    BY DEF Inductive, TxOwner
  <2>2. pc \in RecoverySteps => tx # None
    BY DEF Inductive, TypeOK
  <2> QED
    BY <1>6, <2>1, <2>2 DEF Recovery, RecoverDropBackup, RecoverCorpus, RecoverIndex,
       RestoreDirectory, RecoverActive, RestoreActive, RecoverPending, RecoverForget,
       RecoverEnd, Step, dirs, files, proc, AtMostOne
<1>7. CASE StartRecovery
  BY <1>7 DEF StartRecovery, dirs, files, proc, AtMostOne
<1>8. CASE Fault
  <2>1. interruptions' = 1 /\ UNCHANGED <<active, tx, staged>>
    BY <1>8, InterruptedOnce DEF Fault
  <2>2. pc' = "idle" => tx = None \/ active = tx
    BY <1>8, InterruptedOnce DEF Fault
  <2>3. pc' \in {"idle", "undoCorpus", "sweepPending"}
    BY <1>8 DEF Fault
  <2> QED
    BY <2>1, <2>2, <2>3 DEF AtMostOne
<1>9. CASE Crash
  BY <1>9, InterruptedOnce DEF Crash, AtMostOne
<1>10. CASE UNCHANGED vars
  BY <1>10 DEF vars, proc, AtMostOne
<1> QED
  BY <1>2, <1>3, <1>4, <1>5, <1>6, <1>7, <1>8, <1>9, <1>10 DEF Next, HolderStep

LEMMA OnceKeeps ==
    ASSUME MaxInterruptions \in 0 .. 1, Inductive, AtMostOne, [Next]_vars
    PROVE  Inductive' /\ AtMostOne'
<1>1. ~(Fault /\ pc \in UndoSteps)
  BY InterruptedOnce, ConstantsAssumption
     DEF AtMostOne, PreTrySteps, TrySteps, UndoSteps, FinallySteps
<1> QED
  BY <1>1, NextInductive, AtMostOneKeeps

\* What a load returns, by the record alone.
Shown == IF tx = None \/ active = tx \/ OutcomeWritten THEN active ELSE activeBackup

LEMMA VisibleIs ==
    /\ Inductive => Visible = Shown
    /\ Inductive' => Visible' = Shown'
<1>1. Inductive => Visible = Shown
  BY CommittedLemma DEF Inductive, Visible, Shown
<1>2. ASSUME Inductive' PROVE Visible' = Shown'
  <2>1. tx' = None \/ (Committed' <=> active' = tx')
    BY <1>2, ConstantsAssumption DEF Inductive, TypeOK, Settled, Whole, Complete, Committed
  <2> QED
    BY <2>1 DEF Visible, Shown
<1> QED
  BY <1>1, <1>2

\* The holder of the lock changes what loads return when it commits, and at no
\* other step.
LEMMA HolderAtomic ==
    ASSUME Inductive, AtMostOne, Inductive', HolderStep \/ StartRecovery
    PROVE  \/ \E b \in Builds : Atomic!Activate(b)
           \/ UNCHANGED <<Visible, Offered, used>>
<1> USE ConstantsAssumption DEF PreTrySteps, TrySteps, UndoSteps, FinallySteps, RecoverySteps
<1>1. Visible = Shown /\ Visible' = Shown'
  BY VisibleIs
<1>2. /\ pc \in TrySteps \cup UndoSteps \cup FinallySteps => tx = cur
      /\ pc \in PreTrySteps \cup TrySteps \cup UndoSteps => cur # active
      /\ pc \in PreTrySteps => tx = None \/ active = tx
      /\ pc = "writeTx" => activeBackup = active
      /\ pc \in {"recCorpus", "recIndex", "recActive"} => active # tx
      /\ pc = "recDropBackup" => active = tx
      /\ cur \notin staged
  BY DEF Inductive, TxOwner, Freshness, Progress, AtMostOne
<1>3. CASE CommitActive
  <2>1. pc = "commit" /\ pc' = "sweepPending" /\ active' = cur /\ UNCHANGED <<staged, used>>
    BY <1>3 DEF CommitActive, Step, proc
  <2>2. cur \in Builds
    BY <2>1, ReleaseType DEF Inductive, Steps
  <2>3. Offered = staged \cup {cur} /\ Offered' = staged
    BY <2>1 DEF Offered
  <2>4. Visible' = cur
    BY <1>1, <2>1 DEF Shown, OutcomeWritten
  <2>5. Offered' = Offered \ {cur}
    BY <1>2, <2>3
  <2>6. Atomic!Activate(cur)
    BY <2>1, <2>3, <2>4, <2>5 DEF Atomic!Activate
  <2> QED
    BY <2>2, <2>6
<1>4. CASE (HolderStep \/ StartRecovery) /\ ~CommitActive
  <2>1. UNCHANGED <<staged, used>> /\ Offered' = Offered
    BY <1>2, <1>4 DEF HolderStep, Activation, ClearPending, ClearBackup, CopyToPending, CopyActive,
       WriteTransaction, BackupCorpus, BackupIndex, BackupFinal, PromoteCorpus, PromoteIndex,
       Promote, Rollback, UndoCorpus, UndoIndex, RestoreDirectory, UndoActive, RestoreActive,
       Finally, SweepPending, SweepBackup, ForgetActiveBackup, EndTransaction, Recovery,
       RecoverDropBackup, RecoverCorpus, RecoverIndex, RecoverActive, RecoverPending,
       RecoverForget, RecoverEnd, StartRecovery, Step, dirs, files, proc, Offered
  <2>2. Shown' = Shown
    <3>1. CASE Activation
      BY <1>2, <1>4, <3>1 DEF Activation, ClearPending, ClearBackup, CopyToPending, CopyActive,
         WriteTransaction, BackupCorpus, BackupIndex, BackupFinal, PromoteCorpus,
         PromoteIndex, Promote, Step, dirs, files, proc, Shown, OutcomeWritten
    <3>2. CASE Finally
      BY <1>2, <3>2 DEF Finally, SweepPending, SweepBackup, ForgetActiveBackup, EndTransaction,
         Step, dirs, files, proc, Shown, OutcomeWritten
    <3>3. CASE UndoActive \/ RecoverActive
      <4>1. pc \in {"undoActive", "recActive"} => tx # None
        BY <1>2 DEF Inductive, TypeOK, Steps
      <4> QED
        BY <1>2, <3>3, <4>1 DEF UndoActive, RecoverActive, RestoreActive, Step, Shown,
           OutcomeWritten
    <3>4. CASE UndoCorpus \/ UndoIndex \/ RecoverCorpus \/ RecoverIndex
      <4>1. UNCHANGED <<active, activeBackup, tx>>
        BY <3>4 DEF UndoCorpus, UndoIndex, RecoverCorpus, RecoverIndex, RestoreDirectory, files
      <4>2. pc \notin FinallySteps \cup {"recPending", "recForget", "recEndTx"}
            /\ pc' \notin FinallySteps \cup {"recPending", "recForget", "recEndTx"}
        BY <3>4 DEF UndoCorpus, UndoIndex, RecoverCorpus, RecoverIndex, Step
      <4> QED
        BY <4>1, <4>2 DEF Shown, OutcomeWritten
    <3>5. CASE RecoverDropBackup \/ RecoverPending \/ RecoverForget \/ RecoverEnd
      BY <1>2, <3>5 DEF RecoverDropBackup, RecoverPending, RecoverForget, RecoverEnd, Step,
         dirs, files, proc, Shown, OutcomeWritten
    <3>6. CASE StartRecovery
      BY <3>6 DEF StartRecovery, dirs, files, proc, Shown, OutcomeWritten
    <3> QED
      BY <1>4, <3>1, <3>2, <3>3, <3>4, <3>5, <3>6 DEF HolderStep, Rollback, Recovery
  <2> QED
    BY <1>1, <2>1, <2>2
<1> QED
  BY <1>3, <1>4

\* An interruption changes nothing that loads return; it may end installations.
LEMMA InterruptionAtomic ==
    ASSUME MaxInterruptions \in 0 .. 1, Inductive, AtMostOne, Inductive', Fault \/ Crash
    PROVE  \/ \E S \in SUBSET Offered : Atomic!Withdraw(S)
           \/ UNCHANGED <<Visible, Offered, used>>
<1> USE ConstantsAssumption DEF PreTrySteps, TrySteps, UndoSteps, FinallySteps, RecoverySteps
<1>1. Visible = Shown /\ Visible' = Shown'
  BY VisibleIs
<1>2. /\ \/ pc \in TrySteps /\ tx # active
         \/ pc \in FinallySteps /\ active = tx
         \/ pc \in PreTrySteps \cup {"idle"} /\ tx = None
      /\ cur \notin staged
  BY InterruptedOnce DEF Inductive, TxOwner, Freshness
<1>3. UNCHANGED <<active, tx, used>> /\ (pc \in TrySteps => UNCHANGED activeBackup)
  BY DEF Fault, Crash, HalfDone
<1>4. /\ pc \in TrySteps => pc' \in {"idle", "undoCorpus"}
      /\ pc \notin TrySteps => pc' = "idle" \/ pc \in UndoSteps
  BY DEF Fault, Crash
<1>5. Shown' = Shown
  BY <1>2, <1>3, <1>4 DEF Shown, OutcomeWritten
<1>6. Offered' \subseteq Offered
  BY <1>2, <1>4 DEF Fault, Crash, Offered
<1>7. CASE Offered' = Offered
  BY <1>1, <1>3, <1>5, <1>7
<1>8. CASE Offered' # Offered
  <2> DEFINE S == Offered \ Offered'
  <2>1. S # {} /\ S \in SUBSET Offered /\ Offered' = Offered \ S
    BY <1>6, <1>8
  <2>2. Atomic!Withdraw(S)
    BY <1>1, <1>3, <1>5, <2>1 DEF Atomic!Withdraw
  <2> QED
    BY <2>1, <2>2
<1> QED
  BY <1>7, <1>8

LEMMA InstallerAtomic ==
    ASSUME Inductive, Inductive', NEW b \in Builds,
           BeginInstall(b) \/ AbandonStaging(b) \/ Acquire(b)
    PROVE  \/ Atomic!Offer(b)
           \/ \E S \in SUBSET Offered : Atomic!Withdraw(S)
           \/ UNCHANGED <<Visible, Offered, used>>
<1> USE DEF PreTrySteps, TrySteps
<1>1. Visible' = Visible
  <2>1. Visible = Shown /\ Visible' = Shown'
    BY VisibleIs
  <2> QED
    BY <2>1 DEF BeginInstall, AbandonStaging, Acquire, files, Shown, OutcomeWritten,
       FinallySteps
<1>2. CASE BeginInstall(b)
  BY <1>1, <1>2 DEF BeginInstall, Atomic!Offer, Offered
<1>3. CASE AbandonStaging(b)
  <2>1. cur # b /\ b \in staged /\ staged' = staged \ {b} /\ UNCHANGED <<pc, cur, used>>
    BY <1>3 DEF Inductive, Freshness, AbandonStaging
  <2>2. Offered' = Offered \ {b} /\ b \in Offered
    BY <2>1 DEF Offered
  <2>3. Atomic!Withdraw({b})
    BY <1>1, <2>1, <2>2 DEF Atomic!Withdraw
  <2> QED
    BY <2>2, <2>3
<1>4. CASE Acquire(b)
  BY <1>1, <1>4 DEF Acquire, Offered
<1> QED
  BY <1>2, <1>3, <1>4

\* Every step of the files is one of the abstract activation, or none.
LEMMA StepAtomic ==
    ASSUME MaxInterruptions \in 0 .. 1, Inductive, AtMostOne, Inductive', [Next]_vars
    PROVE  Atomic!Next \/ UNCHANGED <<Visible, Offered, used>>
<1>1. CASE UNCHANGED vars
  BY <1>1 DEF vars, Visible, Committed, OutcomeWritten, Offered
<1>2. CASE HolderStep \/ StartRecovery
  BY <1>2, HolderAtomic DEF Atomic!Next
<1>3. CASE Fault \/ Crash
  BY <1>3, InterruptionAtomic DEF Atomic!Next
<1>4. CASE \E b \in Builds : BeginInstall(b) \/ AbandonStaging(b) \/ Acquire(b)
  BY <1>4, InstallerAtomic DEF Atomic!Next
<1> QED
  BY <1>1, <1>2, <1>3, <1>4 DEF Next

LEMMA OnceAlways ==
    ASSUME MaxInterruptions \in 0 .. 1
    PROVE  Spec => [](Inductive /\ AtMostOne)
<1>1. Init => Inductive /\ AtMostOne
  BY InitInductive DEF Init, AtMostOne, UndoSteps, FinallySteps, PreTrySteps
<1>2. Inductive /\ AtMostOne /\ [Next]_vars => (Inductive /\ AtMostOne)'
  BY OnceKeeps
<1> QED
  BY <1>1, <1>2, PTL DEF Spec

\* Seen through loads, an installation takes effect in one step and no release
\* is lost, when each transaction is interrupted at most once, wherever that
\* is, in a rollback too (_activate_staged_release and
\* _recover_interrupted_activation).
THEOREM ActivationIsAtomic ==
    ASSUME MaxInterruptions \in 0 .. 1
    PROVE  Spec => AtomicSpec
<1>1. Init => Atomic!Init
  BY DEF Init, Atomic!Init, Visible, Offered, PreTrySteps, TrySteps
<1>2. Inductive /\ AtMostOne /\ Inductive' /\ [Next]_vars => [Atomic!Next]_(Atomic!vars)
  BY StepAtomic DEF Atomic!vars
<1> QED
  BY <1>1, <1>2, OnceAlways, PTL DEF Spec, AtomicSpec, Atomic!Spec

\* A release that is active stays so, or another one is, as docs/architecture.md
\* says - up to the second interruption of one transaction.
THEOREM PriorReleaseKeptOnce ==
    ASSUME MaxInterruptions \in 0 .. 1
    PROVE  Spec => PriorReleaseKept
<1>1. ASSUME Atomic!Next, Visible # None PROVE Visible' # None
  BY <1>1, ConstantsAssumption
     DEF Atomic!Next, Atomic!Offer, Atomic!Activate, Atomic!Withdraw
<1>2. Inductive /\ AtMostOne /\ Inductive' /\ [Next]_vars =>
          [Visible # None => Visible' # None]_vars
  BY <1>1, StepAtomic
<1> QED
  BY <1>2, OnceAlways, PTL DEF Spec, PriorReleaseKept

\* The interruption that starts a rollback is then the only one, so that no
\* assumption about the rollback's own file operations is needed.
THEOREM PairConsistentOnce ==
    ASSUME MaxInterruptions \in 0 .. 1
    PROVE  Spec => []PairConsistent
<1>1. Inductive => PairConsistent
  BY DEF Inductive, Settled, Whole, PairConsistent
<1> QED
  BY <1>1, OnceAlways, PTL
=============================================================================
