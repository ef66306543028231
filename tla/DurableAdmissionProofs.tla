----------------------- MODULE DurableAdmissionProofs -----------------------
(***************************************************************************)
(* Theorems about DurableAdmission, for every set of messages, ciphertexts *)
(* and media and every bound.                                              *)
(***************************************************************************)
EXTENDS DurableAdmission, TLAPS

-----------------------------------------------------------------------------
(* The transactions take databases to databases.                           *)

(* Every file a ciphertext stages, and every file a row names, is one of   *)
(* the known artifacts.                                                    *)
LEMMA StagedFilesType ==
  ASSUME NEW t \in Tids
  PROVE  /\ ArchiveOf(t) \in Archives
         /\ ManifestOf(MsgOf[t]) \subseteq Artifacts
         /\ StagedFiles(t) \subseteq Artifacts
  BY InboundAssumption
     DEF ArchiveOf, ManifestOf, StagedFiles, Archives, MediaFiles, Artifacts

LEMMA NamedByType ==
  ASSUME NEW d \in Databases, NEW m \in Msgs
  PROVE  NamedBy(d, m) \subseteq Artifacts
<1>1. ManifestOf(m) \subseteq Artifacts
  BY InboundAssumption DEF ManifestOf, MediaFiles, Artifacts
<1>2. <<"own", m>> \in Artifacts
  BY DEF OwnFiles, Artifacts
<1> QED BY <1>1, <1>2 DEF NamedBy

LEMMA EmptyType == EmptyDatabase \in Databases
  BY DEF EmptyDatabase, Databases, Projections, Dispositions

(* Purging receipts, admitting a ciphertext, deleting rows, completing     *)
(* journal entries and saving a direct delivery keep the schema.           *)
LEMMA PurgedType ==
  ASSUME NEW d \in Databases, NEW expired
  PROVE  Purged(d, expired) \in Databases
  BY DEF Purged, Databases

LEMMA AdmittedType ==
  ASSUME NEW d \in Databases, NEW t \in Tids, NEW disposition \in Dispositions
  PROVE  Admitted(d, t, disposition) \in Databases
<1>1. ArchiveOf(t) \in Archives /\ MsgOf[t] \in Msgs
  BY StagedFilesType, InboundAssumption
<1> QED BY <1>1 DEF Admitted, Databases, Projections

LEMMA DeletedType ==
  ASSUME NEW d \in Databases, NEW selected \in SUBSET Msgs
  PROVE  Deleted(d, selected) \in Databases
<1>1. UNION {EffectsOf(d, m) : m \in selected} \subseteq Artifacts
  BY DEF EffectsOf, Databases, Artifacts
<1>2. UNION {NamedBy(d, m) : m \in selected} \subseteq Artifacts
  BY NamedByType
<1> QED BY <1>1, <1>2 DEF Deleted, Databases, Projections

LEMMA CompletedType ==
  ASSUME NEW d \in Databases, NEW removed
  PROVE  Completed(d, removed) \in Databases
  BY DEF Completed, Databases

LEMMA SavedType ==
  ASSUME NEW d \in Databases, NEW m \in Msgs
  PROVE  SavedDirectly(d, m) \in Databases
  BY DEF SavedDirectly, Databases, Projections

LEMMA OutcomesType ==
  ASSUME NEW d, NEW t, NEW fs
  PROVE  Outcomes(d, t, fs) \subseteq Dispositions
  BY DEF Outcomes, Dispositions, Discards

-----------------------------------------------------------------------------
(* The loop's steps, deletions, direct deliveries and the environment all  *)
(* keep every variable in its type.                                        *)
USE DEF disk, session, loopv, cleanv

LEMMA AdmissionType == TypeOK /\ Admission => TypeOK'
<1> SUFFICES ASSUME TypeOK, Admission PROVE TypeOK'
  OBVIOUS
<1> USE DEF TypeOK, LoopIdles
<1>1. ASSUME NEW t \in Tids, Begin(t) PROVE TypeOK'
  BY <1>1 DEF Begin, LoopSteps
<1>2. CASE Reserve \/ Reject
  BY <1>2 DEF Reserve, Reject, LoopSteps, Dispositions
<1>3. CASE WriteIntent
  BY <1>3 DEF WriteIntent, LoopSteps
<1>4. CASE WriteArchive
  BY <1>4, StagedFilesType DEF WriteArchive, LoopSteps, Artifacts
<1>5. CASE WriteMedia
  BY <1>5, StagedFilesType DEF WriteMedia, LoopSteps
<1>6. CASE Commit
  <2>1. PICK t \in job, expired \in SUBSET DiscardedTids(db) :
          \E disposition \in Outcomes(Purged(db, expired), t, files) :
            /\ Commits(Admitted(Purged(db, expired), t, disposition))
            /\ outcome' = disposition
            /\ haves' = haves \ expired
    BY <1>6 DEF Commit
  <2>2. PICK disposition \in Outcomes(Purged(db, expired), t, files) :
            /\ Commits(Admitted(Purged(db, expired), t, disposition))
            /\ outcome' = disposition
            /\ haves' = haves \ expired
    BY <2>1
  <2>3. disposition \in Dispositions
    BY OutcomesType
  <2>4. Admitted(Purged(db, expired), t, disposition) \in Databases
    BY <2>3, PurgedType, AdmittedType
  <2> QED BY <1>6, <2>2, <2>3, <2>4 DEF Commit, Commits, LoopSteps
<1>7. CASE CommitUncertain
  <2>1. PICK t \in job, expired \in SUBSET DiscardedTids(db) :
          \E disposition \in Outcomes(Purged(db, expired), t, files) :
            /\ Uncertain(Admitted(Purged(db, expired), t, disposition))
            /\ haves' = haves \ expired
    BY <1>7 DEF CommitUncertain
  <2>2. PICK disposition \in Outcomes(Purged(db, expired), t, files) :
            /\ Uncertain(Admitted(Purged(db, expired), t, disposition))
            /\ haves' = haves \ expired
    BY <2>1
  <2>3. Admitted(Purged(db, expired), t, disposition) \in Databases
    BY PurgedType, AdmittedType, OutcomesType
  <2> QED BY <1>7, <2>2, <2>3 DEF CommitUncertain, Uncertain, LoopSteps
<1>8. CASE Fail
  BY <1>8 DEF Fail, LoopSteps
<1>9. CASE CheckReference \/ RemoveIntent
  BY <1>9 DEF CheckReference, RemoveIntent, LoopSteps
<1>10. CASE Publish
  <2>1. haves' \subseteq Tids
    BY <1>10 DEF Publish
  <2>2. shown' \in [Msgs -> 0..2]
    <3>1. CASE live
      <4>1. ASSUME NEW m \in Msgs
            PROVE  IF outcome = "committed" /\ m \in Chat
                      /\ (\E t \in job : MsgOf[t] = m) /\ shown[m] < 2
                   THEN shown[m] + 1 \in 0..2 ELSE shown[m] \in 0..2
        OBVIOUS
      <4> QED BY <1>10, <3>1, <4>1 DEF Publish
    <3> QED BY <1>10, <3>1 DEF Publish
  <2> QED BY <1>10, <2>1, <2>2 DEF Publish, LoopSteps
<1>11. ASSUME NEW t \in Tids, Purge(t) PROVE TypeOK'
  BY <1>11 DEF Purge
<1> QED BY <1>1, <1>2, <1>3, <1>4, <1>5, <1>6, <1>7, <1>8, <1>9, <1>10, <1>11
        DEF Admission

LEMMA ShieldType == TypeOK => UNION {StagedFiles(t) : t \in intents} \subseteq Artifacts
  BY StagedFilesType DEF TypeOK

LEMMA CleanupType ==
  ASSUME TypeOK, NEW who \in {"loop", "delete"}, Cleanup(who)
  PROVE  TypeOK'
<1> USE DEF TypeOK, Cleaning, Released, CleaningEnds, LoopSteps, DeleteSteps
<1>1. CASE Skip(who)
  BY <1>1 DEF Skip
<1>2. CASE Unlink(who)
  BY <1>2 DEF Unlink
<1>3. CASE Complete(who)
  <2>1. db' \in Databases /\ safe' \in Databases
    BY <1>3, CompletedType DEF Complete, Commits
  <2> QED BY <1>3, <2>1 DEF Complete
<1>4. CASE CleaningFails(who)
  <2>1. db' \in Databases /\ safe' \in Databases
    BY <1>4, CompletedType DEF CleaningFails, Uncertain
  <2> QED BY <1>4, <2>1 DEF CleaningFails
<1> QED BY <1>1, <1>2, <1>3, <1>4 DEF Cleanup

LEMMA CoordinationType == TypeOK /\ Coordination => TypeOK'
<1> SUFFICES ASSUME TypeOK, Coordination PROVE TypeOK'
  OBVIOUS
<1> USE DEF TypeOK, LoopIdles, LoopSteps, Barrier, Commits
<1>1. CASE Sweep
  <2>1. todo' \subseteq Artifacts /\ shield' \subseteq Artifacts /\ done' \subseteq Artifacts
    BY <1>1, ShieldType DEF Sweep, CleaningStarts, Databases
  <2> QED BY <1>1, <2>1 DEF Sweep, CleaningStarts
<1>2. CASE Cleanup("loop")
  BY <1>2, CleanupType
<1>3. CASE Capture \/ Synchronize \/ Reconciled
  BY <1>3 DEF Capture, Synchronize, Reconciled
<1>4. ASSUME NEW t \in Tids, Reconcile(t) PROVE TypeOK'
  BY <1>4 DEF Reconcile
<1>5. CASE Hydrate
  <2>1. ASSUME NEW expired PROVE Recoverable(db, files, expired) \subseteq Tids
    BY DEF Recoverable
  <2> QED BY <1>5, <2>1 DEF Hydrate
<1>6. CASE Install
  BY <1>6 DEF Install
<1>7. CASE SynchronizeFails
  BY <1>7 DEF SynchronizeFails
<1> QED BY <1>1, <1>2, <1>3, <1>4, <1>5, <1>6, <1>7 DEF Coordination

LEMMA DeletionType == TypeOK /\ Deletion => TypeOK'
<1> SUFFICES ASSUME TypeOK, Deletion PROVE TypeOK'
  OBVIOUS
<1> USE DEF TypeOK, DeleteSteps
<1>1. CASE BeginDeletion \/ EndDeletion \/ DeletionFails
  BY <1>1 DEF BeginDeletion, EndDeletion, DeletionFails, Revoke
<1>2. CASE RemoveFiles
  <2>1. todo' \subseteq Artifacts /\ shield' \subseteq Artifacts /\ done' \subseteq Artifacts
    BY <1>2, ShieldType DEF RemoveFiles, CleaningStarts, Databases
  <2> QED BY <1>2, <2>1 DEF RemoveFiles, CleaningStarts, Barrier, Commits
<1>3. CASE Cleanup("delete")
  BY <1>3, CleanupType
<1>4. ASSUME NEW selected \in SUBSET Msgs, DeleteRows(selected) PROVE TypeOK'
  BY <1>4, DeletedType DEF DeleteRows, Commits
<1>5. ASSUME NEW selected \in SUBSET Msgs, DeleteUncertain(selected) PROVE TypeOK'
  BY <1>5, DeletedType DEF DeleteUncertain, Uncertain
<1> QED BY <1>1, <1>2, <1>3, <1>4, <1>5 DEF Deletion

LEMMA DirectType == TypeOK /\ DirectDelivery => TypeOK'
<1> SUFFICES ASSUME TypeOK, NEW m \in Direct,
                    DirectCheck(m) \/ DirectStage(m) \/ DirectSave(m)
             PROVE  TypeOK'
  BY DEF DirectDelivery
<1> USE DirectAssumption, InboundAssumption DEF TypeOK, DirectSteps
<1>1. CASE DirectCheck(m)
  BY <1>1 DEF DirectCheck
<1>2. CASE DirectStage(m)
  BY <1>2 DEF DirectStage, Artifacts, OwnFiles
<1>3. CASE DirectSave(m)
  BY <1>3, SavedType DEF DirectSave
<1> QED BY <1>1, <1>2, <1>3

LEMMA EnvironmentType == TypeOK /\ Environment => TypeOK'
<1> SUFFICES ASSUME TypeOK, Environment PROVE TypeOK'
  OBVIOUS
<1> USE DEF TypeOK
<1>1. CASE Flush
  BY <1>1 DEF Flush
<1>2. CASE Crash
  BY <1>2 DEF Crash, LoopIdles, CleaningEnds, LoopSteps, DeleteSteps, DirectSteps
<1>3. ASSUME NEW t \in Tids, Age(t) PROVE TypeOK'
  BY <1>3 DEF Age
<1> QED BY <1>1, <1>2, <1>3 DEF Environment

LEMMA InitTyped == Init => TypeOK
<1> SUFFICES ASSUME Init PROVE TypeOK
  OBVIOUS
<1>1. db \in Databases /\ safe \in Databases
  BY EmptyType DEF Init
<1>2. direct \in [Direct -> DirectSteps] /\ shown \in [Msgs -> 0..2]
  BY DEF Init, DirectSteps
<1>3. live \in BOOLEAN /\ installed \in BOOLEAN /\ quiet \in BOOLEAN
  BY DEF Init
<1>4. outcome \in Dispositions \union {"none"} /\ pc \in LoopSteps
      /\ dpc \in DeleteSteps /\ guard \in {"free", "loop", "delete"}
  BY DEF Init, LoopSteps, DeleteSteps
<1> QED BY <1>1, <1>2, <1>3, <1>4 DEF Init, TypeOK

LEMMA NextTyped == TypeOK /\ [Next]_vars => TypeOK'
<1> SUFFICES ASSUME TypeOK, [Next]_vars PROVE TypeOK'
  OBVIOUS
<1>1. CASE UNCHANGED vars
  BY <1>1 DEF vars, TypeOK
<1> QED BY <1>1, AdmissionType, CoordinationType, DeletionType, DirectType,
           EnvironmentType DEF Next

(* Every reachable state is well typed: the loop, the deletion and the     *)
(* direct deliveries only ever leave each other states they can continue   *)
(* from.                                                                   *)
THEOREM TypeCorrect == Spec => []TypeOK
BY InitTyped, NextTyped, PTL DEF Spec

-----------------------------------------------------------------------------
(* Receipts and tombstones: consistency of one database, preserved by each *)
(* transaction.                                                            *)
Backed(d) ==
  /\ \A t \in Tids :
       d.receipts[t] \in {"committed", "duplicate"} => HasEffect(d, MsgOf[t])
  /\ \A a, b \in d.effects : a[2] = b[2] => a = b

LEMMA EmptyBacked == Backed(EmptyDatabase)
  BY DEF Backed, EmptyDatabase

LEMMA PurgedBacked ==
  ASSUME NEW d \in Databases, Backed(d), NEW expired
  PROVE  Backed(Purged(d, expired))
  BY DEF Backed, Purged, Databases, HasEffect, EffectsOf

LEMMA AdmittedBacked ==
  ASSUME NEW d \in Databases, Backed(d), NEW t \in Tids, NEW fs,
         NEW disposition \in Outcomes(d, t, fs)
  PROVE  Backed(Admitted(d, t, disposition))
<1> DEFINE e == Admitted(d, t, disposition)
<1>1. MsgOf[t] \in Msgs /\ ArchiveOf(t)[2] = MsgOf[t]
  BY InboundAssumption DEF ArchiveOf
<1>2. /\ e.receipts = [d.receipts EXCEPT ![t] = disposition]
      /\ e.effects = IF disposition = "committed"
                     THEN d.effects \union {ArchiveOf(t)} ELSE d.effects
  BY DEF Admitted, Databases
<1>3. disposition = "committed" => ~HasEffect(d, MsgOf[t])
  BY DEF Outcomes, Discards
<1>4. disposition = "duplicate" => HasEffect(d, MsgOf[t])
  BY DEF Outcomes, Discards
<1>5. ASSUME NEW u \in Tids, e.receipts[u] \in {"committed", "duplicate"}
      PROVE  HasEffect(e, MsgOf[u])
  <2>1. CASE u = t /\ disposition = "committed"
    BY <1>1, <1>2, <2>1 DEF HasEffect, EffectsOf
  <2>2. CASE ~(u = t /\ disposition = "committed")
    <3>1. HasEffect(d, MsgOf[u])
      BY <1>2, <1>4, <1>5, <2>2 DEF Backed, Databases
    <3> QED BY <1>2, <3>1 DEF HasEffect, EffectsOf
  <2> QED BY <2>1, <2>2
<1>6. ASSUME NEW a \in e.effects, NEW b \in e.effects, a[2] = b[2]
      PROVE  a = b
  BY <1>1, <1>2, <1>3, <1>6 DEF Backed, HasEffect, EffectsOf
<1> QED BY <1>5, <1>6 DEF Backed

LEMMA DeletedBacked ==
  ASSUME NEW d \in Databases, Backed(d), NEW selected \in SUBSET Msgs
  PROVE  Backed(Deleted(d, selected))
<1> DEFINE e == Deleted(d, selected)
<1>1. \A a : a \in e.effects <=> a \in d.effects /\ a[2] \notin selected
  BY DEF Deleted, EffectsOf
<1>2. ASSUME NEW t \in Tids, e.receipts[t] \in {"committed", "duplicate"}
      PROVE  HasEffect(e, MsgOf[t])
  <2>1. MsgOf[t] \notin selected /\ d.receipts[t] \in {"committed", "duplicate"}
    BY <1>2 DEF Deleted
  <2>2. HasEffect(d, MsgOf[t])
    BY <2>1 DEF Backed
  <2> QED BY <1>1, <2>1, <2>2 DEF HasEffect, EffectsOf
<1> QED BY <1>1, <1>2 DEF Backed

LEMMA CompletedBacked ==
  ASSUME NEW d \in Databases, Backed(d), NEW removed
  PROVE  Backed(Completed(d, removed))
  BY DEF Backed, Completed, Databases, HasEffect, EffectsOf

LEMMA SavedBacked ==
  ASSUME NEW d \in Databases, Backed(d), NEW m \in Msgs
  PROVE  Backed(SavedDirectly(d, m))
  BY DEF Backed, SavedDirectly, Databases, HasEffect, EffectsOf

-----------------------------------------------------------------------------
(* Every step leaves the database as it was, falls back to the crash copy, *)
(* or applies one transaction, which is then synced or not.                *)
Applied(d, e) ==
  \/ e = d
  \/ /\ pc = "commit"
     /\ \E t \in job, expired \in SUBSET Tids :
          \E disposition \in Outcomes(Purged(d, expired), t, files) :
            e = Admitted(Purged(d, expired), t, disposition)
  \/ \E selected \in SUBSET Msgs : e = Deleted(d, selected)
  \/ e = Completed(d, done)
  \/ \E m \in Direct : /\ direct[m] = "staged" /\ direct'[m] = "arrived"
                        /\ e = SavedDirectly(d, m)

Transacts ==
  \/ db' = safe /\ safe' = safe
  \/ Applied(db, db') /\ safe' \in {safe, db'}

LEMMA AdmissionTransacts == TypeOK /\ Admission => Transacts
<1> SUFFICES ASSUME TypeOK, Admission PROVE Transacts
  OBVIOUS
<1> USE DEF Transacts, TypeOK
<1>1. CASE Commit
  <2>1. PICK t \in job, expired \in SUBSET DiscardedTids(db) :
          \E disposition \in Outcomes(Purged(db, expired), t, files) :
            Commits(Admitted(Purged(db, expired), t, disposition))
    BY <1>1 DEF Commit
  <2>2. expired \in SUBSET Tids
    BY DEF DiscardedTids
  <2>3. Applied(db, db') /\ safe' = db'
    BY <1>1, <2>1, <2>2 DEF Applied, Commits, Commit
  <2> QED BY <2>3
<1>2. CASE CommitUncertain
  <2>1. PICK t \in job, expired \in SUBSET DiscardedTids(db) :
          \E disposition \in Outcomes(Purged(db, expired), t, files) :
            Uncertain(Admitted(Purged(db, expired), t, disposition))
    BY <1>2 DEF CommitUncertain
  <2>2. expired \in SUBSET Tids
    BY DEF DiscardedTids
  <2>3. Applied(db, db')
    BY <1>2, <2>1, <2>2 DEF Applied, CommitUncertain, Uncertain
  <2> QED BY <2>1, <2>3 DEF Uncertain
<1>3. CASE ~Commit /\ ~CommitUncertain
  <2>1. UNCHANGED <<db, safe>>
    BY <1>3 DEF Admission, Begin, Reserve, Reject, WriteIntent, WriteArchive,
                WriteMedia, Fail, CheckReference, RemoveIntent, Publish, Purge
  <2> QED BY <2>1 DEF Applied
<1> QED BY <1>1, <1>2, <1>3

LEMMA CleanupTransacts ==
  ASSUME TypeOK, NEW who, Cleanup(who)
  PROVE  Transacts
<1> USE DEF Transacts, Applied
<1>1. CASE Skip(who) \/ Unlink(who)
  BY <1>1 DEF Skip, Unlink
<1>2. CASE Complete(who)
  BY <1>2 DEF Complete, Commits
<1>3. CASE CleaningFails(who)
  BY <1>3 DEF CleaningFails, Uncertain
<1> QED BY <1>1, <1>2, <1>3 DEF Cleanup

LEMMA CoordinationTransacts == TypeOK /\ Coordination => Transacts
<1> SUFFICES ASSUME TypeOK, Coordination PROVE Transacts
  OBVIOUS
<1>1. CASE Cleanup("loop")
  BY <1>1, CleanupTransacts
<1>2. CASE Sweep \/ Synchronize \/ Hydrate
  BY <1>2 DEF Sweep, Synchronize, Hydrate, CleaningStarts, Barrier, Commits,
              Transacts, Applied
<1>3. CASE Capture \/ Reconciled \/ Install \/ SynchronizeFails
           \/ \E t \in Tids : Reconcile(t)
  BY <1>3 DEF Capture, Reconciled, Install, SynchronizeFails, Reconcile,
              Transacts, Applied
<1> QED BY <1>1, <1>2, <1>3 DEF Coordination

LEMMA DeletionTransacts == TypeOK /\ Deletion => Transacts
<1> SUFFICES ASSUME TypeOK, Deletion PROVE Transacts
  OBVIOUS
<1> USE DEF Transacts, Applied
<1>1. CASE Cleanup("delete")
  BY <1>1, CleanupTransacts
<1>2. CASE BeginDeletion \/ EndDeletion \/ DeletionFails \/ RemoveFiles
  BY <1>2 DEF BeginDeletion, EndDeletion, DeletionFails, RemoveFiles,
              CleaningStarts, Barrier, Commits
<1>3. ASSUME NEW selected \in SUBSET Msgs,
             DeleteRows(selected) \/ DeleteUncertain(selected)
      PROVE  Transacts
  BY <1>3 DEF DeleteRows, DeleteUncertain, Commits, Uncertain
<1> QED BY <1>1, <1>2, <1>3 DEF Deletion

LEMMA StepTransacts == TypeOK /\ [Next]_vars => Transacts
<1> SUFFICES ASSUME TypeOK, [Next]_vars PROVE Transacts
  OBVIOUS
<1>1. CASE DirectDelivery
  BY <1>1 DEF DirectDelivery, DirectCheck, DirectStage, DirectSave, Transacts, Applied,
              TypeOK
<1>2. CASE Environment
  BY <1>2 DEF Environment, Flush, Crash, Age, Transacts, Applied
<1>3. CASE UNCHANGED vars
  BY <1>3 DEF vars, Transacts, Applied
<1> QED BY <1>1, <1>2, <1>3, AdmissionTransacts, CoordinationTransacts,
           DeletionTransacts DEF Next

(* What is claimed as received is in the effects, under one archive,       *)
(* whatever the loop, deletions, direct deliveries and crashes do: commit  *)
(* looks the effect up in the transaction that writes the receipt, and a   *)
(* deletion drops both.                                                    *)
THEOREM ReceiptsAlwaysBacked == Spec => []ReceiptsBacked
<1> DEFINE Inv == Backed(db) /\ Backed(safe)
<1>1. Init => Inv
  BY EmptyBacked DEF Init
<1>2. TypeOK /\ Inv /\ [Next]_vars => Inv'
  <2> SUFFICES ASSUME TypeOK, Inv, [Next]_vars PROVE Backed(db') /\ Backed(safe')
    BY DEF Backed, HasEffect, EffectsOf
  <2>1. db \in Databases /\ job \subseteq Tids
    BY DEF TypeOK
  <2>2. ASSUME Applied(db, db') PROVE Backed(db')
    <3>1. ASSUME NEW t \in job, NEW expired \in SUBSET Tids,
                 NEW disposition \in Outcomes(Purged(db, expired), t, files)
          PROVE  Backed(Admitted(Purged(db, expired), t, disposition))
      BY <2>1, PurgedType, PurgedBacked, AdmittedBacked
    <3>2. ASSUME NEW m \in Direct PROVE Backed(SavedDirectly(db, m))
      BY <2>1, SavedBacked, DirectAssumption, InboundAssumption
    <3> QED BY <2>1, <2>2, <3>1, <3>2, DeletedBacked, CompletedBacked DEF Applied
  <2> QED BY <2>2, StepTransacts DEF Transacts
<1>3. Inv => ReceiptsBacked
  BY DEF ReceiptsBacked, Views, Backed
<1> QED BY <1>1, <1>2, <1>3, TypeCorrect, PTL DEF Spec

-----------------------------------------------------------------------------
(* A tombstone is final in one database, whatever is admitted later.       *)
Final(d) ==
  \A m \in d.deleted : d.rows[m] = "absent" /\ ~HasEffect(d, m)

LEMMA EmptyFinal == Final(EmptyDatabase)
  BY DEF Final, EmptyDatabase

LEMMA PurgedFinal ==
  ASSUME NEW d \in Databases, Final(d), NEW expired
  PROVE  Final(Purged(d, expired))
  BY DEF Final, Purged, Databases, HasEffect, EffectsOf

LEMMA AdmittedFinal ==
  ASSUME NEW d \in Databases, Final(d), NEW t \in Tids, NEW fs,
         NEW disposition \in Outcomes(d, t, fs)
  PROVE  Final(Admitted(d, t, disposition))
<1> DEFINE e == Admitted(d, t, disposition)
<1>1. MsgOf[t] \in Msgs /\ ArchiveOf(t)[2] = MsgOf[t]
  BY InboundAssumption DEF ArchiveOf
<1>2. disposition = "committed" => MsgOf[t] \notin d.deleted
  BY DEF Outcomes, Discards
<1>3. e.deleted = d.deleted
  BY DEF Admitted
<1>4. ASSUME NEW m \in d.deleted
      PROVE  e.rows[m] = d.rows[m] /\ EffectsOf(e, m) = EffectsOf(d, m)
  BY <1>1, <1>2 DEF Admitted, Databases, EffectsOf
<1> QED BY <1>3, <1>4 DEF Final, HasEffect

LEMMA DeletedFinal ==
  ASSUME NEW d \in Databases, Final(d), NEW selected \in SUBSET Msgs
  PROVE  Final(Deleted(d, selected))
<1> DEFINE e == Deleted(d, selected)
<1>1. \A m \in Msgs : EffectsOf(e, m) \subseteq EffectsOf(d, m)
  BY DEF Deleted, EffectsOf
<1>2. \A m \in selected : EffectsOf(e, m) = {}
  BY DEF Deleted, EffectsOf
<1>3. ASSUME NEW m \in e.deleted
      PROVE  e.rows[m] = "absent" /\ ~HasEffect(e, m)
  <2>1. m \in Msgs /\ (m \in selected \/ m \in d.deleted)
    BY <1>3 DEF Deleted, Databases
  <2>2. e.rows[m] = IF m \in selected THEN "absent" ELSE d.rows[m]
    BY <2>1 DEF Deleted
  <2> QED BY <1>1, <1>2, <2>1, <2>2 DEF Final, HasEffect
<1> QED BY <1>3 DEF Final

LEMMA CompletedFinal ==
  ASSUME NEW d \in Databases, Final(d), NEW removed
  PROVE  Final(Completed(d, removed))
  BY DEF Final, Completed, Databases, HasEffect, EffectsOf

(* A deletion is final for everything that passes through admission: in    *)
(* the database and in its crash copy a tombstoned message has neither row *)
(* nor effect.  A direct delivery does not look at the tombstone when it   *)
(* saves, so the theorem is about deployments without one.                 *)
THEOREM DeletionIsFinal ==
  ASSUME Direct = {}
  PROVE  Spec => []DeletedStaysDeleted
<1> DEFINE Inv == Final(db) /\ Final(safe)
<1>1. Init => Inv
  BY EmptyFinal DEF Init
<1>2. TypeOK /\ Inv /\ [Next]_vars => Inv'
  <2> SUFFICES ASSUME TypeOK, Inv, [Next]_vars PROVE Final(db') /\ Final(safe')
    BY DEF Final, HasEffect, EffectsOf
  <2>1. db \in Databases /\ job \subseteq Tids
    BY DEF TypeOK
  <2>2. ASSUME Applied(db, db') PROVE Final(db')
    <3>1. ASSUME NEW t \in job, NEW expired \in SUBSET Tids,
                 NEW disposition \in Outcomes(Purged(db, expired), t, files)
          PROVE  Final(Admitted(Purged(db, expired), t, disposition))
      BY <2>1, PurgedType, PurgedFinal, AdmittedFinal
    <3> QED BY <2>1, <2>2, <3>1, DeletedFinal, CompletedFinal DEF Applied
  <2> QED BY <2>2, StepTransacts DEF Transacts
<1>3. Inv => DeletedStaysDeleted
  BY DEF DeletedStaysDeleted, Views, Final
<1> QED BY <1>1, <1>2, <1>3, TypeCorrect, PTL DEF Spec

-----------------------------------------------------------------------------
(* The inductive invariant behind FilesPresent, with direct deliveries.    *)

(* Who holds the permit is what the two activities are doing.              *)
Exclusive ==
  /\ guard = "loop" <=>
       pc \in StagingSteps \union {"sweep", "reconcile", "hydrate"}
  /\ guard = "delete" <=> dpc \in {"deleted", "clean"}

(* One ciphertext at a time, and by the commit all its files are there.    *)
Staged ==
  /\ \A t, u \in job : t = u
  /\ \A t \in job :
       /\ pc = "write_media" => ArchiveOf(t) \in files
       /\ pc = "commit" => StagedFiles(t) \subseteq files

(* Files are removed only while the crash copy agrees with the database    *)
(* on everything but the newest direct deliveries.                         *)
Removing == pc = "sweep" \/ dpc = "clean" \/ (pc = "reconcile" /\ queue # {})
AgreesWith(d, e) ==
  /\ d.effects = e.effects /\ d.journal = e.journal
  /\ \A m \in Msgs : d.rows[m] = e.rows[m] \/ (d.rows[m] = "absent" /\ e.rows[m] = "own")
Aligned == Removing => AgreesWith(safe, db)

(* The file a direct delivery wrote for itself is named, journaled or      *)
(* about to be cleaned only after that delivery's end, which is final.     *)
Arrived(m)  == m \in Direct /\ direct[m] = "arrived"
OwnName(m) ==
  \/ db.rows[m] = "own" \/ safe.rows[m] = "own"
  \/ <<"own", m>> \in todo \union db.journal \union safe.journal
Owned ==
  \A m \in Msgs :
    /\ OwnName(m) => Arrived(m)
    /\ m \in Direct /\ direct[m] = "staged" /\ MediaOf[m] # {} => <<"own", m>> \in files

(* The files a database refers to.                                         *)
Needed(d) == {f \in Artifacts : References(d, f)}

FilesInv ==
  /\ Exclusive /\ Staged /\ Aligned /\ Owned
  /\ Needed(db) \subseteq files /\ Needed(safe) \subseteq files

LEMMA Kinds ==
  /\ \A f \in Archives : f \notin MediaFiles /\ f \notin OwnFiles
  /\ \A f \in MediaFiles : f \notin OwnFiles
  BY DEF Archives, MediaFiles, OwnFiles

LEMMA ManifestKind ==
  ASSUME NEW m \in Msgs
  PROVE  ManifestOf(m) \subseteq MediaFiles
  BY InboundAssumption DEF ManifestOf, MediaFiles

LEMMA ReferencesType ==
  ASSUME NEW d \in Databases, NEW f, References(d, f)
  PROVE  f \in Needed(d)
<1>1. d.effects \subseteq Artifacts
  BY DEF Databases, Artifacts
<1> QED BY <1>1, NamedByType DEF References, Needed

(* Agreement is about references too.                                      *)
LEMMA AgreedNeeds ==
  ASSUME NEW d \in Databases, NEW e \in Databases, AgreesWith(d, e)
  PROVE  Needed(d) \subseteq Needed(e)
<1>1. \A m \in Msgs : NamedBy(d, m) \subseteq NamedBy(e, m)
  BY DEF AgreesWith, NamedBy
<1> QED BY <1>1 DEF AgreesWith, Needed, References

(* What each transaction adds to the files a database refers to.           *)
LEMMA AdmittedNeeds ==
  ASSUME NEW d \in Databases, NEW t \in Tids, NEW disposition \in Dispositions
  PROVE  /\ Needed(Admitted(d, t, disposition)) \subseteq Needed(d) \union StagedFiles(t)
         /\ Needed(d) \subseteq Needed(Admitted(d, t, disposition))
<1> DEFINE e == Admitted(d, t, disposition)
<1>1. MsgOf[t] \in Msgs
  BY InboundAssumption
<1>2. e.effects = IF disposition = "committed"
                  THEN d.effects \union {ArchiveOf(t)} ELSE d.effects
  BY DEF Admitted
<1>3. e.rows = [d.rows EXCEPT ![MsgOf[t]] =
                  IF disposition = "committed" /\ MsgOf[t] \in Chat /\ @ = "absent"
                  THEN "hashed" ELSE @]
  BY DEF Admitted
<1>4. ASSUME NEW m \in Msgs
      PROVE  /\ NamedBy(e, m) \subseteq NamedBy(d, m) \union StagedFiles(t)
             /\ NamedBy(d, m) \subseteq NamedBy(e, m)
  <2>1. e.rows[m] = d.rows[m] \/ (m = MsgOf[t] /\ d.rows[m] = "absent" /\ e.rows[m] = "hashed")
    BY <1>1, <1>3 DEF Databases
  <2> QED BY <2>1 DEF NamedBy, StagedFiles
<1> QED BY <1>2, <1>4 DEF Needed, References, StagedFiles

LEMMA DeletedNeeds ==
  ASSUME NEW d \in Databases, NEW selected \in SUBSET Msgs
  PROVE  Needed(Deleted(d, selected)) \subseteq Needed(d)
<1> DEFINE e == Deleted(d, selected)
<1>1. e.effects \subseteq d.effects
  BY DEF Deleted
<1>2. \A m \in Msgs : NamedBy(e, m) \subseteq NamedBy(d, m)
  BY DEF Deleted, NamedBy
<1> QED BY <1>1, <1>2 DEF Needed, References

LEMMA SameNeeds ==
  ASSUME NEW d, NEW e, e.rows = d.rows, e.effects = d.effects
  PROVE  Needed(e) = Needed(d)
  BY DEF Needed, References, NamedBy

LEMMA SavedNeeds ==
  ASSUME NEW d \in Databases, NEW m \in Msgs
  PROVE  /\ Needed(SavedDirectly(d, m)) \subseteq
              Needed(d) \union (IF MediaOf[m] = {} THEN {} ELSE {<<"own", m>>})
         /\ Needed(d) \subseteq Needed(SavedDirectly(d, m))
<1> DEFINE e == SavedDirectly(d, m)
<1>1. e.effects = d.effects
  BY DEF SavedDirectly
<1>2. ASSUME NEW n \in Msgs
      PROVE  /\ NamedBy(e, n) \subseteq
                  NamedBy(d, n) \union (IF MediaOf[m] = {} THEN {} ELSE {<<"own", m>>})
             /\ NamedBy(d, n) \subseteq NamedBy(e, n)
  <2>1. e.rows[n] = d.rows[n] \/ (n = m /\ d.rows[n] = "absent" /\ e.rows[n] = "own")
    BY DEF SavedDirectly, Databases
  <2> QED BY <2>1 DEF NamedBy
<1> QED BY <1>1, <1>2 DEF Needed, References

(* No transaction refers to a file that is not there.                      *)
LEMMA AppliedNeeds ==
  ASSUME TypeOK, FilesInv, NEW e, Applied(db, e)
  PROVE  Needed(e) \subseteq files
<1>1. db \in Databases /\ job \subseteq Tids /\ Needed(db) \subseteq files
  BY DEF TypeOK, FilesInv
<1>2. ASSUME pc = "commit", NEW t \in job, NEW expired \in SUBSET Tids,
             NEW disposition \in Outcomes(Purged(db, expired), t, files),
             e = Admitted(Purged(db, expired), t, disposition)
      PROVE  Needed(e) \subseteq files
  <2> DEFINE p == Purged(db, expired)
  <2>1. p \in Databases /\ disposition \in Dispositions /\ t \in Tids
    BY <1>1, PurgedType, OutcomesType
  <2>2. p.rows = db.rows /\ p.effects = db.effects
    BY DEF Purged
  <2>3. Needed(p) = Needed(db)
    BY <2>2, SameNeeds
  <2>4. Needed(e) \subseteq Needed(p) \union StagedFiles(t)
    BY <1>2, <2>1, AdmittedNeeds
  <2> QED BY <1>1, <1>2, <2>3, <2>4 DEF FilesInv, Staged
<1>3. ASSUME NEW selected \in SUBSET Msgs, e = Deleted(db, selected)
      PROVE  Needed(e) \subseteq files
  BY <1>1, <1>3, DeletedNeeds
<1>4. ASSUME e = Completed(db, done) PROVE Needed(e) \subseteq files
  <2>1. e.rows = db.rows /\ e.effects = db.effects
    BY <1>4 DEF Completed
  <2> QED BY <1>1, <2>1, SameNeeds
<1>5. ASSUME NEW m \in Direct, direct[m] = "staged", e = SavedDirectly(db, m)
      PROVE  Needed(e) \subseteq files
  <2>1. m \in Msgs
    BY DirectAssumption, InboundAssumption
  <2>2. MediaOf[m] # {} => <<"own", m>> \in files
    BY <1>5, <2>1 DEF FilesInv, Owned
  <2> QED BY <1>1, <1>5, <2>1, <2>2, SavedNeeds
<1> QED BY <1>1, <1>2, <1>3, <1>4, <1>5 DEF Applied

(* The permit.                                                             *)
LEMMA ExclusiveStep == Exclusive /\ [Next]_vars => Exclusive'
<1> SUFFICES ASSUME Exclusive, [Next]_vars PROVE Exclusive'
  OBVIOUS
<1> USE DEF Exclusive, StagingSteps, LoopIdles
<1>1. CASE UNCHANGED vars
  BY <1>1 DEF vars
<1>2. CASE Admission
  BY <1>2 DEF Admission, Begin, Reserve, Reject, WriteIntent, WriteArchive,
              WriteMedia, Commit, CommitUncertain, Fail, CheckReference,
              RemoveIntent, Publish, Purge
<1>3. ASSUME NEW who \in {"loop", "delete"}, Cleanup(who) PROVE Exclusive'
  BY <1>3 DEF Cleanup, Skip, Unlink, Complete, CleaningFails, Cleaning, Released
<1>4. CASE Coordination
  BY <1>3, <1>4 DEF Coordination, Sweep, Capture, Synchronize, Reconcile, Reconciled,
              Hydrate, Install, SynchronizeFails
<1>5. CASE Deletion
  BY <1>3, <1>5 DEF Deletion, BeginDeletion, RemoveFiles, EndDeletion,
              DeletionFails, DeleteRows, DeleteUncertain, Revoke
<1>6. CASE DirectDelivery
  BY <1>6 DEF DirectDelivery, DirectCheck, DirectStage, DirectSave
<1>7. CASE Environment
  BY <1>7 DEF Environment, Flush, Crash, Age
<1> QED BY <1>1, <1>2, <1>4, <1>5, <1>6, <1>7 DEF Next

(* Whoever removes files has synced before, and meanwhile nothing but      *)
(* direct deliveries touches the database.                                 *)
LEMMA WhileRemoving ==
  ASSUME Exclusive, [Next]_vars, Removing'
  PROVE  \/ safe' = db'
         \/ Removing /\ UNCHANGED <<db, safe>>
         \/ /\ Removing /\ UNCHANGED safe
            /\ \E m \in Direct : direct[m] = "staged" /\ db' = SavedDirectly(db, m)
<1> USE DEF Exclusive, Removing, StagingSteps, LoopIdles
<1>1. CASE UNCHANGED vars
  BY <1>1 DEF vars
<1>2. CASE Admission
  BY <1>2 DEF Admission, Begin, Reserve, Reject, WriteIntent, WriteArchive,
              WriteMedia, Commit, CommitUncertain, Commits, Uncertain, Fail,
              CheckReference, RemoveIntent, Publish, Purge
<1>3. ASSUME NEW who \in {"loop", "delete"}, Cleanup(who)
      PROVE  safe' = db' \/ (Removing /\ UNCHANGED <<db, safe>>)
  BY <1>3 DEF Cleanup, Skip, Unlink, Complete, CleaningFails, Cleaning, Released,
              Commits, Uncertain
<1>4. CASE Coordination
  BY <1>3, <1>4 DEF Coordination, Sweep, Capture, Synchronize, Reconcile, Reconciled,
              Hydrate, Install, SynchronizeFails, CleaningStarts, Barrier, Commits
<1>5. CASE Deletion
  BY <1>3, <1>5 DEF Deletion, BeginDeletion, RemoveFiles, EndDeletion,
              DeletionFails, DeleteRows, DeleteUncertain, Revoke,
              CleaningStarts, Barrier, Commits, Uncertain
<1>6. CASE DirectDelivery
  BY <1>6 DEF DirectDelivery, DirectCheck, DirectStage, DirectSave
<1>7. CASE Environment
  BY <1>7 DEF Environment, Flush, Crash, Age
<1> QED BY <1>1, <1>2, <1>4, <1>5, <1>6, <1>7 DEF Next

LEMMA AlignedStep ==
  ASSUME TypeOK, Exclusive, Aligned, [Next]_vars
  PROVE  Aligned'
<1>1. CASE ~Removing'
  BY <1>1 DEF Aligned
<1>2. CASE Removing' /\ safe' = db'
  BY <1>2 DEF Aligned, AgreesWith
<1>3. CASE Removing /\ UNCHANGED <<db, safe>>
  BY <1>3 DEF Aligned, AgreesWith
<1>4. ASSUME Removing, safe' = safe, NEW m \in Direct, db' = SavedDirectly(db, m)
      PROVE  Aligned'
  <2>1. m \in Msgs
    BY DirectAssumption, InboundAssumption
  <2>2. /\ db'.effects = db.effects /\ db'.journal = db.journal
        /\ db'.rows = [db.rows EXCEPT ![m] = IF @ = "absent" THEN "own" ELSE @]
    BY <1>4 DEF SavedDirectly
  <2>3. AgreesWith(safe, db')
    BY <1>4, <2>1, <2>2 DEF Aligned, AgreesWith, TypeOK, Databases
  <2> QED BY <1>4, <2>3 DEF Aligned, AgreesWith
<1> QED BY <1>1, <1>2, <1>3, <1>4, WhileRemoving

(* A cleaner takes files only while nothing is committed and never one     *)
(* that is needed; a direct delivery that failed takes its own.            *)
Cleans ==
  /\ Removing /\ UNCHANGED <<db, safe>>
  /\ \E f \in Artifacts : /\ f \notin Needed(db)
                          /\ f \in todo \/ f \notin OwnFiles
                          /\ files' = files \ {f}
GivesUp ==
  \E m \in Direct : /\ direct[m] = "staged" /\ direct' = [direct EXCEPT ![m] = "arrived"]
                    /\ UNCHANGED <<db, safe, pc, job, todo>>
                    /\ files' = files \ {<<"own", m>>}

LEMMA Removals ==
  ASSUME TypeOK, [Next]_vars
  PROVE  files \subseteq files' \/ Cleans \/ GivesUp
<1>1. CASE UNCHANGED vars
  BY <1>1 DEF vars
<1>2. CASE Admission
  BY <1>2 DEF Admission, Begin, Reserve, Reject, WriteIntent, WriteArchive,
              WriteMedia, Commit, CommitUncertain, Fail, CheckReference,
              RemoveIntent, Publish, Purge
<1>3. ASSUME NEW who \in {"loop", "delete"}, Cleanup(who)
      PROVE  files \subseteq files' \/ Cleans
  <2>1. CASE Unlink(who)
    <3>1. PICK f \in todo \ shield : ~References(db, f) /\ files' = files \ {f}
      BY <2>1 DEF Unlink
    <3>2. f \in Artifacts /\ f \notin Needed(db)
      BY <3>1 DEF Needed, TypeOK
    <3>3. Removing /\ UNCHANGED <<db, safe>>
      BY <2>1 DEF Unlink, Cleaning, Removing
    <3> QED BY <3>1, <3>2, <3>3 DEF Cleans
  <2> QED BY <1>3, <2>1 DEF Cleanup, Skip, Complete, CleaningFails
<1>4. ASSUME NEW t \in Tids, Reconcile(t)
      PROVE  files \subseteq files' \/ Cleans
  <2>1. Removing /\ UNCHANGED <<db, safe>>
    BY <1>4 DEF Reconcile, Removing
  <2>2. CASE \E f \in Removable(t) : Orphan(t) /\ files' = files \ {f}
    <3>1. PICK f \in Removable(t) : Orphan(t) /\ files' = files \ {f}
      BY <2>2
    <3>2. MsgOf[t] \in Msgs /\ f \in Artifacts
      BY <3>1, StagedFilesType, InboundAssumption DEF Removable
    <3>3. f \notin OwnFiles
      BY <3>1, <3>2, ManifestKind, StagedFilesType, Kinds DEF Removable, StagedFiles
    <3>4. f \notin Needed(db)
      <4>1. CASE f = ArchiveOf(t)
        <5>1. \A m \in Msgs : f \notin NamedBy(db, m)
          BY <4>1 DEF NamedBy, ArchiveOf, ManifestOf
        <5> QED BY <3>1, <4>1, <5>1 DEF Orphan, Needed, References
      <4>2. CASE ~References(db, f)
        BY <4>2 DEF Needed
      <4> QED BY <3>1, <4>1, <4>2 DEF Removable
    <3> QED BY <2>1, <3>1, <3>2, <3>3, <3>4 DEF Cleans
  <2> QED BY <1>4, <2>2 DEF Reconcile
<1>5. CASE Coordination
  BY <1>3, <1>4, <1>5 DEF Coordination, Sweep, Capture, Synchronize, Reconciled,
              Hydrate, Install, SynchronizeFails
<1>6. CASE Deletion
  BY <1>3, <1>6 DEF Deletion, BeginDeletion, RemoveFiles, EndDeletion,
              DeletionFails, DeleteRows, DeleteUncertain
<1>7. CASE DirectDelivery
  <2>1. PICK m \in Direct : DirectCheck(m) \/ DirectStage(m) \/ DirectSave(m)
    BY <1>7 DEF DirectDelivery
  <2>2. CASE DirectSave(m)
    BY <2>2 DEF DirectSave, GivesUp
  <2> QED BY <2>1, <2>2 DEF DirectCheck, DirectStage
<1>8. CASE Environment
  BY <1>8 DEF Environment, Flush, Crash, Age
<1> QED BY <1>1, <1>2, <1>5, <1>6, <1>7, <1>8 DEF Next

(* What a job has staged stays until its commit: the permit keeps every    *)
(* cleaner away, and no delivery takes another's files.                    *)
LEMMA StagedStep ==
  ASSUME TypeOK, Exclusive, Staged, [Next]_vars
  PROVE  Staged'
<1>0. \A t \in job : StagedFiles(t) \intersect OwnFiles = {}
  <2>1. \A t \in job : t \in Tids /\ MsgOf[t] \in Msgs
    BY InboundAssumption DEF TypeOK
  <2> QED BY <2>1, ManifestKind, StagedFilesType, Kinds DEF StagedFiles
<1>1. CASE /\ pc' = pc /\ job' = job
           /\ files \subseteq files' \/ Removing \/ GivesUp
  <2>1. Removing => pc \notin {"write_media", "commit"}
    BY DEF Removing, Exclusive, StagingSteps
  <2>2. GivesUp => \E f \in OwnFiles : files' = files \ {f}
    BY DirectAssumption, InboundAssumption DEF GivesUp, OwnFiles
  <2> QED BY <1>0, <1>1, <2>1, <2>2 DEF Staged, StagedFiles
<1>2. CASE job' = {}
  BY <1>2 DEF Staged
<1>3. CASE job' = job /\ pc' \notin {"write_media", "commit"}
  BY <1>3 DEF Staged
<1>4. ASSUME NEW t \in Tids, Begin(t) PROVE Staged'
  BY <1>4 DEF Begin, Staged
<1>5. CASE WriteArchive
  BY <1>5 DEF WriteArchive, Staged
<1>6. CASE WriteMedia
  <2>1. PICK t \in job :
          \/ ManifestOf(MsgOf[t]) \subseteq files /\ files' = files
          \/ pc' = pc /\ \E f : files' = files \union {f}
    BY <1>6 DEF WriteMedia
  <2>2. ArchiveOf(t) \in files /\ \A u \in job : u = t
    BY <1>6 DEF WriteMedia, Staged
  <2>3. job' = job /\ pc' \in {"write_media", "commit"}
    BY <1>6 DEF WriteMedia
  <2>4. CASE ManifestOf(MsgOf[t]) \subseteq files /\ files' = files
    BY <2>2, <2>3, <2>4 DEF Staged, StagedFiles
  <2>5. CASE pc' = pc /\ \E f : files' = files \union {f}
    BY <1>1, <2>3, <2>5
  <2> QED BY <2>1, <2>4, <2>5
<1>7. files \subseteq files' \/ Removing \/ GivesUp
  BY Removals DEF Cleans
<1>8. CASE Admission
  BY <1>1, <1>2, <1>3, <1>4, <1>5, <1>6, <1>7, <1>8
     DEF Admission, Reserve, Reject, WriteIntent, Commit, CommitUncertain, Fail,
         CheckReference, RemoveIntent, Publish, Purge, LoopIdles
<1>9. ASSUME NEW who \in {"loop", "delete"}, Cleanup(who) PROVE Staged'
  BY <1>1, <1>3, <1>7, <1>9
     DEF Cleanup, Skip, Unlink, Complete, CleaningFails, Released
<1>10. CASE Coordination
  BY <1>1, <1>2, <1>3, <1>7, <1>9, <1>10
     DEF Coordination, Sweep, Capture, Synchronize, Reconcile, Reconciled,
         Hydrate, Install, SynchronizeFails, LoopIdles
<1>11. CASE Deletion
  BY <1>1, <1>7, <1>9, <1>11
     DEF Deletion, BeginDeletion, RemoveFiles, EndDeletion, DeletionFails,
         DeleteRows, DeleteUncertain
<1>12. CASE DirectDelivery
  BY <1>1, <1>7, <1>12 DEF DirectDelivery, DirectCheck, DirectStage, DirectSave
<1>13. CASE Environment
  BY <1>1, <1>2, <1>7, <1>13 DEF Environment, Flush, Crash, Age, LoopIdles
<1>14. CASE UNCHANGED vars
  BY <1>1, <1>7, <1>14 DEF vars
<1> QED BY <1>8, <1>10, <1>11, <1>12, <1>13, <1>14 DEF Next

-----------------------------------------------------------------------------
(* How a delivery progresses: once arrived it stays so, and what becomes   *)
(* its own name meanwhile is the row it saves.                             *)
LEMMA DirectProgress ==
  ASSUME TypeOK, [Next]_vars, NEW m \in Direct
  PROVE  /\ Arrived(m) => Arrived(m)'
         /\ direct'[m] = "staged" => direct[m] = "staged" \/ DirectStage(m)
<1>1. CASE direct' = direct
  BY <1>1 DEF Arrived
<1>2. CASE Crash
  BY <1>2 DEF Crash, Arrived
<1>3. ASSUME NEW n \in Direct, DirectCheck(n) \/ DirectStage(n) \/ DirectSave(n)
      PROVE  /\ Arrived(m) => Arrived(m)'
             /\ direct'[m] = "staged" => direct[m] = "staged" \/ DirectStage(m)
  BY <1>3 DEF DirectCheck, DirectStage, DirectSave, Arrived, TypeOK
<1>4. direct' = direct \/ Crash \/ DirectDelivery
  BY DEF Next, vars, Admission, Begin, Reserve, Reject, WriteIntent, WriteArchive,
     WriteMedia, Commit, CommitUncertain, Fail, CheckReference, RemoveIntent, Publish,
     Purge, Coordination, Cleanup, Skip, Unlink, Complete, CleaningFails, Sweep, Capture,
     Synchronize, Reconcile, Reconciled, Hydrate, Install, SynchronizeFails, Deletion,
     BeginDeletion, RemoveFiles, EndDeletion, DeletionFails, DeleteRows, DeleteUncertain,
     Environment, Flush, Age
<1> QED BY <1>1, <1>2, <1>3, <1>4 DEF DirectDelivery

(* A database's own names: the rows, and what it journaled.                *)
OwnIn(d, m) == d.rows[m] = "own" \/ <<"own", m>> \in d.journal

LEMMA AppliedOwn ==
  ASSUME TypeOK, NEW e, Applied(db, e), NEW m \in Msgs, OwnIn(e, m)
  PROVE  OwnIn(db, m) \/ (m \in Direct /\ direct'[m] = "arrived")
<1>1. db \in Databases /\ job \subseteq Tids
  BY DEF TypeOK
<1>2. ASSUME NEW t \in job, NEW expired \in SUBSET Tids, NEW disposition,
             e = Admitted(Purged(db, expired), t, disposition)
      PROVE  OwnIn(db, m)
  <2>1. e.journal = db.journal
    BY <1>2 DEF Admitted, Purged
  <2>2. e.rows[m] = db.rows[m] \/ e.rows[m] = "hashed"
    <3>1. MsgOf[t] \in Msgs
      BY <1>1, InboundAssumption
    <3>2. e.rows = [db.rows EXCEPT ![MsgOf[t]] =
                      IF disposition = "committed" /\ MsgOf[t] \in Chat /\ @ = "absent"
                      THEN "hashed" ELSE @]
      BY <1>2 DEF Admitted, Purged
    <3> QED BY <1>1, <3>1, <3>2 DEF Databases
  <2> QED BY <2>1, <2>2 DEF OwnIn
<1>3. ASSUME NEW selected \in SUBSET Msgs, e = Deleted(db, selected)
      PROVE  OwnIn(db, m)
  <2>1. e.rows[m] = "own" => db.rows[m] = "own"
    BY <1>3 DEF Deleted
  <2>2. ASSUME <<"own", m>> \in e.journal PROVE OwnIn(db, m)
    <3>1. CASE \E n \in selected : <<"own", m>> \in EffectsOf(db, n)
      <4>1. <<"own", m>> \in Archives
        BY <1>1, <3>1 DEF EffectsOf, Databases
      <4>2. <<"own", m>> \in OwnFiles
        BY DEF OwnFiles
      <4> QED BY <4>1, <4>2, Kinds
    <3>2. ASSUME NEW n \in selected, <<"own", m>> \in NamedBy(db, n)
          PROVE  OwnIn(db, m)
      <4>1. <<"own", m>> \notin ManifestOf(n)
        BY DEF ManifestOf
      <4> QED BY <3>2, <4>1 DEF NamedBy, OwnIn
    <3> QED BY <1>3, <2>2, <3>1, <3>2 DEF Deleted, OwnIn
  <2> QED BY <2>1, <2>2 DEF OwnIn
<1>4. ASSUME e = Completed(db, done) PROVE OwnIn(db, m)
  BY <1>4 DEF Completed, OwnIn
<1>5. ASSUME NEW n \in Direct, e = SavedDirectly(db, n)
      PROVE  OwnIn(db, m) \/ n = m
  BY <1>1, <1>5 DEF SavedDirectly, OwnIn, Databases
<1> QED BY <1>2, <1>3, <1>4, <1>5 DEF Applied, OwnIn

LEMMA OwnedStep ==
  ASSUME TypeOK, Owned, [Next]_vars
  PROVE  Owned'
<1> SUFFICES ASSUME NEW m \in Msgs
             PROVE  /\ OwnName(m)' => Arrived(m)'
                    /\ m \in Direct /\ direct'[m] = "staged" /\ MediaOf[m] # {} =>
                         <<"own", m>> \in files'
  BY DEF Owned
<1>1. OwnIn(db, m) \/ OwnIn(safe, m) \/ <<"own", m>> \in todo => Arrived(m)'
  BY DirectProgress DEF Owned, OwnName, OwnIn, Arrived
<1>2. OwnIn(db', m) \/ OwnIn(safe', m) => Arrived(m)'
  BY <1>1, StepTransacts, AppliedOwn DEF Transacts, Arrived
<1>3. todo' \subseteq todo \union db.journal
  BY DEF Next, vars, Admission, Begin, Reserve, Reject, WriteIntent, WriteArchive,
     WriteMedia, Commit, CommitUncertain, Fail, CheckReference, RemoveIntent, Publish,
     Purge, Coordination, Cleanup, Skip, Unlink, Complete, CleaningFails, Sweep, Capture,
     Synchronize, Reconcile, Reconciled, Hydrate, Install, SynchronizeFails, Deletion,
     BeginDeletion, RemoveFiles, EndDeletion, DeletionFails, DeleteRows, DeleteUncertain,
     Environment, Flush, Age, Crash, CleaningStarts, CleaningEnds,
     DirectDelivery, DirectCheck, DirectStage, DirectSave
<1>4. OwnName(m)' => Arrived(m)'
  BY <1>1, <1>2, <1>3 DEF OwnName, OwnIn
<1>5. ASSUME m \in Direct, direct'[m] = "staged", MediaOf[m] # {}
      PROVE  <<"own", m>> \in files'
  <2>1. CASE DirectStage(m)
    BY <1>5, <2>1 DEF DirectStage
  <2>2. CASE direct[m] = "staged"
    <3>1. <<"own", m>> \in files /\ <<"own", m>> \in OwnFiles
      BY <1>5, <2>2 DEF Owned, OwnFiles
    <3>2. <<"own", m>> \notin todo
      BY <2>2 DEF Owned, OwnName, Arrived
    <3>3. CASE GivesUp
      <4>1. PICK n \in Direct : /\ direct' = [direct EXCEPT ![n] = "arrived"]
                                /\ files' = files \ {<<"own", n>>}
        BY <3>3 DEF GivesUp
      <4>2. n # m
        BY <1>5, <4>1 DEF TypeOK
      <4> QED BY <3>1, <4>1, <4>2
    <3> QED BY <3>1, <3>2, <3>3, Removals DEF Cleans
  <2> QED BY <1>5, <2>1, <2>2, DirectProgress
<1> QED BY <1>4, <1>5

LEMMA FilesInvInit == Init => FilesInv
<1> SUFFICES ASSUME Init PROVE FilesInv
  OBVIOUS
<1>1. Exclusive /\ Staged /\ Aligned
  BY DEF Init, Exclusive, Staged, Aligned, Removing, StagingSteps
<1>2. Owned
  BY DEF Init, Owned, OwnName, EmptyDatabase, Arrived
<1>3. Needed(EmptyDatabase) = {}
  BY DEF Needed, References, NamedBy, EmptyDatabase
<1> QED BY <1>1, <1>2, <1>3 DEF Init, FilesInv

LEMMA FilesInvNext == TypeOK /\ FilesInv /\ [Next]_vars => FilesInv'
<1> SUFFICES ASSUME TypeOK, FilesInv, [Next]_vars PROVE FilesInv'
  OBVIOUS
<1>1. Exclusive' /\ Aligned' /\ Staged' /\ Owned'
  BY ExclusiveStep, AlignedStep, StagedStep, OwnedStep DEF FilesInv
<1>2. db \in Databases /\ safe \in Databases
  BY DEF TypeOK
<1>3. CASE files \subseteq files'
  <2>1. Needed(db') \subseteq files'
    BY <1>3, StepTransacts, AppliedNeeds DEF Transacts, FilesInv
  <2>2. Needed(safe') \subseteq files'
    BY <1>3, <2>1, StepTransacts DEF Transacts, FilesInv
  <2> QED BY <1>1, <2>1, <2>2 DEF FilesInv, Needed, References, NamedBy
<1>4. CASE Cleans
  <2>1. Needed(safe) \subseteq Needed(db)
    BY <1>2, <1>4, AgreedNeeds DEF Cleans, FilesInv, Aligned
  <2>2. Needed(db) \subseteq files'
    BY <1>4 DEF Cleans, FilesInv
  <2> QED BY <1>1, <1>4, <2>1, <2>2 DEF Cleans, FilesInv, Needed, References, NamedBy
<1>5. CASE GivesUp
  <2>1. PICK m \in Direct : /\ direct[m] = "staged" /\ UNCHANGED <<db, safe>>
                            /\ files' = files \ {<<"own", m>>}
    BY <1>5 DEF GivesUp
  <2>2. m \in Msgs /\ db.rows[m] # "own" /\ safe.rows[m] # "own"
    BY <2>1, DirectAssumption, InboundAssumption DEF FilesInv, Owned, OwnName, Arrived
  <2>3. ASSUME NEW d \in Databases, d.rows[m] # "own" PROVE <<"own", m>> \notin Needed(d)
    <3>1. <<"own", m>> \notin d.effects
      BY DEF Databases, Archives
    <3>2. \A n \in Msgs : <<"own", m>> \notin NamedBy(d, n)
      BY <2>3 DEF NamedBy, ManifestOf
    <3> QED BY <3>1, <3>2 DEF Needed, References
  <2>4. Needed(db) \subseteq files' /\ Needed(safe) \subseteq files'
    BY <1>2, <2>1, <2>2, <2>3 DEF FilesInv
  <2> QED BY <1>1, <2>1, <2>4 DEF FilesInv, Needed, References, NamedBy
<1> QED BY <1>3, <1>4, <1>5, Removals

LEMMA FilesHeld == TypeOK /\ FilesInv => FilesPresent
<1> SUFFICES ASSUME TypeOK, FilesInv, NEW d \in Views PROVE
      d.effects \subseteq files /\ \A m \in Msgs : NamedBy(d, m) \subseteq files
  BY DEF FilesPresent, RowMediaPresent, ArchivesPresent
<1>1. d \in Databases /\ Needed(d) \subseteq files
  BY DEF Views, TypeOK, FilesInv
<1> QED BY <1>1, ReferencesType DEF References

(* Whatever a chat row names can be opened and every archive is there, in  *)
(* the database and in what a crash leaves of it, with direct deliveries   *)
(* and with messages that share their media: cleaners remove only what     *)
(* nothing refers to, at a time when the crash copy lacks nothing but      *)
(* direct deliveries, and a delivery that fails removes a file no row ever *)
(* named.                                                                  *)
THEOREM NothingNamedIsLost == Spec => []FilesPresent
BY FilesInvInit, FilesInvNext, FilesHeld, TypeCorrect, PTL DEF Spec

-----------------------------------------------------------------------------
(* Deliveries that pass through admission only: a row names its media by   *)
(* content, and an effect is named by its row or has no media.             *)
Named(d) ==
  \A m \in Msgs :
    /\ d.rows[m] # "own"
    /\ HasEffect(d, m) /\ m \in Chat => d.rows[m] = "hashed"

LEMMA AdmittedNamed ==
  ASSUME NEW d \in Databases, Named(d), NEW t \in Tids,
         NEW disposition \in Dispositions
  PROVE  Named(Admitted(d, t, disposition))
<1> DEFINE e == Admitted(d, t, disposition)
<1>1. MsgOf[t] \in Msgs /\ ArchiveOf(t)[2] = MsgOf[t]
  BY InboundAssumption DEF ArchiveOf
<1>2. e.effects = IF disposition = "committed"
                  THEN d.effects \union {ArchiveOf(t)} ELSE d.effects
  BY DEF Admitted
<1>3. e.rows = [d.rows EXCEPT ![MsgOf[t]] =
                  IF disposition = "committed" /\ MsgOf[t] \in Chat /\ @ = "absent"
                  THEN "hashed" ELSE @]
  BY DEF Admitted
<1>4. ASSUME NEW m \in Msgs
      PROVE  /\ e.rows[m] # "own"
             /\ HasEffect(e, m) /\ m \in Chat => e.rows[m] = "hashed"
  <2>1. CASE m = MsgOf[t] /\ disposition = "committed"
    BY <1>1, <1>3, <2>1 DEF Named, Databases, Projections
  <2>2. CASE ~(m = MsgOf[t] /\ disposition = "committed")
    <3>1. EffectsOf(e, m) = EffectsOf(d, m)
      BY <1>1, <1>2, <2>2 DEF EffectsOf
    <3>2. e.rows[m] = d.rows[m]
      BY <1>1, <1>3, <2>2 DEF Databases
    <3> QED BY <3>1, <3>2 DEF Named, HasEffect
  <2> QED BY <2>1, <2>2
<1> QED BY <1>4 DEF Named

LEMMA DeletedNamed ==
  ASSUME NEW d \in Databases, Named(d), NEW selected \in SUBSET Msgs
  PROVE  Named(Deleted(d, selected))
<1> DEFINE e == Deleted(d, selected)
<1>1. \A a : a \in e.effects <=> a \in d.effects /\ a[2] \notin selected
  BY DEF Deleted, EffectsOf
<1>2. \A m \in Msgs : e.rows[m] = IF m \in selected THEN "absent" ELSE d.rows[m]
  BY DEF Deleted
<1> QED BY <1>1, <1>2 DEF Named, HasEffect, EffectsOf

(* Purging receipts and completing journal entries leave rows and effects. *)
LEMMA SameNamed ==
  ASSUME NEW d, Named(d), NEW e, e.rows = d.rows, e.effects = d.effects
  PROVE  Named(e)
  BY DEF Named, HasEffect, EffectsOf

LEMMA AppliedNamed ==
  ASSUME Direct = {}, TypeOK, Named(db), NEW e, Applied(db, e)
  PROVE  Named(e)
<1>1. db \in Databases /\ job \subseteq Tids
  BY DEF TypeOK
<1>2. ASSUME NEW t \in job, NEW expired \in SUBSET Tids,
             NEW disposition \in Outcomes(Purged(db, expired), t, files),
             e = Admitted(Purged(db, expired), t, disposition)
      PROVE  Named(e)
  <2> DEFINE p == Purged(db, expired)
  <2>1. p \in Databases /\ disposition \in Dispositions /\ t \in Tids
    BY <1>1, PurgedType, OutcomesType
  <2>2. p.rows = db.rows /\ p.effects = db.effects
    BY DEF Purged
  <2>3. Named(p)
    BY <2>2, SameNamed
  <2> QED BY <1>2, <2>1, <2>3, AdmittedNamed
<1>3. ASSUME e = Completed(db, done) PROVE Named(e)
  <2>1. e.rows = db.rows /\ e.effects = db.effects
    BY <1>3 DEF Completed
  <2> QED BY <2>1, SameNamed
<1> QED BY <1>1, <1>2, <1>3, DeletedNamed DEF Applied

NamedInv == Named(db) /\ Named(safe)

LEMMA NamedInvInit == Init => NamedInv
  BY DEF Init, NamedInv, Named, EmptyDatabase, HasEffect, EffectsOf

LEMMA NamedInvNext ==
  ASSUME Direct = {}
  PROVE  TypeOK /\ NamedInv /\ [Next]_vars => NamedInv'
<1> SUFFICES ASSUME TypeOK, NamedInv, [Next]_vars PROVE Named(db') /\ Named(safe')
  BY DEF NamedInv, Named, HasEffect, EffectsOf
<1> QED BY StepTransacts, AppliedNamed DEF Transacts, NamedInv

(* No cleaner ever takes a file a retained effect needs, in the database   *)
(* or in what a crash leaves of it.  A cleaner asks only for references    *)
(* from effects and rows, which is enough as long as every row names its   *)
(* media by content (Named); a direct copy owns its row under other names, *)
(* and then it is not: hence no direct delivery here.                      *)
THEOREM RetainedFilesKept ==
  ASSUME Direct = {}
  PROVE  Spec => []RetainedFilesPresent
<1>1. NamedInv /\ TypeOK /\ FilesPresent => RetainedFilesPresent
  <2> SUFFICES ASSUME NamedInv, TypeOK, FilesPresent, NEW d \in Views, NEW m \in Msgs,
                      NEW a \in EffectsOf(d, m)
               PROVE  {a} \union ManifestOf(m) \subseteq files
    BY DEF RetainedFilesPresent
  <2>1. a \in files /\ HasEffect(d, m)
    BY DEF FilesPresent, ArchivesPresent, EffectsOf, HasEffect
  <2>2. ManifestOf(m) \subseteq files
    <3>1. CASE m \in Chat
      <4>1. d.rows[m] = "hashed"
        BY <2>1, <3>1 DEF NamedInv, Views, Named
      <4> QED BY <4>1 DEF FilesPresent, RowMediaPresent, NamedBy
    <3>2. CASE m \notin Chat
      BY <3>2, InboundAssumption DEF ManifestOf
    <3> QED BY <3>1, <3>2
  <2> QED BY <2>1, <2>2
<1> QED BY <1>1, NamedInvInit, NamedInvNext, NothingNamedIsLost, TypeCorrect, PTL DEF Spec

-----------------------------------------------------------------------------
(* The inductive invariant behind NoOrphans.                               *)
Accounted(f) == \A d \in Views : f \in d.journal \/ References(d, f)

(* The job's intent stands until it is removed, and a reconciliation only  *)
(* counts on intents that stand.                                           *)
Watched ==
  /\ pc \in {"write_archive", "write_media", "commit", "check_reference", "remove_intent"}
       => job \subseteq intents
  /\ pc = "reconcile" => owners \subseteq intents

(* What a cleaner strikes from the journal is gone.                        *)
Gone ==
  /\ done \intersect files = {}
  /\ done # {} => pc = "sweep" \/ dpc = "clean"

(* A reference found is one the crash copy has too, and by the removal of  *)
(* the intent the files are accounted for without it.                      *)
Checked ==
  /\ pc = "check_reference" => db.effects \subseteq safe.effects
  /\ pc = "remove_intent" =>
       \A t \in job : \A f \in StagedFiles(t) \intersect files : Accounted(f)

OrphanInv == NoOrphans /\ Watched /\ Gone /\ Checked

(* Files are written by the job, under its intent, and by direct           *)
(* deliveries; nothing is committed meanwhile.                             *)
LEMMA Written ==
  ASSUME Direct = {}, [Next]_vars
  PROVE  \/ files' \subseteq files
         \/ /\ pc \in {"write_archive", "write_media"} /\ intents' = intents
            /\ UNCHANGED <<db, safe, done, job>>
            /\ \E t \in job : files' \subseteq files \union StagedFiles(t)
<1>1. CASE WriteArchive \/ WriteMedia
  BY <1>1 DEF WriteArchive, WriteMedia, StagedFiles
<1>2. CASE ~(WriteArchive \/ WriteMedia)
  BY <1>2 DEF Next, vars, Admission, Begin, Reserve, Reject, WriteIntent,
     Commit, CommitUncertain, Fail, CheckReference, RemoveIntent, Publish,
     Purge, Coordination, Cleanup, Skip, Unlink, Complete, CleaningFails, Sweep, Capture,
     Synchronize, Reconcile, Reconciled, Hydrate, Install, SynchronizeFails, Deletion,
     BeginDeletion, RemoveFiles, EndDeletion, DeletionFails, DeleteRows, DeleteUncertain,
     Environment, Flush, Age, Crash, DirectDelivery
<1> QED BY <1>1, <1>2

(* A transaction drops a reference only by journaling it, and the journal  *)
(* forgets only what is gone.                                              *)
LEMMA AppliedAccounts ==
  ASSUME Direct = {}, TypeOK, NEW e, Applied(db, e), NEW f, f \notin done,
         f \in db.journal \/ References(db, f)
  PROVE  f \in e.journal \/ References(e, f)
<1>1. db \in Databases /\ job \subseteq Tids
  BY DEF TypeOK
<1>2. ASSUME NEW t \in job, NEW expired \in SUBSET Tids,
             NEW disposition \in Outcomes(Purged(db, expired), t, files),
             e = Admitted(Purged(db, expired), t, disposition)
      PROVE  f \in e.journal \/ References(e, f)
  <2> DEFINE p == Purged(db, expired)
  <2>1. p \in Databases /\ disposition \in Dispositions /\ t \in Tids
    BY <1>1, PurgedType, OutcomesType
  <2>2. p.rows = db.rows /\ p.effects = db.effects /\ e.journal = db.journal
    BY <1>2 DEF Purged, Admitted
  <2>3. Needed(p) = Needed(db) /\ Needed(p) \subseteq Needed(e)
    BY <1>2, <2>1, <2>2, SameNeeds, AdmittedNeeds
  <2>4. References(db, f) => f \in Needed(e)
    BY <1>1, <2>3, ReferencesType
  <2> QED BY <2>2, <2>4 DEF Needed
<1>3. ASSUME NEW selected \in SUBSET Msgs, e = Deleted(db, selected)
      PROVE  f \in e.journal \/ References(e, f)
  <2>1. CASE f \in db.journal
    BY <1>3, <2>1 DEF Deleted
  <2>2. CASE f \in db.effects
    <3>1. f[2] \in Msgs
      BY <1>1, <2>2 DEF Databases, Archives
    <3> QED BY <1>3, <2>2, <3>1 DEF Deleted, EffectsOf, References
  <2>3. ASSUME NEW m \in Msgs, f \in NamedBy(db, m)
        PROVE  f \in e.journal \/ References(e, f)
    <3>1. CASE m \in selected
      BY <1>3, <2>3, <3>1 DEF Deleted
    <3>2. CASE m \notin selected
      BY <1>3, <2>3, <3>2 DEF Deleted, NamedBy, References
    <3> QED BY <3>1, <3>2
  <2> QED BY <2>1, <2>2, <2>3 DEF References
<1>4. ASSUME e = Completed(db, done) PROVE f \in e.journal \/ References(e, f)
  BY <1>4 DEF Completed, References, NamedBy
<1> QED BY <1>2, <1>3, <1>4 DEF Applied

LEMMA AccountedKept ==
  ASSUME Direct = {}, TypeOK, Gone, [Next]_vars, NEW f \in files', Accounted(f)
  PROVE  Accounted(f)'
<1>1. CASE UNCHANGED <<db, safe>>
  BY <1>1 DEF Accounted, Views, References, NamedBy
<1>2. CASE files' \subseteq files
  <2>1. f \notin done
    BY <1>2 DEF Gone
  <2>2. f \in db'.journal \/ References(db', f)
    BY <2>1, StepTransacts, AppliedAccounts DEF Transacts, Accounted, Views
  <2>3. f \in safe'.journal \/ References(safe', f)
    BY <2>2, StepTransacts DEF Transacts, Accounted, Views
  <2> QED BY <2>2, <2>3 DEF Accounted, Views, References, NamedBy
<1> QED BY <1>1, <1>2, Written

(* An effect refers to all its ciphertext staged.                          *)
LEMMA EffectRefers ==
  ASSUME NEW d \in Databases, Named(d), NEW t \in Tids, ArchiveOf(t) \in d.effects,
         NEW f \in StagedFiles(t)
  PROVE  References(d, f)
<1>1. MsgOf[t] \in Msgs /\ HasEffect(d, MsgOf[t])
  BY InboundAssumption DEF HasEffect, EffectsOf, ArchiveOf
<1>2. CASE f = ArchiveOf(t)
  BY <1>2 DEF References
<1>3. CASE f \in ManifestOf(MsgOf[t])
  <2>1. MsgOf[t] \in Chat
    BY <1>1, <1>3, InboundAssumption DEF ManifestOf
  <2> QED BY <1>1, <1>3, <2>1 DEF Named, References, NamedBy
<1> QED BY <1>2, <1>3 DEF StagedFiles

(* While a reconciliation goes on, what the database refers to is in the   *)
(* crash copy.                                                             *)
LEMMA ReconciledAccounts ==
  ASSUME TypeOK, FilesInv, NamedInv, Removing, NEW f, References(db, f)
  PROVE  Accounted(f)
<1>1. AgreesWith(safe, db) /\ \A m \in Msgs : db.rows[m] # "own"
  BY DEF FilesInv, Aligned, NamedInv, Named
<1>2. \A m \in Msgs : NamedBy(safe, m) = NamedBy(db, m)
  BY <1>1 DEF AgreesWith, NamedBy
<1> QED BY <1>1, <1>2 DEF AgreesWith, Accounted, Views, References

LEMMA WatchedStep ==
  ASSUME Staged, Watched, [Next]_vars
  PROVE  Watched'
<1> USE DEF Watched, LoopIdles
<1>1. CASE UNCHANGED vars
  BY <1>1 DEF vars
<1>0. CASE WriteIntent
  BY <1>0 DEF WriteIntent, Staged
<1>2. CASE Admission
  BY <1>0, <1>2 DEF Admission, Begin, Reserve, Reject, WriteArchive,
              WriteMedia, Commit, CommitUncertain, Fail, CheckReference,
              RemoveIntent, Publish, Purge
<1>3. ASSUME NEW who \in {"loop", "delete"}, Cleanup(who) PROVE Watched'
  BY <1>3 DEF Cleanup, Skip, Unlink, Complete, CleaningFails, Cleaning, Released
<1>4. CASE Coordination
  BY <1>3, <1>4 DEF Coordination, Sweep, Capture, Synchronize, Reconcile, Reconciled,
              Hydrate, Install, SynchronizeFails
<1>5. CASE Deletion
  BY <1>3, <1>5 DEF Deletion, BeginDeletion, RemoveFiles, EndDeletion,
              DeletionFails, DeleteRows, DeleteUncertain, Revoke
<1>6. CASE DirectDelivery
  BY <1>6 DEF DirectDelivery, DirectCheck, DirectStage, DirectSave
<1>7. CASE Environment
  BY <1>7 DEF Environment, Flush, Crash, Age
<1> QED BY <1>1, <1>2, <1>4, <1>5, <1>6, <1>7 DEF Next

(* A journaled file that was removed is not written again before the       *)
(* journal forgets it: writing takes the permit the cleaner holds.         *)
LEMMA GoneStep ==
  ASSUME Direct = {}, Exclusive, Gone, [Next]_vars
  PROVE  Gone'
<1> USE DEF Exclusive, Gone, StagingSteps, LoopIdles
<1>1. CASE UNCHANGED vars
  BY <1>1 DEF vars
<1>2. CASE WriteArchive \/ WriteMedia
  <2>1. done = {} /\ done' = done
    BY <1>2 DEF WriteArchive, WriteMedia
  <2> QED BY <2>1
<1>3. CASE Admission /\ ~WriteArchive /\ ~WriteMedia
  BY <1>3 DEF Admission, Begin, Reserve, Reject, WriteIntent, Commit, CommitUncertain,
              Fail, CheckReference, RemoveIntent, Publish, Purge
<1>4. ASSUME NEW who \in {"loop", "delete"}, Cleanup(who) PROVE Gone'
  BY <1>4 DEF Cleanup, Skip, Unlink, Complete, CleaningFails, Cleaning, Released,
              CleaningEnds
<1>5. CASE Coordination
  BY <1>4, <1>5 DEF Coordination, Sweep, Capture, Synchronize, Reconcile, Reconciled,
              Hydrate, Install, SynchronizeFails, CleaningStarts
<1>6. CASE Deletion
  BY <1>4, <1>6 DEF Deletion, BeginDeletion, RemoveFiles, EndDeletion,
              DeletionFails, DeleteRows, DeleteUncertain, CleaningStarts
<1>7. CASE DirectDelivery
  BY <1>7 DEF DirectDelivery
<1>8. CASE Environment
  BY <1>8 DEF Environment, Flush, Crash, Age, CleaningEnds
<1> QED BY <1>1, <1>2, <1>3, <1>5, <1>6, <1>7, <1>8 DEF Next

(* Between the look at the reference and the removal of the intent only    *)
(* deletions commit, and they journal what they drop.                      *)
LEMMA CheckedStep ==
  ASSUME Direct = {}, TypeOK, FilesInv, NamedInv, Gone, Checked, [Next]_vars
  PROVE  Checked'
<1>1. ASSUME pc' = "check_reference" PROVE db'.effects \subseteq safe'.effects
  <2>1. CASE Commit
    BY <2>1 DEF Commit, Commits
  <2>2. CASE pc = "check_reference"
    <3>1. db.effects \subseteq safe.effects
      BY <2>2 DEF Checked
    <3>2. db'.effects \subseteq db.effects \/ db'.effects \subseteq safe'.effects
      <4>1. ASSUME NEW selected \in SUBSET Msgs PROVE Deleted(db, selected).effects \subseteq db.effects
        BY DEF Deleted
      <4>2. Completed(db, done).effects = db.effects
        BY DEF Completed, TypeOK, Databases
      <4> QED BY <2>2, <4>1, <4>2, StepTransacts DEF Transacts, Applied
    <3> QED BY <3>1, <3>2, StepTransacts DEF Transacts
  <2>3. CASE ~Commit /\ pc # "check_reference"
    BY <1>1, <2>3 DEF Next, vars, Admission, Begin, Reserve, Reject, WriteIntent,
       WriteArchive, WriteMedia, CommitUncertain, Fail, CheckReference, RemoveIntent,
       Publish, Purge, Coordination, Cleanup, Skip, Unlink, Complete, CleaningFails,
       Released, Sweep, Capture, Synchronize, Reconcile, Reconciled, Hydrate, Install,
       SynchronizeFails, Deletion, BeginDeletion, RemoveFiles, EndDeletion, DeletionFails,
       DeleteRows, DeleteUncertain, Environment, Flush, Age, Crash, DirectDelivery,
       LoopIdles
  <2> QED BY <2>1, <2>2, <2>3
<1>2. ASSUME pc' = "remove_intent", NEW t \in job', NEW f \in StagedFiles(t) \intersect files'
      PROVE  Accounted(f)'
  <2>1. CASE CheckReference
    <3>1. t \in Tids /\ db \in Databases /\ safe \in Databases
      BY <2>1 DEF CheckReference, TypeOK
    <3>2. References(db, ArchiveOf(t))
      <4>1. \E u \in job : References(db, ArchiveOf(u))
        BY <1>2, <2>1 DEF CheckReference
      <4> QED BY <1>2, <2>1, <4>1 DEF CheckReference, FilesInv, Staged
    <3>3. \A m \in Msgs : ArchiveOf(t) \notin NamedBy(db, m)
      BY DEF NamedBy, ArchiveOf, ManifestOf
    <3>4. ArchiveOf(t) \in db.effects /\ ArchiveOf(t) \in safe.effects
      BY <2>1, <3>2, <3>3 DEF References, CheckReference, Checked
    <3>5. References(db, f) /\ References(safe, f)
      BY <3>1, <3>4, EffectRefers, <1>2 DEF NamedInv
    <3> QED BY <2>1, <3>5 DEF CheckReference, Accounted, Views, References, NamedBy
  <2>2. CASE pc = "remove_intent"
    <3>1. job' = job /\ files' \subseteq files
      BY <1>2, <2>2 DEF Next, vars, Admission, Begin, Reserve, Reject, WriteIntent,
         WriteArchive, WriteMedia, Commit, CommitUncertain, Fail, CheckReference,
         RemoveIntent, Publish, Purge, Coordination, Cleanup, Skip, Unlink, Complete,
         CleaningFails, Sweep, Capture, Synchronize, Reconcile, Reconciled, Hydrate,
         Install, SynchronizeFails, Deletion, BeginDeletion, RemoveFiles, EndDeletion,
         DeletionFails, DeleteRows, DeleteUncertain, Environment, Flush, Age, Crash,
         DirectDelivery, LoopIdles
    <3>2. Accounted(f)
      BY <1>2, <2>2, <3>1 DEF Checked
    <3> QED BY <1>2, <3>2, AccountedKept
  <2>3. CASE ~CheckReference /\ pc # "remove_intent"
    BY <1>2, <2>3 DEF Next, vars, Admission, Begin, Reserve, Reject, WriteIntent,
       WriteArchive, WriteMedia, Commit, CommitUncertain, Fail, RemoveIntent,
       Publish, Purge, Coordination, Cleanup, Skip, Unlink, Complete, CleaningFails,
       Released, Sweep, Capture, Synchronize, Reconcile, Reconciled, Hydrate, Install,
       SynchronizeFails, Deletion, BeginDeletion, RemoveFiles, EndDeletion, DeletionFails,
       DeleteRows, DeleteUncertain, Environment, Flush, Age, Crash, DirectDelivery,
       LoopIdles
  <2> QED BY <2>1, <2>2, <2>3
<1> QED BY <1>1, <1>2 DEF Checked, Accounted, Views, References, NamedBy

(* An intent goes when its files are accounted for, or another intent      *)
(* stages them.                                                            *)
LEMMA Forgotten ==
  ASSUME Direct = {}, TypeOK, FilesInv, NamedInv, OrphanInv, [Next]_vars,
         NEW t \in intents, t \notin intents', NEW f \in StagedFiles(t) \intersect files
  PROVE  Accounted(f) \/ \E u \in intents' : f \in StagedFiles(u)
<1>1. CASE RemoveIntent
  <2>1. t \in job /\ pc = "remove_intent"
    BY <1>1 DEF RemoveIntent
  <2> QED BY <2>1 DEF OrphanInv, Checked
<1>2. ASSUME NEW u \in Tids, Reconcile(u) PROVE Accounted(f) \/ \E o \in intents' : f \in StagedFiles(o)
  <2>1. u = t /\ intents' = intents \ {t} /\ Removing
    BY <1>2 DEF Reconcile, Removing
  <2>2. owners \subseteq intents
    BY <1>2 DEF OrphanInv, Watched, Reconcile
  <2>3. CASE ArchiveOf(t) \in db.effects
    <3>1. References(db, f)
      BY <2>3, EffectRefers DEF TypeOK, NamedInv
    <3> QED BY <2>1, <3>1, ReconciledAccounts
  <2>4. CASE Removable(t) = {}
    <3>1. (\E o \in owners \ {t} : f \in StagedFiles(o)) \/ References(db, f)
      BY <2>4 DEF Removable
    <3> QED BY <2>1, <2>2, <3>1, ReconciledAccounts
  <2>5. ArchiveOf(t) \in db.effects \/ Removable(t) = {}
    BY <1>2, <2>1 DEF Reconcile
  <2> QED BY <2>3, <2>4, <2>5
<1>3. RemoveIntent \/ \E u \in Tids : Reconcile(u)
  BY DEF Next, vars, Admission, Begin, Reserve, Reject, WriteIntent,
     WriteArchive, WriteMedia, Commit, CommitUncertain, Fail, CheckReference,
     Publish, Purge, Coordination, Cleanup, Skip, Unlink, Complete, CleaningFails,
     Sweep, Capture, Synchronize, Reconciled, Hydrate, Install, SynchronizeFails,
     Deletion, BeginDeletion, RemoveFiles, EndDeletion, DeletionFails,
     DeleteRows, DeleteUncertain, Environment, Flush, Age, Crash, DirectDelivery
<1> QED BY <1>1, <1>2, <1>3

LEMMA OrphanInvNext ==
  ASSUME Direct = {}
  PROVE  TypeOK /\ FilesInv /\ NamedInv /\ OrphanInv /\ [Next]_vars => OrphanInv'
<1> SUFFICES ASSUME TypeOK, FilesInv, NamedInv, OrphanInv, [Next]_vars PROVE OrphanInv'
  OBVIOUS
<1>1. Watched' /\ Gone' /\ Checked'
  BY WatchedStep, GoneStep, CheckedStep DEF OrphanInv, FilesInv
<1>2. ASSUME NEW f \in files' \ OwnFiles
      PROVE  (\E t \in intents' : f \in StagedFiles(t)) \/ Accounted(f)'
  <2>1. CASE Accounted(f)
    BY <1>2, <2>1, AccountedKept DEF OrphanInv
  <2>2. CASE f \in files /\ ~Accounted(f)
    <3>1. PICK t \in intents : f \in StagedFiles(t)
      BY <1>2, <2>2 DEF OrphanInv, NoOrphans, Accounted
    <3> QED BY <2>2, <3>1, Forgotten
  <2>3. CASE f \notin files
    BY <1>2, <2>3, Written DEF OrphanInv, Watched
  <2> QED BY <2>1, <2>2, <2>3
<1> QED BY <1>1, <1>2 DEF OrphanInv, NoOrphans, Accounted, Views, References, NamedBy

(* No staged file is forgotten: as long as messages come by way of         *)
(* admission, every archive and every media file is accounted for by an    *)
(* intent, a reference or the deletion journal, in the database and in     *)
(* what a crash leaves of it.  A message that also arrives directly can    *)
(* leave the downloaded media behind, which its row never names.           *)
THEOREM NoFileForgotten ==
  ASSUME Direct = {}
  PROVE  Spec => []NoOrphans
<1>1. Init => OrphanInv
  BY DEF Init, OrphanInv, NoOrphans, Watched, Gone, Checked
<1>2. OrphanInv => NoOrphans
  BY DEF OrphanInv
<1> QED BY <1>1, <1>2, OrphanInvNext, NamedInvInit, NamedInvNext, FilesInvInit,
           FilesInvNext, TypeCorrect, PTL DEF Spec
=============================================================================
