-------------------------- MODULE MessageFatesProofs --------------------------
(***************************************************************************)
(* DurableAdmission implements MessageFates, for every set of messages and *)
(* ciphertexts.  The argument: a transaction only moves fates forward, the *)
(* crash copy is never ahead of the database, and what the loop acts on    *)
(* was settled in the crash copy when it was written down.  From the same  *)
(* invariant, with the one about files of DurableAdmissionProofs, follows  *)
(* what the client may tell the node (PurgeAuthority).                     *)
(***************************************************************************)
EXTENDS DurableAdmissionProofs

Decided(d, m) == m \in d.deleted \/ HasEffect(d, m)
Safely(d, t)  == Decided(d, MsgOf[t]) \/ t \in d.refused

(* e is d or a later state of the same database.                           *)
Later(d, e) ==
  /\ d.deleted \subseteq e.deleted
  /\ \A m \in Msgs : HasEffect(d, m) => Decided(e, m)
  /\ \A t \in d.refused \ e.refused : Decided(e, MsgOf[t])

(* A discard receipt has its reason.                                       *)
Reasoned(d) ==
  \A t \in Tids :
    /\ d.receipts[t] = "policy_discard" => t \in d.refused
    /\ d.receipts[t] = "user_deleted" => MsgOf[t] \in d.deleted

-----------------------------------------------------------------------------
LEMMA LaterTransitive ==
  ASSUME NEW d \in Databases, NEW e \in Databases, NEW f \in Databases,
         Later(d, e), Later(e, f)
  PROVE  Later(d, f)
<1>1. \A m \in Msgs : Decided(e, m) => Decided(f, m)
  BY DEF Later, Decided
<1>2. \A t \in d.refused \ f.refused : MsgOf[t] \in Msgs
  BY InboundAssumption DEF Databases
<1> QED BY <1>1, <1>2 DEF Later, Decided

LEMMA LaterSafely ==
  ASSUME NEW d \in Databases, NEW e \in Databases, Later(d, e),
         NEW t \in Tids, Safely(d, t)
  PROVE  Safely(e, t)
<1>1. MsgOf[t] \in Msgs
  BY InboundAssumption
<1> QED BY <1>1 DEF Later, Safely, Decided

LEMMA PurgedLater ==
  ASSUME NEW d \in Databases, NEW expired
  PROVE  Later(d, Purged(d, expired)) /\ (Reasoned(d) => Reasoned(Purged(d, expired)))
<1> DEFINE e == Purged(d, expired)
<1>1. /\ e.deleted = d.deleted /\ e.effects = d.effects /\ e.refused = d.refused
      /\ e.receipts = [t \in Tids |-> IF t \in expired THEN "none" ELSE d.receipts[t]]
  BY DEF Purged, Databases
<1> QED BY <1>1 DEF Later, Decided, HasEffect, EffectsOf, Reasoned

LEMMA AdmittedLater ==
  ASSUME NEW d \in Databases, NEW t \in Tids, NEW fs,
         NEW disposition \in Outcomes(d, t, fs)
  PROVE  /\ Later(d, Admitted(d, t, disposition))
         /\ Reasoned(d) => Reasoned(Admitted(d, t, disposition))
         /\ Safely(Admitted(d, t, disposition), t)
         /\ disposition = "committed" =>
              /\ ~Decided(d, MsgOf[t])
              /\ HasEffect(Admitted(d, t, disposition), MsgOf[t])
              /\ MsgOf[t] \notin Admitted(d, t, disposition).deleted
<1> DEFINE e == Admitted(d, t, disposition)
<1>1. MsgOf[t] \in Msgs /\ ArchiveOf(t)[2] = MsgOf[t]
  BY InboundAssumption DEF ArchiveOf
<1>2. /\ e.deleted = d.deleted
      /\ e.effects = IF disposition = "committed"
                     THEN d.effects \union {ArchiveOf(t)} ELSE d.effects
      /\ e.receipts = [d.receipts EXCEPT ![t] = disposition]
      /\ e.refused = IF disposition = "policy_discard"
                     THEN d.refused \union {t} ELSE d.refused \ {t}
  BY DEF Admitted, Databases
<1>3. /\ disposition = "committed" => ~Decided(d, MsgOf[t])
      /\ disposition = "duplicate" => HasEffect(d, MsgOf[t])
      /\ disposition = "user_deleted" => MsgOf[t] \in d.deleted
      /\ disposition \in {"committed", "duplicate", "user_deleted", "policy_discard"}
  BY DEF Outcomes, Discards, Decided
<1>4. \A m \in Msgs : HasEffect(d, m) => HasEffect(e, m)
  BY <1>2 DEF HasEffect, EffectsOf
<1>5. disposition = "committed" => HasEffect(e, MsgOf[t])
  BY <1>1, <1>2 DEF HasEffect, EffectsOf
<1>6. disposition # "policy_discard" => Decided(e, MsgOf[t])
  BY <1>1, <1>2, <1>3, <1>4, <1>5 DEF Decided
<1>7. Later(d, e)
  BY <1>2, <1>4, <1>6 DEF Later, Decided
<1>8. Safely(e, t)
  BY <1>2, <1>6 DEF Safely
<1>9. ASSUME Reasoned(d) PROVE Reasoned(e)
  BY <1>2, <1>3, <1>9 DEF Reasoned, Databases
<1>10. disposition = "committed" => MsgOf[t] \notin e.deleted
  BY <1>2, <1>3 DEF Decided
<1> QED BY <1>3, <1>5, <1>7, <1>8, <1>9, <1>10

LEMMA DeletedLater ==
  ASSUME NEW d \in Databases, NEW selected \in SUBSET Msgs
  PROVE  Later(d, Deleted(d, selected)) /\ (Reasoned(d) => Reasoned(Deleted(d, selected)))
<1> DEFINE e == Deleted(d, selected)
<1>1. /\ e.deleted = d.deleted \union selected
      /\ \A a : a \in e.effects <=> a \in d.effects /\ a[2] \notin selected
      /\ e.refused = d.refused
  BY DEF Deleted, EffectsOf
<1>2. \A t \in Tids :
        e.receipts[t] = IF MsgOf[t] \in selected THEN "none" ELSE d.receipts[t]
  BY DEF Deleted
<1>3. Later(d, e)
  BY <1>1 DEF Later, Decided, HasEffect, EffectsOf
<1> QED BY <1>1, <1>2, <1>3 DEF Reasoned

(* Every transaction moves fates forward and gives every discard a reason. *)
LEMMA AppliedLater ==
  ASSUME TypeOK, NEW d \in Databases, NEW e, Applied(d, e)
  PROVE  e \in Databases /\ Later(d, e) /\ (Reasoned(d) => Reasoned(e))
<1>1. CASE e = d
  BY <1>1 DEF Later, Decided
<1>2. ASSUME NEW t \in job, NEW expired \in SUBSET Tids,
             NEW disposition \in Outcomes(Purged(d, expired), t, files),
             e = Admitted(Purged(d, expired), t, disposition)
      PROVE  e \in Databases /\ Later(d, e) /\ (Reasoned(d) => Reasoned(e))
  <2>1. t \in Tids /\ Purged(d, expired) \in Databases
    BY PurgedType DEF TypeOK
  <2>2. Later(d, Purged(d, expired)) /\ (Reasoned(d) => Reasoned(Purged(d, expired)))
    BY PurgedLater
  <2>3. /\ Later(Purged(d, expired), e)
        /\ Reasoned(Purged(d, expired)) => Reasoned(e)
    BY <1>2, <2>1, AdmittedLater
  <2>4. e \in Databases
    BY <1>2, <2>1, AdmittedType, OutcomesType
  <2> QED BY <2>1, <2>2, <2>3, <2>4, LaterTransitive
<1>3. ASSUME NEW selected \in SUBSET Msgs, e = Deleted(d, selected)
      PROVE  e \in Databases /\ Later(d, e) /\ (Reasoned(d) => Reasoned(e))
  BY <1>3, DeletedLater, DeletedType
<1>4. ASSUME e = Completed(d, done)
      PROVE  e \in Databases /\ Later(d, e) /\ (Reasoned(d) => Reasoned(e))
  <2>1. /\ e.deleted = d.deleted /\ e.effects = d.effects
        /\ e.refused = d.refused /\ e.receipts = d.receipts
    BY <1>4 DEF Completed, Databases
  <2> QED BY <1>4, <2>1, CompletedType DEF Later, Decided, HasEffect, EffectsOf, Reasoned
<1>5. ASSUME NEW m \in Direct, e = SavedDirectly(d, m)
      PROVE  e \in Databases /\ Later(d, e) /\ (Reasoned(d) => Reasoned(e))
  <2>1. m \in Msgs
    BY DirectAssumption, InboundAssumption
  <2>2. /\ e.deleted = d.deleted /\ e.effects = d.effects
        /\ e.refused = d.refused /\ e.receipts = d.receipts
    BY <1>5 DEF SavedDirectly, Databases
  <2> QED BY <1>5, <2>1, <2>2, SavedType DEF Later, Decided, HasEffect, EffectsOf, Reasoned
<1> QED BY <1>1, <1>2, <1>3, <1>4, <1>5 DEF Applied

-----------------------------------------------------------------------------
(* The inductive invariant.                                                *)
Admitting  == {"reserve"} \union StagingSteps
Accepted   == {"check_reference", "remove_intent", "publish"}

(* The databases: the crash copy is not ahead, and discards have reasons.  *)
Ordered == Later(safe, db) /\ Reasoned(safe) /\ Reasoned(db)

(* A deletion in progress leaves nothing installed and no token current.   *)
Fenced ==
  /\ dpc # "idle" => ~installed
  /\ pc \in Admitting \union Accepted /\ live => dpc = "idle"

(* What the loop holds is settled on disk.                                 *)
Grounded ==
  /\ \A t \in haves \union found : Safely(safe, t)
  /\ pc \in Accepted => \A t \in job : Safely(safe, t)
  /\ \A t, u \in job : t = u

(* A message about to be published is on disk and was not shown before.    *)
Fresh ==
  /\ \A m \in Msgs : shown[m] = 0 \/ (shown[m] = 1 /\ Decided(safe, m))
  /\ pc \in Accepted /\ outcome = "committed" =>
       \A t \in job :
         /\ shown[MsgOf[t]] = 0
         /\ live => /\ HasEffect(safe, MsgOf[t]) /\ MsgOf[t] \notin safe.deleted
                    /\ HasEffect(db, MsgOf[t]) /\ MsgOf[t] \notin db.deleted

IInv == TypeOK /\ Ordered /\ Fenced /\ Grounded /\ Fresh

-----------------------------------------------------------------------------
(* Every step moves both databases forward, but for a crash.               *)
LEMMA OrderedKept ==
  ASSUME IInv, [Next]_vars, TypeOK'
  PROVE  Ordered' /\ Later(safe, safe')
<1>1. db \in Databases /\ safe \in Databases /\ db' \in Databases /\ safe' \in Databases
  BY DEF IInv, TypeOK
<1>2. Transacts
  BY StepTransacts DEF IInv
<1>3. CASE db' = safe /\ safe' = safe
  BY <1>3 DEF IInv, Ordered, Later, Decided
<1>4. CASE Applied(db, db') /\ safe' \in {safe, db'}
  <2>1. Later(db, db') /\ Reasoned(db')
    BY <1>1, <1>4, AppliedLater DEF IInv, Ordered
  <2>2. Later(safe, db')
    BY <1>1, <2>1, LaterTransitive DEF IInv, Ordered
  <2>3. Later(safe, safe) /\ Later(db', db')
    BY DEF Later, Decided
  <2> QED BY <1>4, <2>1, <2>2, <2>3 DEF IInv, Ordered
<1> QED BY <1>2, <1>3, <1>4 DEF Transacts

(* The frames of the steps, by what they do to the loop.                   *)
LEMMA FencedKept ==
  ASSUME IInv, [Next]_vars
  PROVE  Fenced'
<1> USE DEF Fenced, Admitting, Accepted, StagingSteps, disk, session, loopv, cleanv,
            LoopIdles, Revoke, IInv
<1>1. CASE Admission
  BY <1>1 DEF Admission, Begin, Reserve, Reject, WriteIntent, WriteArchive, WriteMedia,
     Commit, CommitUncertain, Fail, CheckReference, RemoveIntent, Publish, Purge
<1>2. CASE Coordination
  BY <1>2 DEF Coordination, Sweep, Cleanup, Skip, Unlink, Complete, CleaningFails,
     Cleaning, Released, Capture, Synchronize, Reconcile, Reconciled, Hydrate, Install,
     SynchronizeFails
<1>3. CASE Deletion
  BY <1>3 DEF Deletion, BeginDeletion, RemoveFiles, EndDeletion, DeletionFails, Cleanup,
     Skip, Unlink, Complete, CleaningFails, Cleaning, Released, DeleteRows, DeleteUncertain
<1>4. CASE DirectDelivery
  BY <1>4 DEF DirectDelivery, DirectCheck, DirectStage, DirectSave
<1>5. CASE Environment
  BY <1>5 DEF Environment, Flush, Crash, Age
<1>6. CASE UNCHANGED vars
  BY <1>6 DEF vars
<1> QED BY <1>1, <1>2, <1>3, <1>4, <1>5, <1>6 DEF Next

(* What a commit that is acknowledged leaves.                              *)
LEMMA CommitSettles ==
  ASSUME IInv, Commit
  PROVE  /\ \A t \in job' : Safely(safe', t)
         /\ job' = job /\ shown' = shown
         /\ outcome' = "committed" =>
              \A t \in job :
                /\ ~Decided(db, MsgOf[t])
                /\ HasEffect(db', MsgOf[t]) /\ MsgOf[t] \notin db'.deleted
                /\ safe' = db'
<1>1. PICK t \in job, expired \in SUBSET DiscardedTids(db) :
        \E disposition \in Outcomes(Purged(db, expired), t, files) :
          /\ Commits(Admitted(Purged(db, expired), t, disposition))
          /\ outcome' = disposition
  BY DEF Commit
<1>2. PICK disposition \in Outcomes(Purged(db, expired), t, files) :
          /\ Commits(Admitted(Purged(db, expired), t, disposition))
          /\ outcome' = disposition
  BY <1>1
<1>3. t \in Tids /\ Purged(db, expired) \in Databases
  BY PurgedType DEF IInv, TypeOK
<1>4. \A m : Decided(Purged(db, expired), m) <=> Decided(db, m)
  BY DEF Purged, Decided, HasEffect, EffectsOf, IInv, TypeOK, Databases
<1>5. /\ Safely(db', t)
      /\ disposition = "committed" =>
           /\ ~Decided(db, MsgOf[t])
           /\ HasEffect(db', MsgOf[t]) /\ MsgOf[t] \notin db'.deleted
  BY <1>2, <1>3, <1>4, AdmittedLater DEF Commits
<1>6. job' = job /\ shown' = shown /\ safe' = db' /\ \A u \in job : u = t
  BY <1>2 DEF Commit, Commits, IInv, Grounded
<1> QED BY <1>2, <1>5, <1>6

(* What a hydration finds was settled before it read.                      *)
LEMMA RecoverableSettled ==
  ASSUME NEW d \in Databases, Reasoned(d), NEW fs, NEW expired,
         NEW t \in Recoverable(d, fs, expired)
  PROVE  Safely(d, t)
BY DEF Recoverable, Reasoned, Safely, Decided, Discards

(* Where haves, found and the accepted job come from.                      *)
LEMMA Sources ==
  ASSUME IInv, [Next]_vars
  PROVE  /\ \A t \in haves' \union found' :
              \/ t \in haves \union found
              \/ pc \in Accepted /\ t \in job
              \/ Safely(safe', t)
         /\ pc' \in Accepted => Commit \/ (pc \in Accepted /\ job' = job)
         /\ job' = {} \/ job' = job \/ \E t \in Tids : job' = {t}
<1> USE DEF Accepted, disk, session, loopv, cleanv, LoopIdles, Revoke
<1>1. CASE Admission
  BY <1>1 DEF Admission, Begin, Reserve, Reject, WriteIntent, WriteArchive, WriteMedia,
     Commit, CommitUncertain, Fail, CheckReference, RemoveIntent, Publish, Purge
<1>2. CASE Hydrate
  <2>1. UNCHANGED <<haves, job>> /\ pc' = "install"
    BY <1>2 DEF Hydrate
  <2>2. \A t \in found' : t \in found \/ Safely(safe', t)
    <3>1. CASE installed
      BY <1>2, <3>1 DEF Hydrate
    <3>2. CASE ~installed
      <4>1. PICK expired \in SUBSET DiscardedTids(db) :
              found' = Recoverable(db, files, expired)
        BY <1>2, <3>2 DEF Hydrate
      <4>2. safe' = db
        BY <1>2, <3>2 DEF Hydrate, Barrier, Commits
      <4>3. db \in Databases /\ Reasoned(db)
        BY DEF IInv, TypeOK, Ordered
      <4> QED BY <4>1, <4>2, <4>3, RecoverableSettled
    <3> QED BY <3>1, <3>2
  <2> QED BY <2>1, <2>2
<1>3. CASE Coordination /\ ~Hydrate
  BY <1>3 DEF Coordination, Sweep, Cleanup, Skip, Unlink, Complete, CleaningFails,
     Cleaning, Released, Capture, Synchronize, Reconcile, Reconciled, Install,
     SynchronizeFails
<1>4. CASE Deletion
  BY <1>4 DEF Deletion, BeginDeletion, RemoveFiles, EndDeletion, DeletionFails, Cleanup,
     Skip, Unlink, Complete, CleaningFails, Cleaning, Released, DeleteRows, DeleteUncertain
<1>5. CASE DirectDelivery
  BY <1>5 DEF DirectDelivery, DirectCheck, DirectStage, DirectSave
<1>6. CASE Environment
  BY <1>6 DEF Environment, Flush, Crash, Age
<1>7. CASE UNCHANGED vars
  BY <1>7 DEF vars
<1> QED BY <1>1, <1>2, <1>3, <1>4, <1>5, <1>6, <1>7 DEF Next

LEMMA GroundedKept ==
  ASSUME IInv, [Next]_vars, TypeOK', Later(safe, safe')
  PROVE  Grounded'
<1>1. safe \in Databases /\ safe' \in Databases /\ haves' \union found' \subseteq Tids
      /\ haves \union found \subseteq Tids /\ job \subseteq Tids /\ job' \subseteq Tids
  BY DEF IInv, TypeOK
<1>2. ASSUME NEW t \in haves' \union found' PROVE Safely(safe', t)
  BY <1>1, <1>2, Sources, LaterSafely DEF IInv, Grounded
<1>3. ASSUME pc' \in Accepted, NEW t \in job' PROVE Safely(safe', t)
  BY <1>1, <1>3, Sources, LaterSafely, CommitSettles DEF IInv, Grounded
<1>4. ASSUME NEW t \in job', NEW u \in job' PROVE t = u
  BY <1>4, Sources DEF IInv, Grounded
<1> QED BY <1>2, <1>3, <1>4 DEF Grounded

-----------------------------------------------------------------------------
(* Which steps show a message, which forget a ciphertext, and what may     *)
(* disturb a message about to be published.                                *)
LEMMA Visible ==
  ASSUME IInv, [Next]_vars
  PROVE  Publish \/ shown' = shown
<1> USE DEF disk, session, loopv, cleanv, LoopIdles, Revoke
<1>1. CASE Admission
  BY <1>1 DEF Admission, Begin, Reserve, Reject, WriteIntent, WriteArchive, WriteMedia,
     Commit, CommitUncertain, Fail, CheckReference, RemoveIntent, Purge
<1>2. CASE Coordination
  BY <1>2 DEF Coordination, Sweep, Cleanup, Skip, Unlink, Complete, CleaningFails,
     Capture, Synchronize, Reconcile, Reconciled, Hydrate, Install, SynchronizeFails
<1>3. CASE Deletion
  BY <1>3 DEF Deletion, BeginDeletion, RemoveFiles, EndDeletion, DeletionFails, Cleanup,
     Skip, Unlink, Complete, CleaningFails, DeleteRows, DeleteUncertain
<1>4. CASE DirectDelivery
  BY <1>4 DEF DirectDelivery, DirectCheck, DirectStage, DirectSave
<1>5. CASE Environment
  BY <1>5 DEF Environment, Flush, Crash, Age
<1>6. CASE UNCHANGED vars
  BY <1>6 DEF vars
<1> QED BY <1>1, <1>2, <1>3, <1>4, <1>5, <1>6 DEF Next

LEMMA Forgetting ==
  ASSUME IInv, [Next]_vars
  PROVE  (\E t \in Tids : Purge(t)) \/ remote' = remote
<1> USE DEF disk, session, loopv, cleanv, LoopIdles, Revoke
<1>1. CASE Admission
  BY <1>1 DEF Admission, Begin, Reserve, Reject, WriteIntent, WriteArchive, WriteMedia,
     Commit, CommitUncertain, Fail, CheckReference, RemoveIntent, Publish
<1>2. CASE Coordination
  BY <1>2 DEF Coordination, Sweep, Cleanup, Skip, Unlink, Complete, CleaningFails,
     Capture, Synchronize, Reconcile, Reconciled, Hydrate, Install, SynchronizeFails
<1>3. CASE Deletion
  BY <1>3 DEF Deletion, BeginDeletion, RemoveFiles, EndDeletion, DeletionFails, Cleanup,
     Skip, Unlink, Complete, CleaningFails, DeleteRows, DeleteUncertain
<1>4. CASE DirectDelivery
  BY <1>4 DEF DirectDelivery, DirectCheck, DirectStage, DirectSave
<1>5. CASE Environment
  BY <1>5 DEF Environment, Flush, Crash, Age
<1>6. CASE UNCHANGED vars
  BY <1>6 DEF vars
<1> QED BY <1>1, <1>2, <1>3, <1>4, <1>5, <1>6 DEF Next

(* While a token is current after a commit, only direct deliveries and     *)
(* flushes touch the databases, and they leave fates alone.                *)
LEMMA Undisturbed ==
  ASSUME IInv, [Next]_vars, pc \in Accepted, pc' \in Accepted
  PROVE  /\ outcome' = outcome /\ job' = job /\ shown' = shown
         /\ live' => live
         /\ live' => /\ db'.effects = db.effects /\ db'.deleted = db.deleted
                     /\ safe' = safe \/ safe' = db'
<1> USE DEF Accepted, disk, session, loopv, cleanv, LoopIdles, Revoke
<1>1. CASE Admission
  BY <1>1 DEF Admission, Begin, Reserve, Reject, WriteIntent, WriteArchive, WriteMedia,
     Commit, CommitUncertain, Fail, CheckReference, RemoveIntent, Publish, Purge,
     StagingSteps
<1>2. CASE Coordination
  BY <1>2 DEF Coordination, Sweep, Cleanup, Skip, Unlink, Complete, CleaningFails,
     Cleaning, Released, Capture, Synchronize, Reconcile, Reconciled, Hydrate, Install,
     SynchronizeFails
<1>3. CASE Deletion
  <2>1. outcome' = outcome /\ job' = job /\ shown' = shown /\ (live' => live)
    BY <1>3 DEF Deletion, BeginDeletion, RemoveFiles, EndDeletion, DeletionFails, Cleanup,
       Skip, Unlink, Complete, CleaningFails, DeleteRows, DeleteUncertain
  <2>2. dpc # "idle" \/ live' = FALSE
    BY <1>3 DEF Deletion, BeginDeletion, RemoveFiles, EndDeletion, DeletionFails, Cleanup,
       Skip, Unlink, Complete, CleaningFails, Cleaning, DeleteRows, DeleteUncertain
  <2>3. live' = FALSE
    BY <2>1, <2>2 DEF IInv, Fenced, TypeOK
  <2> QED BY <2>1, <2>3
<1>4. CASE DirectDelivery
  <2>1. \A m \in Direct : /\ SavedDirectly(db, m).effects = db.effects
                          /\ SavedDirectly(db, m).deleted = db.deleted
    BY DEF SavedDirectly, IInv, TypeOK, Databases
  <2> QED BY <1>4, <2>1 DEF DirectDelivery, DirectCheck, DirectStage, DirectSave
<1>5. CASE Environment
  BY <1>5 DEF Environment, Flush, Crash, Age
<1>6. CASE UNCHANGED vars
  BY <1>6 DEF vars
<1> QED BY <1>1, <1>2, <1>3, <1>4, <1>5, <1>6 DEF Next

(* Publishing shows at most the message of the job, for the first time.    *)
LEMMA PublishShows ==
  ASSUME IInv, Publish
  PROVE  \/ shown' = shown
         \/ \E m \in Msgs : /\ shown[m] = 0 /\ HasEffect(safe, m) /\ m \notin safe.deleted
                            /\ shown' = [shown EXCEPT ![m] = 1]
<1>1. CASE live /\ outcome = "committed" /\ \E t \in job : MsgOf[t] \in Chat
  <2>1. PICK t \in job : MsgOf[t] \in Chat
    BY <1>1
  <2>2. t \in Tids /\ MsgOf[t] \in Msgs /\ \A u \in job : u = t
    BY InboundAssumption DEF IInv, TypeOK, Grounded
  <2>3. /\ shown[MsgOf[t]] = 0 /\ HasEffect(safe, MsgOf[t])
        /\ MsgOf[t] \notin safe.deleted
    BY <1>1, <2>1 DEF IInv, Fresh, Publish, Accepted
  <2>4. shown' = [m \in Msgs |-> IF m = MsgOf[t] /\ shown[m] < 2
                                 THEN shown[m] + 1 ELSE shown[m]]
    BY <1>1, <2>1, <2>2 DEF Publish
  <2>5. shown \in [Msgs -> 0..2]
    BY DEF IInv, TypeOK
  <2>6. shown' = [shown EXCEPT ![MsgOf[t]] = 1]
    <3> DEFINE n == MsgOf[t]
    <3>1. shown = [m \in Msgs |-> shown[m]] /\ n \in Msgs
      BY <2>2, <2>5
    <3>2. shown[n] < 2 /\ shown[n] + 1 = 1
      BY <2>3
    <3>3. shown' = [m \in Msgs |-> IF m = n THEN 1 ELSE shown[m]]
      BY <2>4, <3>2
    <3> HIDE DEF n
    <3>4. shown' = [shown EXCEPT ![n] = 1]
      BY <3>1, <3>3
    <3> QED BY <3>4 DEF n
  <2> QED BY <2>2, <2>3, <2>6
<1>2. CASE ~live
  BY <1>2 DEF Publish
<1>3. CASE live /\ ~(outcome = "committed" /\ \E t \in job : MsgOf[t] \in Chat)
  <2>1. shown' = [m \in Msgs |-> shown[m]]
    BY <1>3 DEF Publish
  <2> QED BY <2>1 DEF IInv, TypeOK
<1> QED BY <1>1, <1>2, <1>3

LEMMA FreshKept ==
  ASSUME IInv, [Next]_vars, TypeOK', Later(safe, safe')
  PROVE  Fresh'
<1>1. \A m \in Msgs : Decided(safe, m) => Decided(safe', m)
  BY DEF Later, Decided
<1>2. job \subseteq Tids /\ \A t \in job : MsgOf[t] \in Msgs
  BY InboundAssumption DEF IInv, TypeOK
<1>3. ASSUME NEW m \in Msgs
      PROVE  shown'[m] = 0 \/ (shown'[m] = 1 /\ Decided(safe', m))
  <2>1. CASE shown' = shown
    BY <1>1, <2>1 DEF IInv, Fresh
  <2>2. CASE Publish /\ shown' # shown
    <3>1. PICK n \in Msgs : /\ shown[n] = 0 /\ HasEffect(safe, n)
                            /\ shown' = [shown EXCEPT ![n] = 1]
      BY <2>2, PublishShows
    <3>2. shown \in [Msgs -> 0..2]
      BY DEF IInv, TypeOK
    <3> QED BY <1>1, <3>1, <3>2 DEF IInv, Fresh, Decided
  <2> QED BY <2>1, <2>2, Visible
<1>4. ASSUME pc' \in Accepted, outcome' = "committed", NEW t \in job'
      PROVE  /\ shown'[MsgOf[t]] = 0
             /\ live' => /\ HasEffect(safe', MsgOf[t]) /\ MsgOf[t] \notin safe'.deleted
                         /\ HasEffect(db', MsgOf[t]) /\ MsgOf[t] \notin db'.deleted
  <2>1. CASE Commit
    <3>1. /\ t \in job /\ shown' = shown /\ ~Decided(db, MsgOf[t])
          /\ HasEffect(db', MsgOf[t]) /\ MsgOf[t] \notin db'.deleted /\ safe' = db'
      BY <1>4, <2>1, CommitSettles
    <3>2. ~Decided(safe, MsgOf[t])
      BY <1>2, <3>1 DEF IInv, Ordered, Later, Decided
    <3> QED BY <1>2, <3>1, <3>2 DEF IInv, Fresh
  <2>2. CASE pc \in Accepted
    <3>1. /\ outcome' = outcome /\ job' = job /\ shown' = shown
          /\ live' => live
          /\ live' => /\ db'.effects = db.effects /\ db'.deleted = db.deleted
                      /\ safe' = safe \/ safe' = db'
      BY <1>4, <2>2, Undisturbed
    <3> QED BY <1>4, <2>2, <3>1 DEF IInv, Fresh, HasEffect, EffectsOf
  <2> QED BY <1>4, <2>1, <2>2, Sources
<1> QED BY <1>3, <1>4 DEF Fresh

-----------------------------------------------------------------------------
LEMMA IInvInit == Init => IInv
<1> SUFFICES ASSUME Init PROVE IInv
  OBVIOUS
<1>1. TypeOK
  BY InitTyped
<1>2. Ordered
  BY DEF Init, Ordered, Later, Reasoned, EmptyDatabase, Decided
<1>3. Fenced /\ Grounded /\ Fresh
  BY DEF Init, Fenced, Grounded, Fresh, Admitting, Accepted, StagingSteps
<1> QED BY <1>1, <1>2, <1>3 DEF IInv

LEMMA IInvNext == IInv /\ [Next]_vars => IInv'
<1> SUFFICES ASSUME IInv, [Next]_vars PROVE IInv'
  OBVIOUS
<1>1. TypeOK'
  BY NextTyped DEF IInv
<1> QED BY <1>1, OrderedKept, FencedKept, GroundedKept, FreshKept DEF IInv

(* However often a message is downloaded, retried after a commit of        *)
(* unknown outcome or replayed after a crash, it is published once: only a *)
(* commit that found neither effect nor tombstone publishes.               *)
THEOREM PublishedOnce == Spec => []ShownOnce
<1>1. IInv => ShownOnce
  BY DEF IInv, Fresh, ShownOnce
<1> QED BY <1>1, IInvInit, IInvNext, PTL DEF Spec

-----------------------------------------------------------------------------
(* The refinement: a step that moves the crash copy settles fates, Publish *)
(* shows, Purge forgets, and every other step stutters.                    *)
LEMMA FatesForward ==
  ASSUME IInv, TypeOK', Later(safe, safe'), shown' = shown, remote' = remote
  PROVE  Fates!Settle
<1> DEFINE F == FateIn(safe)  G == FateIn(safe')
<1>1. safe \in Databases /\ safe' \in Databases
  BY DEF IInv, TypeOK
<1>2. G \in [Msgs -> {"unseen", "kept", "deleted"}]
  BY DEF FateIn
<1>3. \A m \in Msgs : G[m] = "unseen" <=> ~Decided(safe', m)
  BY DEF FateIn, Decided
<1>4. \A m \in Msgs : /\ F[m] = "kept" => G[m] # "unseen"
                      /\ F[m] = "deleted" => G[m] = "deleted"
  BY <1>3 DEF FateIn, Later, Decided
<1>5. \A t \in safe.refused \ safe'.refused : MsgOf[t] \in Msgs
  BY <1>1, InboundAssumption DEF Databases
<1>6. \A t \in safe.refused \ safe'.refused : G[MsgOf[t]] # "unseen"
  BY <1>3, <1>5 DEF Later
<1>7. safe'.refused \in SUBSET Tids
  BY <1>1 DEF Databases
<1> QED BY <1>2, <1>4, <1>6, <1>7 DEF Fates!Settle

LEMMA StepRefines ==
  ASSUME IInv, [Next]_vars, TypeOK', Later(safe, safe')
  PROVE  [Fates!Next]_(Fates!fates)
<1>1. CASE Publish
  <2>1. safe' = safe /\ remote' = remote
    BY <1>1 DEF Publish, disk
  <2>2. CASE shown' = shown
    BY <2>1, <2>2 DEF Fates!fates, FateIn
  <2>3. CASE shown' # shown
    <3>1. PICK m \in Msgs : /\ shown[m] = 0 /\ HasEffect(safe, m) /\ m \notin safe.deleted
                            /\ shown' = [shown EXCEPT ![m] = 1]
      BY <1>1, <2>3, PublishShows
    <3>2. FateIn(safe)[m] = "kept"
      BY <3>1 DEF FateIn
    <3>3. Fates!Show(m)
      BY <2>1, <3>1, <3>2 DEF Fates!Show, FateIn
    <3> QED BY <3>3 DEF Fates!Next
  <2> QED BY <2>2, <2>3
<1>2. ASSUME NEW t \in Tids, Purge(t) PROVE [Fates!Next]_(Fates!fates)
  <2>1. safe' = safe /\ shown' = shown /\ t \in remote /\ t \in haves
        /\ remote' = remote \ {t}
    BY <1>2 DEF Purge, disk
  <2>2. MsgOf[t] \in Msgs
    BY InboundAssumption
  <2>3. FateIn(safe)[MsgOf[t]] # "unseen" \/ t \in safe.refused
    BY <2>1, <2>2 DEF IInv, Grounded, Safely, Decided, FateIn
  <2>4. Fates!Forget(t)
    BY <2>1, <2>3 DEF Fates!Forget, Fates!Settled, FateIn
  <2> QED BY <2>4 DEF Fates!Next
<1>3. CASE ~Publish /\ ~\E t \in Tids : Purge(t)
  <2>1. shown' = shown /\ remote' = remote
    BY <1>3, Visible, Forgetting
  <2> QED BY <2>1, FatesForward DEF Fates!Next
<1> QED BY <1>1, <1>2, <1>3

(* The download implements the store of message fates: a fate never turns  *)
(* back, a message is shown once and only while it is kept, and the node   *)
(* forgets only what is settled on disk, whatever crashes, deletions and   *)
(* commits of unknown outcome interleave.                                  *)
THEOREM FatesImplemented == Spec => KeepsFates
<1>1. Init => Fates!Init
  BY DEF Init, Fates!Init, FateIn, EmptyDatabase, HasEffect, EffectsOf
<1>2. IInv /\ [Next]_vars => [Fates!Next]_(Fates!fates)
  <2> SUFFICES ASSUME IInv, [Next]_vars PROVE [Fates!Next]_(Fates!fates)
    OBVIOUS
  <2>1. TypeOK'
    BY NextTyped DEF IInv
  <2> QED BY <2>1, OrderedKept, StepRefines
<1> QED BY <1>1, <1>2, IInvInit, IInvNext, PTL DEF Spec, KeepsFates, Fates!Spec

-----------------------------------------------------------------------------
(* What the node forgot: settled on disk when it was told, and from then   *)
(* on.                                                                     *)
GoneSettled == \A t \in Tids \ remote : Safely(safe, t)

(* An effect of a chat message has its row.                                *)
Projected(d) == \A m \in Chat : HasEffect(d, m) => d.rows[m] # "absent"

LEMMA AppliedProjected ==
  ASSUME TypeOK, Projected(db), NEW e, Applied(db, e)
  PROVE  Projected(e)
<1>1. db \in Databases /\ job \subseteq Tids /\ Chat \subseteq Msgs
  BY InboundAssumption DEF TypeOK
<1>2. ASSUME NEW t \in job, NEW expired \in SUBSET Tids, NEW disposition,
             e = Admitted(Purged(db, expired), t, disposition)
      PROVE  Projected(e)
  <2>1. MsgOf[t] \in Msgs /\ ArchiveOf(t)[2] = MsgOf[t]
    BY <1>1, InboundAssumption DEF ArchiveOf
  <2>2. e.effects = IF disposition = "committed"
                    THEN db.effects \union {ArchiveOf(t)} ELSE db.effects
    BY <1>2 DEF Admitted, Purged
  <2>3. e.rows = [db.rows EXCEPT ![MsgOf[t]] =
                    IF disposition = "committed" /\ MsgOf[t] \in Chat /\ @ = "absent"
                    THEN "hashed" ELSE @]
    BY <1>2 DEF Admitted, Purged
  <2>4. ASSUME NEW m \in Chat, HasEffect(e, m) PROVE e.rows[m] # "absent"
    <3>1. m \in Msgs
      BY <1>1
    <3>2. CASE m = MsgOf[t] /\ disposition = "committed"
      BY <1>1, <2>1, <2>3, <3>2 DEF Databases
    <3>3. CASE ~(m = MsgOf[t] /\ disposition = "committed")
      <4>1. HasEffect(db, m)
        BY <2>1, <2>2, <2>4, <3>3 DEF HasEffect, EffectsOf
      <4>2. e.rows[m] = db.rows[m]
        BY <1>1, <2>1, <2>3, <3>1, <3>3 DEF Databases
      <4> QED BY <4>1, <4>2 DEF Projected
    <3> QED BY <3>2, <3>3
  <2> QED BY <2>4 DEF Projected
<1>3. ASSUME NEW selected \in SUBSET Msgs, e = Deleted(db, selected) PROVE Projected(e)
  <2>1. \A a : a \in e.effects <=> a \in db.effects /\ a[2] \notin selected
    BY <1>3 DEF Deleted, EffectsOf
  <2>2. \A m \in Msgs : e.rows[m] = IF m \in selected THEN "absent" ELSE db.rows[m]
    BY <1>3 DEF Deleted
  <2> QED BY <1>1, <2>1, <2>2 DEF Projected, HasEffect, EffectsOf
<1>4. ASSUME e = Completed(db, done) PROVE Projected(e)
  BY <1>4 DEF Completed, Projected, HasEffect, EffectsOf
<1>5. ASSUME NEW m \in Direct, e = SavedDirectly(db, m) PROVE Projected(e)
  BY <1>1, <1>5 DEF SavedDirectly, Projected, HasEffect, EffectsOf, Databases
<1> QED BY <1>2, <1>3, <1>4, <1>5 DEF Applied

SettledInv == GoneSettled /\ Projected(db) /\ Projected(safe)

LEMMA SettledInvNext == IInv /\ SettledInv /\ [Next]_vars => SettledInv'
<1> SUFFICES ASSUME IInv, SettledInv, [Next]_vars PROVE SettledInv'
  OBVIOUS
<1>1. TypeOK /\ TypeOK'
  BY NextTyped DEF IInv
<1>2. Later(safe, safe') /\ safe \in Databases /\ safe' \in Databases
  BY <1>1, OrderedKept DEF TypeOK
<1>3. ASSUME NEW t \in Tids \ remote' PROVE Safely(safe', t)
  <2>1. CASE t \notin remote
    BY <1>2, <2>1, LaterSafely DEF SettledInv, GoneSettled
  <2>2. CASE t \in remote
    <3>1. t \in haves
      BY <1>3, <2>2, Forgetting DEF Purge
    <3> QED BY <1>2, <3>1, LaterSafely DEF IInv, Grounded
  <2> QED BY <2>1, <2>2
<1>4. Projected(db') /\ Projected(safe')
  BY <1>1, StepTransacts, AppliedProjected DEF Transacts, SettledInv
<1> QED BY <1>3, <1>4 DEF SettledInv, GoneSettled, Projected, Safely, Decided, HasEffect, EffectsOf

LEMMA SettledHolds == TypeOK /\ SettledInv /\ FilesPresent => PurgedSettled
<1> SUFFICES ASSUME TypeOK, SettledInv, FilesPresent, NEW t \in Tids \ remote,
                    MsgOf[t] \notin safe.deleted, t \notin safe.refused
             PROVE  /\ HasEffect(safe, MsgOf[t])
                    /\ EffectsOf(safe, MsgOf[t]) \subseteq files
                    /\ MsgOf[t] \in Chat => safe.rows[MsgOf[t]] # "absent"
                    /\ NamedBy(safe, MsgOf[t]) \subseteq files
  BY DEF PurgedSettled
<1>1. MsgOf[t] \in Msgs
  BY InboundAssumption
<1>2. HasEffect(safe, MsgOf[t])
  BY DEF SettledInv, GoneSettled, Safely, Decided
<1>3. safe \in Views
  BY DEF Views
<1>4. MsgOf[t] \in Chat => safe.rows[MsgOf[t]] # "absent"
  BY <1>2 DEF SettledInv, Projected
<1>5. EffectsOf(safe, MsgOf[t]) \subseteq files /\ NamedBy(safe, MsgOf[t]) \subseteq files
  BY <1>1, <1>3 DEF FilesPresent, RowMediaPresent, ArchivesPresent, EffectsOf
<1> QED BY <1>2, <1>4, <1>5

(* What the node was allowed to forget is not lost, also with direct       *)
(* deliveries: it was settled in the crash copy when the node was told,    *)
(* fates only move forward there, and what a kept message's row and        *)
(* archive name is on disk.                                                *)
THEOREM ForgottenByTheNodeIsKept == Spec => []PurgedSettled
<1>1. Init => SettledInv
  BY DEF Init, SettledInv, GoneSettled, Projected, HasEffect, EffectsOf, EmptyDatabase
<1>2. IInv => TypeOK
  BY DEF IInv
<1> QED BY <1>1, <1>2, SettledInvNext, SettledHolds, IInvInit, IInvNext,
           NothingNamedIsLost, PTL DEF Spec

-----------------------------------------------------------------------------
(* What the client says it holds has a receipt, in the database and in     *)
(* what a crash leaves of it.                                              *)
Receipted(T) == \A t \in T : db.receipts[t] # "none" /\ safe.receipts[t] # "none"

HavesInv ==
  /\ ~installed => haves = {}
  /\ pc \in Admitting \union Accepted /\ live => installed
  /\ Receipted(haves)
  /\ pc \in Accepted /\ live => Receipted(job)
  /\ pc = "install" /\ live /\ dpc = "idle" /\ ~installed => Receipted(found)

LEMMA HavesControl ==
  ASSUME IInv, HavesInv, [Next]_vars
  PROVE  /\ ~installed' => haves' = {}
         /\ pc' \in Admitting \union Accepted /\ live' => installed'
<1> USE DEF HavesInv, Admitting, Accepted, StagingSteps, disk, session, loopv, cleanv,
            LoopIdles, Revoke
<1>1. CASE Admission
  BY <1>1 DEF Admission, Begin, Reserve, Reject, WriteIntent, WriteArchive, WriteMedia,
     Commit, CommitUncertain, Fail, CheckReference, RemoveIntent, Publish, Purge
<1>2. CASE Coordination
  BY <1>2 DEF Coordination, Sweep, Cleanup, Skip, Unlink, Complete, CleaningFails,
     Cleaning, Released, Capture, Synchronize, Reconcile, Reconciled, Hydrate, Install,
     SynchronizeFails
<1>3. CASE Deletion
  BY <1>3 DEF Deletion, BeginDeletion, RemoveFiles, EndDeletion, DeletionFails, Cleanup,
     Skip, Unlink, Complete, CleaningFails, Cleaning, Released, DeleteRows, DeleteUncertain
<1>4. CASE DirectDelivery
  BY <1>4 DEF DirectDelivery, DirectCheck, DirectStage, DirectSave
<1>5. CASE Environment
  BY <1>5 DEF Environment, Flush, Crash, Age
<1>6. CASE UNCHANGED vars
  BY <1>6 DEF vars
<1> QED BY <1>1, <1>2, <1>3, <1>4, <1>5, <1>6 DEF Next

NowReceipted(T) ==
  \A t \in T : db'.receipts[t] # "none" /\ safe'.receipts[t] # "none"

(* Which steps touch receipts: commits of admissions and of deletions; the *)
(* others only sync or lose what is there.                                 *)
ReceiptsStay ==
  /\ db'.receipts \in {db.receipts, safe.receipts}
  /\ safe'.receipts \in {db.receipts, safe.receipts}
DeletionCommits ==
  /\ dpc = "begun" /\ dpc' \in {"deleted", "ending"}
  /\ UNCHANGED <<pc, installed, haves, live, job, found>>

LEMMA ReceiptSteps ==
  ASSUME TypeOK, [Next]_vars
  PROVE  Commit \/ CommitUncertain \/ DeletionCommits \/ ReceiptsStay
<1> USE DEF disk, session, loopv, cleanv
<1>0. /\ \A e : Completed(db, e).receipts = db.receipts
      /\ \A m \in Direct : SavedDirectly(db, m).receipts = db.receipts
  BY DEF TypeOK, Databases, Completed, SavedDirectly
<1>1. CASE Admission
  BY <1>1 DEF Admission, Begin, Reserve, Reject, WriteIntent, WriteArchive, WriteMedia,
     Fail, CheckReference, RemoveIntent, Publish, Purge, ReceiptsStay
<1>2. ASSUME NEW who, Cleanup(who) PROVE ReceiptsStay
  BY <1>0, <1>2 DEF Cleanup, Skip, Unlink, Complete, CleaningFails, Commits, Uncertain,
     ReceiptsStay
<1>3. CASE Coordination
  BY <1>2, <1>3 DEF Coordination, Sweep, Capture, Synchronize, Reconcile, Reconciled,
     Hydrate, Install, SynchronizeFails, CleaningStarts, Barrier, Commits, ReceiptsStay
<1>4. CASE Deletion
  <2>1. ASSUME NEW selected \in SUBSET Msgs,
               DeleteRows(selected) \/ DeleteUncertain(selected)
        PROVE  DeletionCommits
    BY <2>1 DEF DeleteRows, DeleteUncertain, DeletionCommits
  <2> QED BY <1>2, <1>4, <2>1 DEF Deletion, BeginDeletion, RemoveFiles, EndDeletion,
     DeletionFails, CleaningStarts, Barrier, Commits, ReceiptsStay
<1>5. CASE DirectDelivery
  BY <1>0, <1>5 DEF DirectDelivery, DirectCheck, DirectStage, DirectSave, ReceiptsStay
<1>6. CASE Environment
  BY <1>6 DEF Environment, Flush, Crash, Age, ReceiptsStay
<1>7. CASE UNCHANGED vars
  BY <1>7 DEF vars, ReceiptsStay
<1> QED BY <1>1, <1>3, <1>4, <1>5, <1>6, <1>7 DEF Next

(* What an admission writes down: a receipt of its own, and the others     *)
(* stay but for the expired.                                               *)
LEMMA AdmittedReceipts ==
  ASSUME NEW d \in Databases, NEW t \in Tids, NEW expired, NEW disposition \in Dispositions,
         NEW u \in Tids, u = t \/ (u \notin expired /\ d.receipts[u] # "none")
  PROVE  Admitted(Purged(d, expired), t, disposition).receipts[u] # "none"
<1>1. Purged(d, expired).receipts = [v \in Tids |-> IF v \in expired THEN "none" ELSE d.receipts[v]]
  BY DEF Purged, Databases
<1>2. Admitted(Purged(d, expired), t, disposition).receipts =
        [Purged(d, expired).receipts EXCEPT ![t] = disposition]
  BY DEF Admitted
<1> QED BY <1>1, <1>2 DEF Dispositions, Discards

LEMMA AdmissionReceipts ==
  ASSUME IInv, HavesInv, Commit \/ CommitUncertain
  PROVE  /\ NowReceipted(haves')
         /\ Commit => NowReceipted(job')
<1>1. PICK t \in job, expired \in SUBSET DiscardedTids(db) :
        \E disposition \in Outcomes(Purged(db, expired), t, files) :
          /\ db' = Admitted(Purged(db, expired), t, disposition)
          /\ safe' \in {safe, db'} /\ (Commit => safe' = db')
          /\ haves' = haves \ expired
  BY DEF Commit, CommitUncertain, Commits, Uncertain
<1>2. PICK disposition \in Outcomes(Purged(db, expired), t, files) :
          /\ db' = Admitted(Purged(db, expired), t, disposition)
          /\ safe' \in {safe, db'} /\ (Commit => safe' = db')
          /\ haves' = haves \ expired
  BY <1>1
<1>3. /\ db \in Databases /\ job \subseteq Tids /\ haves \subseteq Tids
      /\ disposition \in Dispositions /\ \A u \in job : u = t
  BY OutcomesType DEF IInv, TypeOK, Grounded
<1>4. Receipted(haves)
  BY DEF HavesInv
<1>5. ASSUME NEW u \in haves' PROVE db'.receipts[u] # "none" /\ safe'.receipts[u] # "none"
  <2>1. u \in haves /\ u \notin expired /\ u \in Tids
    BY <1>2, <1>3
  <2>2. db'.receipts[u] # "none"
    BY <1>2, <1>3, <1>4, <2>1, AdmittedReceipts DEF Receipted
  <2> QED BY <1>2, <1>4, <2>1, <2>2 DEF Receipted
<1>6. ASSUME Commit PROVE NowReceipted(job')
  <2>1. job' = job
    BY <1>6 DEF Commit
  <2>2. db'.receipts[t] # "none"
    BY <1>2, <1>3, AdmittedReceipts
  <2> QED BY <1>2, <1>3, <1>6, <2>1, <2>2 DEF NowReceipted
<1> QED BY <1>5, <1>6 DEF NowReceipted

(* Where what is held comes from, as far as receipts go.                   *)
LEMMA HavesSources ==
  ASSUME IInv, [Next]_vars
  PROVE  /\ \A t \in haves' : \/ t \in haves
                              \/ pc \in Accepted /\ live /\ t \in job
                              \/ /\ pc = "install" /\ live /\ dpc = "idle" /\ ~installed
                                 /\ t \in found
         /\ pc' \in Accepted /\ live' => Commit \/ (pc \in Accepted /\ live /\ job' = job)
         /\ pc' = "install" /\ live' /\ dpc' = "idle" /\ ~installed' =>
              Hydrate \/ /\ pc = "install" /\ live /\ dpc = "idle" /\ ~installed
                         /\ found' = found
<1> USE DEF IInv, Fenced, Admitting, StagingSteps, Accepted, disk, session, loopv, cleanv,
            LoopIdles, Revoke
<1>1. CASE Admission
  BY <1>1 DEF Admission, Begin, Reserve, Reject, WriteIntent, WriteArchive, WriteMedia,
     Commit, CommitUncertain, Fail, CheckReference, RemoveIntent, Publish, Purge
<1>2. CASE Coordination
  BY <1>2 DEF Coordination, Sweep, Cleanup, Skip, Unlink, Complete, CleaningFails,
     Cleaning, Released, Capture, Synchronize, Reconcile, Reconciled, Hydrate, Install,
     SynchronizeFails
<1>3. CASE Deletion
  BY <1>3 DEF Deletion, BeginDeletion, RemoveFiles, EndDeletion, DeletionFails, Cleanup,
     Skip, Unlink, Complete, CleaningFails, Cleaning, Released, DeleteRows, DeleteUncertain
<1>4. CASE DirectDelivery
  BY <1>4 DEF DirectDelivery, DirectCheck, DirectStage, DirectSave
<1>5. CASE Environment
  BY <1>5 DEF Environment, Flush, Crash, Age
<1>6. CASE UNCHANGED vars
  BY <1>6 DEF vars
<1> QED BY <1>1, <1>2, <1>3, <1>4, <1>5, <1>6 DEF Next

LEMMA HydrateReceipts ==
  ASSUME IInv, Hydrate, ~installed'
  PROVE  NowReceipted(found')
<1>1. ~installed
  BY DEF Hydrate, session
<1>2. PICK expired \in SUBSET DiscardedTids(db) : found' = Recoverable(db, files, expired)
  BY <1>1 DEF Hydrate
<1>3. db' = db /\ safe' = db
  BY <1>1 DEF Hydrate, Barrier, Commits
<1>4. \A t \in found' : db.receipts[t] # "none"
  BY <1>2 DEF Recoverable, Discards
<1> QED BY <1>3, <1>4 DEF NowReceipted

LEMMA HavesInvNext == IInv /\ HavesInv /\ [Next]_vars => HavesInv'
<1> SUFFICES ASSUME IInv, HavesInv, [Next]_vars PROVE HavesInv'
  OBVIOUS
<1>1. Receipted(haves) /\ (pc \in Accepted /\ live => Receipted(job))
      /\ (pc = "install" /\ live /\ dpc = "idle" /\ ~installed => Receipted(found))
  BY DEF HavesInv
<1>2. CASE Commit \/ CommitUncertain
  <2>1. pc' \notin {"install"} /\ (pc' \in Accepted => Commit)
    BY <1>2 DEF Commit, CommitUncertain, LoopIdles, Accepted
  <2> QED BY <1>2, <2>1, AdmissionReceipts, HavesControl DEF HavesInv, Receipted, NowReceipted
<1>3. CASE DeletionCommits
  <2>1. ~installed /\ haves = {}
    BY <1>3 DEF DeletionCommits, IInv, Fenced, HavesInv
  <2>2. ~(pc \in Accepted /\ live)
    BY <2>1 DEF HavesInv
  <2> QED BY <1>3, <2>1, <2>2, HavesControl DEF DeletionCommits, HavesInv, Receipted
<1>4. CASE ReceiptsStay /\ ~Commit
  <2>1. \A t : db.receipts[t] # "none" /\ safe.receipts[t] # "none" =>
                 db'.receipts[t] # "none" /\ safe'.receipts[t] # "none"
    BY <1>4 DEF ReceiptsStay
  <2>2. NowReceipted(haves')
    BY <1>1, <2>1, HavesSources DEF Receipted, NowReceipted
  <2>3. pc' \in Accepted /\ live' => NowReceipted(job')
    BY <1>1, <1>4, <2>1, HavesSources DEF Receipted, NowReceipted
  <2>4. pc' = "install" /\ live' /\ dpc' = "idle" /\ ~installed' => NowReceipted(found')
    BY <1>1, <1>4, <2>1, HavesSources, HydrateReceipts DEF Receipted, NowReceipted
  <2> QED BY <2>2, <2>3, <2>4, HavesControl DEF HavesInv, Receipted, NowReceipted
<1>5. TypeOK
  BY DEF IInv
<1> QED BY <1>2, <1>3, <1>4, <1>5, ReceiptSteps

(* Without direct deliveries a receipt is all it takes: what it claims is  *)
(* there, with its row and its files.                                      *)
LEMMA HavesHold ==
  TypeOK /\ HavesInv /\ NamedInv /\ ReceiptsBacked /\ RetainedFilesPresent => HavesBacked
<1> SUFFICES ASSUME TypeOK, HavesInv, NamedInv, ReceiptsBacked, RetainedFilesPresent,
                    NEW t \in haves
             PROVE  t \in Recoverable(safe, files, {})
  BY DEF HavesBacked
<1>1. t \in Tids /\ MsgOf[t] \in Msgs /\ safe \in Views /\ safe \in Databases
  BY InboundAssumption DEF TypeOK, Views
<1>2. safe.receipts[t] \in Dispositions
  BY <1>1 DEF HavesInv, Receipted, Databases
<1>3. CASE safe.receipts[t] \in Discards
  BY <1>1, <1>3 DEF Recoverable
<1>4. CASE safe.receipts[t] \in {"committed", "duplicate"}
  <2>1. HasEffect(safe, MsgOf[t])
    BY <1>1, <1>4 DEF ReceiptsBacked
  <2>2. Retained(safe, MsgOf[t], files)
    BY <1>1, <2>1 DEF Retained, RetainedFilesPresent, NamedInv, Named
  <2> QED BY <1>1, <1>4, <2>1, <2>2 DEF Recoverable
<1> QED BY <1>2, <1>3, <1>4 DEF Dispositions

(* The client tells the node it holds a ciphertext only while a synced     *)
(* receipt says so and the receipt's effect can be verified on disk, and   *)
(* what the node forgot is not lost: a deletion revokes what is held       *)
(* before it commits, a commit that expires receipts drops them from it,   *)
(* and a hydration reads after a barrier.  A direct copy can own the row   *)
(* of a downloaded message; then the message stays, but the downloaded     *)
(* media may not, so the first half is about deliveries by admission.      *)
THEOREM PurgesAreBacked ==
  ASSUME Direct = {}
  PROVE  Spec => []PurgeAuthority
<1>1. Init => HavesInv
  BY DEF Init, HavesInv, Admitting, Accepted, StagingSteps, Receipted
<1>2. IInv => TypeOK
  BY DEF IInv
<1>3. HavesBacked /\ PurgedSettled => PurgeAuthority
  BY DEF PurgeAuthority
<1> QED BY <1>1, <1>2, <1>3, HavesInvNext, HavesHold, IInvInit, IInvNext, NamedInvInit,
           NamedInvNext, ReceiptsAlwaysBacked, RetainedFilesKept,
           ForgottenByTheNodeIsKept, PTL DEF Spec
=============================================================================
