-------------------------- MODULE DurableAdmission --------------------------
(***************************************************************************)
(* Downloading stored messages from a propagation node                     *)
(* (crates/ratspeak-runtime/src/inbound_admission.rs and                   *)
(* propagation_recovery.rs over crates/ratspeak-db/src/admission.rs).      *)
(*                                                                         *)
(* The node forgets a message once the client says it holds it, so the     *)
(* client may say so only for what survives a crash.  Three activities     *)
(* share the database and the files: the client loop, which admits one     *)
(* downloaded ciphertext at a time and between downloads sweeps deleted    *)
(* files, reconciles staging intents and hydrates what it holds; the       *)
(* user's deletions; and direct deliveries of the same messages.  A single *)
(* admission permit serializes the first two, a lifecycle lock fences      *)
(* deletions from publication.                                             *)
(***************************************************************************)
EXTENDS InboundStore

CONSTANTS
  Direct,      \* the messages that may also arrive directly, once each
  MaxIntents   \* MAX_STAGING_INTENTS

ASSUME DirectAssumption ==
  /\ Direct \subseteq Chat
  /\ MaxIntents \in Nat

VARIABLES
  db,         \* the database every connection reads
  safe,       \* the database a crash leaves: db as of the last synced commit
  files,      \* the files on disk
  intents,    \* staging intents on disk
  aged,       \* intents older than ORPHAN_GRACE
  guard,      \* holder of the admission permit
  pc,         \* where the client loop is
  job,        \* the ciphertext being admitted, at most one
  outcome,    \* its disposition, once committed
  live,       \* token, generation and revision still as the loop captured them
  found,      \* haves read by a hydration that is not installed yet
  owners,     \* intents a reconciliation still counts as owning files
  queue,      \* intents it has yet to visit
  todo,       \* journaled files a cleanup batch has yet to visit
  shield,     \* files the staging intents protected when the batch began
  done,       \* journaled files it removed
  dpc,        \* where the user's deletion is; it owns the lifecycle lock
  installed,  \* download state hydrated, so that downloads may run
  haves,      \* ciphertexts the node may be told to forget
  remote,     \* ciphertexts the node still stores
  direct,     \* progress of each direct delivery
  shown,      \* how often a message was published to the chat
  quiet       \* no more traffic, commands or faults (only FairSpec sets it)

disk    == <<db, safe, files, intents, aged>>
session == <<installed, haves, remote, shown>>
loopv   == <<pc, job, outcome, live, found, owners, queue>>
cleanv  == <<todo, shield, done>>
vars == <<db, safe, files, intents, aged, guard, pc, job, outcome, live, found,
          owners, queue, todo, shield, done, dpc, installed, haves, remote,
          direct, shown, quiet>>

LoopSteps == {"idle", "reserve", "write_intent", "write_archive", "write_media",
              "commit", "check_reference", "remove_intent", "publish",
              "sweep", "sync", "reconcile", "hydrate", "install"}
StagingSteps == {"write_intent", "write_archive", "write_media", "commit"}
DeleteSteps == {"idle", "begun", "deleted", "clean", "ending"}
DirectSteps == {"away", "checked", "staged", "arrived"}

TypeOK ==
  /\ db \in Databases /\ safe \in Databases
  /\ files \subseteq Artifacts
  /\ intents \subseteq Tids /\ aged \subseteq Tids
  /\ guard \in {"free", "loop", "delete"}
  /\ pc \in LoopSteps
  /\ job \subseteq Tids
  /\ outcome \in Dispositions \union {"none"}
  /\ live \in BOOLEAN
  /\ found \subseteq Tids /\ owners \subseteq Tids /\ queue \subseteq Tids
  /\ todo \subseteq Artifacts /\ shield \subseteq Artifacts /\ done \subseteq Artifacts
  /\ dpc \in DeleteSteps
  /\ installed \in BOOLEAN
  /\ haves \subseteq Tids /\ remote \subseteq Tids
  /\ direct \in [Direct -> DirectSteps]
  /\ shown \in [Msgs -> 0..2]
  /\ quiet \in BOOLEAN

Init ==
  /\ db = EmptyDatabase /\ safe = EmptyDatabase
  /\ files = {} /\ intents = {} /\ aged = {}
  /\ guard = "free"
  /\ pc = "idle" /\ job = {} /\ outcome = "none" /\ live = FALSE
  /\ found = {} /\ owners = {} /\ queue = {}
  /\ todo = {} /\ shield = {} /\ done = {}
  /\ dpc = "idle"
  /\ installed = FALSE /\ haves = {} /\ remote = Tids
  /\ direct = [m \in Direct |-> "away"]
  /\ shown = [m \in Msgs |-> 0]
  /\ quiet = FALSE

-----------------------------------------------------------------------------
(* Transactions.  A FULL commit that is acknowledged is on disk, and so is *)
(* every commit before it.  An uncertain one may be visible or not, and    *)
(* synced or not.  The pool the direct path uses is synchronous=NORMAL:    *)
(* visible at once, synced by a later FULL commit or a checkpoint.         *)
Commits(d)   == db' = d /\ safe' = d
Uncertain(d) == db' = d /\ safe' \in {safe, d}
(* Mutant of Barrier: a read or an update that changes nothing.            *)
BarrierNoOp  == UNCHANGED <<db, safe>>
Barrier      == Commits(db)

LoopIdles ==
  /\ pc' = "idle" /\ job' = {} /\ outcome' = "none" /\ live' = FALSE
  /\ found' = {} /\ owners' = {} /\ queue' = {}

-----------------------------------------------------------------------------
(* Admitting one download: admit_download and commit_message.              *)

(* The node hands over a ciphertext it was asked for; the token is current *)
(* when the worker starts.                                                 *)
Begin(t) ==
  /\ ~quiet
  /\ pc = "idle" /\ installed /\ t \in remote \ haves
  /\ pc' = "reserve" /\ job' = {t} /\ live' = TRUE
  /\ UNCHANGED <<disk, guard, outcome, found, owners, queue, cleanv, dpc,
                 session, direct, quiet>>

(* try_reserve_admission, after the ciphertext decrypted and verified.     *)
Reserve ==
  /\ pc = "reserve" /\ guard = "free"
  /\ guard' = "loop" /\ pc' = "write_intent"
  /\ UNCHANGED <<disk, job, outcome, live, found, owners, queue, cleanv, dpc,
                 session, direct, quiet>>

(* Rejected: Busy, not decryptable, a bad signature or stamp.              *)
Reject ==
  /\ pc = "reserve"
  /\ LoopIdles
  /\ UNCHANGED <<disk, guard, cleanv, dpc, session, direct, quiet>>

WriteIntent ==
  /\ pc = "write_intent"
  /\ \E t \in job :
       /\ t \in intents \/ Cardinality(intents) < MaxIntents
       /\ intents' = intents \union {t}
       /\ aged' = aged \ {t}
  /\ pc' = "write_archive"
  /\ UNCHANGED <<db, safe, files, guard, job, outcome, live, found, owners,
                 queue, cleanv, dpc, session, direct, quiet>>

WriteArchive ==
  /\ pc = "write_archive"
  /\ \E t \in job : files' = files \union {ArchiveOf(t)}
  /\ pc' = "write_media"
  /\ UNCHANGED <<db, safe, intents, aged, guard, job, outcome, live, found,
                 owners, queue, cleanv, dpc, session, direct, quiet>>

(* One media file after the other; a file that is there already is         *)
(* replaced by the same content.                                           *)
WriteMedia ==
  /\ pc = "write_media"
  /\ \E t \in job :
       LET missing == ManifestOf(MsgOf[t]) \ files
       IN  \/ /\ missing = {}
              /\ pc' = "commit" /\ UNCHANGED files
           \/ \E f \in missing : files' = files \union {f} /\ UNCHANGED pc
  /\ UNCHANGED <<db, safe, intents, aged, guard, job, outcome, live, found,
                 owners, queue, cleanv, dpc, session, direct, quiet>>

(* The permit is given back as commit returns.                             *)
Commit ==
  /\ pc = "commit"
  /\ \E t \in job, expired \in SUBSET DiscardedTids(db) :
       LET before == Purged(db, expired)
       IN  \E disposition \in Outcomes(before, t, files) :
             /\ Commits(Admitted(before, t, disposition))
             /\ outcome' = disposition
             /\ haves' = haves \ expired
  /\ guard' = "free" /\ pc' = "check_reference"
  /\ UNCHANGED <<files, intents, aged, job, live, found, owners, queue, cleanv,
                 dpc, installed, remote, direct, shown, quiet>>

(* CommitUncertain: the token is rejected, the intent stays.  What expired *)
(* is no longer offered to the node either way.                            *)
CommitUncertain ==
  /\ ~quiet
  /\ pc = "commit"
  /\ \E t \in job, expired \in SUBSET DiscardedTids(db) :
       LET before == Purged(db, expired)
       IN  \E disposition \in Outcomes(before, t, files) :
             /\ Uncertain(Admitted(before, t, disposition))
             /\ haves' = haves \ expired
  /\ guard' = "free" /\ LoopIdles
  /\ UNCHANGED <<files, intents, aged, cleanv, dpc, installed, remote, shown,
                 direct, quiet>>

(* An error while staging or committing, and an error of the reference     *)
(* read after the commit.  Errors the state itself forces need no fault.   *)
Forced ==
  \E t \in job :
    \/ pc = "write_intent" /\ t \notin intents /\ Cardinality(intents) >= MaxIntents
    \/ pc = "commit" /\ Outcomes(db, t, files) = {}
Fail ==
  /\ pc \in StagingSteps \union {"check_reference"}
  /\ ~quiet \/ Forced
  /\ guard' = IF pc \in StagingSteps THEN "free" ELSE guard
  /\ LoopIdles
  /\ UNCHANGED <<disk, cleanv, dpc, session, direct, quiet>>

(* Mutant of CheckReference: the intent goes whatever the disposition.     *)
CheckReferenceSkipped ==
  /\ pc = "check_reference" /\ pc' = "remove_intent"
  /\ UNCHANGED <<disk, guard, job, outcome, live, found, owners, queue, cleanv,
                 dpc, session, direct, quiet>>

(* The staging intent is dropped only when the archive is referenced; the  *)
(* permit is no longer held between the reading and the removal.           *)
CheckReference ==
  /\ pc = "check_reference"
  /\ \E t \in job :
       pc' = IF References(db, ArchiveOf(t)) THEN "remove_intent" ELSE "publish"
  /\ UNCHANGED <<disk, guard, job, outcome, live, found, owners, queue, cleanv,
                 dpc, session, direct, quiet>>

RemoveIntent ==
  /\ pc = "remove_intent"
  /\ \/ intents' = intents \ job /\ aged' = aged \ job
     \/ ~quiet /\ UNCHANGED <<intents, aged>>    \* only a warning
  /\ pc' = "publish"
  /\ UNCHANGED <<db, safe, files, guard, job, outcome, live, found, owners,
                 queue, cleanv, dpc, session, direct, quiet>>

(* Mutant of Publish: the token is not looked at again.                    *)
PublishUnfenced ==
  /\ pc = "publish" /\ dpc = "idle"
  /\ haves' = haves \union job
  /\ shown' = [m \in Msgs |->
       IF outcome = "committed" /\ m \in Chat /\ (\E t \in job : MsgOf[t] = m)
          /\ shown[m] < 2
       THEN shown[m] + 1 ELSE shown[m]]
  /\ LoopIdles
  /\ UNCHANGED <<disk, guard, cleanv, dpc, installed, remote, direct, quiet>>

(* Under the lifecycle lock: with the token still current the disposition  *)
(* is remembered and accepted, and a new message is published.             *)
Publish ==
  /\ pc = "publish" /\ dpc = "idle"
  /\ IF live
     THEN /\ haves' = haves \union job
          /\ shown' = [m \in Msgs |->
               IF outcome = "committed" /\ m \in Chat /\ (\E t \in job : MsgOf[t] = m)
                  /\ shown[m] < 2
               THEN shown[m] + 1 ELSE shown[m]]
     ELSE UNCHANGED <<haves, shown>>
  /\ LoopIdles
  /\ UNCHANGED <<disk, guard, cleanv, dpc, installed, remote, direct, quiet>>

(* The node is told what is held and forgets it.                           *)
Purge(t) ==
  /\ t \in haves \intersect remote
  /\ remote' = remote \ {t}
  /\ UNCHANGED <<disk, guard, loopv, cleanv, dpc, installed, haves, direct,
                 shown, quiet>>

-----------------------------------------------------------------------------
(* cleanup_deleted_batch, for the loop's sweep and for a deletion's        *)
(* remove_files.  who holds the permit from begin to end.                  *)

(* The journal counts as authority once a barrier synced it.               *)
CleaningStarts ==
  /\ Barrier
  /\ todo' = db.journal /\ done' = {}
  /\ shield' = UNION {StagedFiles(t) : t \in intents}
CleaningEnds == todo' = {} /\ shield' = {} /\ done' = {}

Cleaning(who) ==
  /\ guard = who
  /\ IF who = "loop" THEN pc = "sweep" ELSE dpc = "clean"
Released(who) ==
  /\ guard' = "free"
  /\ pc'  = IF who = "loop" THEN "idle" ELSE pc
  /\ dpc' = IF who = "delete" THEN "ending" ELSE dpc

Skip(who) ==
  /\ Cleaning(who)
  /\ \E f \in todo : (f \in shield \/ References(db, f)) /\ todo' = todo \ {f}
  /\ UNCHANGED <<disk, guard, loopv, shield, done, dpc, session, direct, quiet>>

Unlink(who) ==
  /\ Cleaning(who)
  /\ \E f \in todo \ shield :
       /\ ~References(db, f)
       /\ files' = files \ {f}
       /\ todo' = todo \ {f} /\ done' = done \union {f}
  /\ UNCHANGED <<db, safe, intents, aged, guard, loopv, shield, dpc, session,
                 direct, quiet>>

Complete(who) ==
  /\ Cleaning(who) /\ todo = {}
  /\ \/ done = {} /\ UNCHANGED <<db, safe>>
     \/ done # {} /\ Commits(Completed(db, done))
  /\ CleaningEnds /\ Released(who)
  /\ UNCHANGED <<files, intents, aged, job, outcome, live, found, owners, queue,
                 session, direct, quiet>>

(* A removal or the completing transaction failed.                         *)
CleaningFails(who) ==
  /\ ~quiet
  /\ Cleaning(who)
  /\ UNCHANGED <<db, safe>> \/ (todo = {} /\ Uncertain(Completed(db, done)))
  /\ CleaningEnds /\ Released(who)
  /\ UNCHANGED <<files, intents, aged, job, outcome, live, found, owners, queue,
                 session, direct, quiet>>

-----------------------------------------------------------------------------
(* DownloadCoordinator.synchronize, run by the loop between downloads.     *)

Sweep ==
  /\ pc = "idle" /\ guard = "free" /\ db.journal # {}
  /\ CleaningStarts
  /\ guard' = "loop" /\ pc' = "sweep"
  /\ UNCHANGED <<files, intents, aged, job, outcome, live, found, owners, queue,
                 dpc, session, direct, quiet>>

(* Generation and download revision are captured; a later revocation makes *)
(* the captured revision stale.                                            *)
Capture ==
  /\ pc = "idle"
  /\ pc' = "sync" /\ live' = TRUE
  /\ UNCHANGED <<disk, guard, job, outcome, found, owners, queue, cleanv, dpc,
                 session, direct, quiet>>

(* The worker reserves the permit and lists the intents; with any there, a *)
(* barrier renews the database's authority over them.                      *)
Synchronize ==
  /\ pc = "sync" /\ guard = "free"
  /\ guard' = "loop" /\ pc' = "reconcile"
  /\ owners' = intents /\ queue' = intents
  /\ IF intents = {} THEN UNCHANGED <<db, safe>> ELSE Barrier
  /\ UNCHANGED <<files, intents, aged, job, outcome, live, found, cleanv, dpc,
                 session, direct, quiet>>

(* Mutant of Orphan: an orphan whose archive is gone is not one any more.  *)
OrphanWithArchive(t) ==
  t \in aged /\ ArchiveOf(t) \notin db.effects /\ ArchiveOf(t) \in files

Orphan(t) == t \in aged /\ ArchiveOf(t) \notin db.effects

(* An archive goes with its last intent; media only if no row names it.    *)
Removable(t) ==
  {f \in StagedFiles(t) \intersect files :
     /\ \A o \in owners \ {t} : f \notin StagedFiles(o)
     /\ f = ArchiveOf(t) \/ ~References(db, f)}

Reconcile(t) ==
  /\ pc = "reconcile" /\ t \in queue
  /\ \/ \* committed: the intent has done its work, the files must be there
        /\ ArchiveOf(t) \in db.effects
        /\ StagedFiles(t) \subseteq files
        /\ intents' = intents \ {t} /\ aged' = aged \ {t}
        /\ queue' = queue \ {t} /\ owners' = owners \ {t}
        /\ UNCHANGED files
     \/ \* too young to be an orphan
        /\ ArchiveOf(t) \notin db.effects /\ t \notin aged
        /\ queue' = queue \ {t}
        /\ UNCHANGED <<files, intents, aged, owners>>
     \/ \* an orphan's files, the archive first
        /\ Orphan(t)
        /\ \E f \in Removable(t) :
             /\ ArchiveOf(t) \in Removable(t) => f = ArchiveOf(t)
             /\ files' = files \ {f}
        /\ UNCHANGED <<intents, aged, queue, owners>>
     \/ \* and then the intent
        /\ Orphan(t) /\ Removable(t) = {}
        /\ intents' = intents \ {t} /\ aged' = aged \ {t}
        /\ queue' = queue \ {t} /\ owners' = owners \ {t}
        /\ UNCHANGED files
  /\ UNCHANGED <<db, safe, guard, pc, job, outcome, live, found, cleanv, dpc,
                 session, direct, quiet>>

Reconciled ==
  /\ pc = "reconcile" /\ queue = {}
  /\ pc' = "hydrate"
  /\ UNCHANGED <<disk, guard, job, outcome, live, found, owners, queue, cleanv,
                 dpc, session, direct, quiet>>

(* Initially, and after every revocation, what is held is read back after  *)
(* a barrier, and only receipts whose files verify count.                  *)
Hydrate ==
  /\ pc = "hydrate"
  /\ IF installed
     THEN UNCHANGED <<db, safe, found>>
     ELSE /\ Barrier
          /\ \E expired \in SUBSET DiscardedTids(db) :
               found' = Recoverable(db, files, expired)
  /\ guard' = "free" /\ pc' = "install"
  /\ UNCHANGED <<files, intents, aged, job, outcome, live, owners, queue, cleanv,
                 dpc, session, direct, quiet>>

(* Busy, a missing file or a storage error: try again later.               *)
SynchronizeFails ==
  /\ \/ pc = "sync" /\ guard # "free"
     \/ pc \in {"sync", "reconcile", "hydrate"} /\ ~quiet
     \/ /\ pc = "reconcile"
        /\ \E t \in queue : ArchiveOf(t) \in db.effects /\ ~(StagedFiles(t) \subseteq files)
  /\ guard' = IF pc = "sync" THEN guard ELSE "free"
  /\ LoopIdles
  /\ UNCHANGED <<disk, cleanv, dpc, session, direct, quiet>>

Install ==
  /\ pc = "install" /\ dpc = "idle"
  /\ IF live /\ ~installed
     THEN installed' = TRUE /\ haves' = found
     ELSE UNCHANGED <<installed, haves>>
  /\ LoopIdles
  /\ UNCHANGED <<disk, guard, cleanv, dpc, remote, direct, shown, quiet>>

-----------------------------------------------------------------------------
(* Deleting messages: begin_download_deletion, delete_scoped, remove_files *)
(* and the drop of the deletion guard, within one lifecycle span.          *)

Revoke == live' = FALSE /\ installed' = FALSE /\ haves' = {}

BeginDeletion ==
  /\ ~quiet
  /\ dpc = "idle"
  /\ dpc' = "begun" /\ Revoke
  /\ UNCHANGED <<disk, guard, pc, job, outcome, found, owners, queue, cleanv,
                 remote, direct, shown, quiet>>

DeleteRows(selected) ==
  /\ dpc = "begun" /\ guard = "free"
  /\ selected # {} /\ \A m \in selected : db.rows[m] # "absent"
  /\ Commits(Deleted(db, selected))
  /\ guard' = "delete" /\ dpc' = "deleted"
  /\ UNCHANGED <<files, intents, aged, loopv, cleanv, session, direct, quiet>>

(* remove_files, still under the permit the deletion took.                 *)
RemoveFiles ==
  /\ dpc = "deleted"
  /\ CleaningStarts
  /\ dpc' = "clean"
  /\ UNCHANGED <<files, intents, aged, guard, loopv, session, direct, quiet>>

DeleteUncertain(selected) ==
  /\ ~quiet
  /\ dpc = "begun" /\ guard = "free"
  /\ selected # {} /\ \A m \in selected : db.rows[m] # "absent"
  /\ Uncertain(Deleted(db, selected))
  /\ dpc' = "ending"
  /\ UNCHANGED <<files, intents, aged, guard, loopv, cleanv, session, direct, quiet>>

(* Busy, nothing selected or an error before the commit.                   *)
DeletionFails ==
  /\ dpc = "begun"
  /\ dpc' = "ending"
  /\ UNCHANGED <<disk, guard, loopv, cleanv, session, direct, quiet>>

(* Mutant of EndDeletion: one revocation, at the beginning, is enough.     *)
EndDeletionUnrevoked ==
  /\ dpc = "ending" /\ dpc' = "idle"
  /\ UNCHANGED <<disk, guard, loopv, cleanv, session, direct, quiet>>

EndDeletion ==
  /\ dpc = "ending"
  /\ dpc' = "idle" /\ Revoke
  /\ UNCHANGED <<disk, guard, pc, job, outcome, found, owners, queue, cleanv,
                 remote, direct, shown, quiet>>

-----------------------------------------------------------------------------
(* A direct delivery of a message (process_inbound_lxmf): it looks for the *)
(* row, then writes its media under fresh names and saves the row, outside *)
(* the permit and on a pool connection.                                    *)

DirectCheck(m) ==
  /\ ~quiet
  /\ direct[m] = "away"
  /\ direct' = [direct EXCEPT ![m] =
                  IF db.rows[m] = "absent" THEN "checked" ELSE "arrived"]
  /\ UNCHANGED <<disk, guard, loopv, cleanv, dpc, session, quiet>>

(* Mutant of DirectStage: the row is saved without its file.               *)
DirectStageNothing(m) ==
  /\ direct[m] = "checked"
  /\ direct' = [direct EXCEPT ![m] = "staged"]
  /\ UNCHANGED <<disk, guard, loopv, cleanv, dpc, session, quiet>>

DirectStage(m) ==
  /\ direct[m] = "checked"
  /\ direct' = [direct EXCEPT ![m] = "staged"]
  /\ files' = IF MediaOf[m] = {} THEN files ELSE files \union {<<"own", m>>}
  /\ UNCHANGED <<db, safe, intents, aged, guard, loopv, cleanv, dpc, session, quiet>>

DirectSave(m) ==
  /\ direct[m] = "staged"
  /\ direct' = [direct EXCEPT ![m] = "arrived"]
  /\ \/ db' = SavedDirectly(db, m) /\ UNCHANGED files
     \/ ~quiet /\ files' = files \ {<<"own", m>>} /\ UNCHANGED db
  /\ UNCHANGED <<safe, intents, aged, guard, loopv, cleanv, dpc, session, quiet>>

-----------------------------------------------------------------------------
(* The environment.                                                        *)

(* A checkpoint, or the system writing the log out.                        *)
Flush ==
  /\ safe # db
  /\ safe' = db
  /\ UNCHANGED <<db, files, intents, aged, guard, loopv, cleanv, dpc, session,
                 direct, quiet>>

Age(t) ==
  /\ t \in intents \ aged
  /\ aged' = aged \union {t}
  /\ UNCHANGED <<db, safe, files, intents, guard, loopv, cleanv, dpc, session,
                 direct, quiet>>

(* Power is lost: files, intents and synced commits remain.                *)
Crash ==
  /\ ~quiet
  /\ db' = safe
  /\ guard' = "free" /\ LoopIdles /\ CleaningEnds /\ dpc' = "idle"
  /\ installed' = FALSE /\ haves' = {}
  /\ direct' = [m \in Direct |-> IF direct[m] = "away" THEN "away" ELSE "arrived"]
  /\ UNCHANGED <<safe, files, intents, aged, remote, shown, quiet>>

Quieten ==
  /\ ~quiet /\ quiet' = TRUE
  /\ UNCHANGED <<disk, guard, loopv, cleanv, dpc, session, direct>>

-----------------------------------------------------------------------------
Admission ==
  \/ \E t \in Tids : Begin(t)
  \/ Reserve \/ Reject \/ WriteIntent \/ WriteArchive \/ WriteMedia
  \/ Commit \/ CommitUncertain \/ Fail
  \/ CheckReference \/ RemoveIntent \/ Publish
  \/ \E t \in Tids : Purge(t)
Cleanup(who) == Skip(who) \/ Unlink(who) \/ Complete(who) \/ CleaningFails(who)
Coordination ==
  \/ Sweep \/ Cleanup("loop")
  \/ Capture \/ Synchronize \/ (\E t \in Tids : Reconcile(t))
  \/ Reconciled \/ Hydrate \/ Install \/ SynchronizeFails
Deletion ==
  \/ BeginDeletion \/ RemoveFiles \/ EndDeletion \/ DeletionFails \/ Cleanup("delete")
  \/ \E selected \in SUBSET Msgs : DeleteRows(selected) \/ DeleteUncertain(selected)
DirectDelivery == \E m \in Direct : DirectCheck(m) \/ DirectStage(m) \/ DirectSave(m)
Environment == Flush \/ Crash \/ \E t \in Tids : Age(t)

Next == Admission \/ Coordination \/ Deletion \/ DirectDelivery \/ Environment
Spec == Init /\ [][Next]_vars

(* Left alone, every activity that is under way goes on, the coordinator   *)
(* comes round to both its duties (each tick of the client loop runs the   *)
(* sweep and the synchronization), and time passes.                        *)
Proceed ==
  \/ Reserve \/ Reject \/ WriteIntent \/ WriteArchive \/ WriteMedia \/ Commit
  \/ Fail \/ CheckReference \/ RemoveIntent \/ Publish
  \/ Cleanup("loop") \/ Synchronize \/ (\E t \in Tids : Reconcile(t))
  \/ Reconciled \/ Hydrate \/ Install \/ SynchronizeFails
Finish ==
  \/ RemoveFiles \/ EndDeletion \/ DeletionFails \/ Cleanup("delete")
Fairness ==
  /\ WF_vars(Proceed) /\ WF_vars(Finish)
  /\ SF_vars(Sweep) /\ SF_vars(Capture)
  /\ \A t \in Tids : WF_vars(Age(t))
FairSpec == Init /\ [][Next \/ Quieten]_vars /\ Fairness

-----------------------------------------------------------------------------
(* Properties.  Both databases count: what a crash leaves must be as       *)
(* consistent as what the connections see.                                 *)
Views == {db, safe}

(* Nothing removes a file that a retained effect needs, whatever shares    *)
(* it: neither a sweep, a deletion, an orphan's reconciliation nor any of  *)
(* them followed by a crash that undoes an unsynced transaction.           *)
RetainedFilesPresent ==
  \A d \in Views : \A m \in Msgs :
    \A a \in EffectsOf(d, m) : {a} \union ManifestOf(m) \subseteq files

RowMediaPresent == \A d \in Views : \A m \in Msgs : NamedBy(d, m) \subseteq files

ArchivesPresent == \A d \in Views : d.effects \subseteq files

(* What a chat row names can be opened and every archive is there, also    *)
(* when a direct copy owns the row of a message that was downloaded.       *)
FilesPresent == RowMediaPresent /\ ArchivesPresent

HavesBacked == haves \subseteq Recoverable(safe, files, {})

PurgedSettled ==
  \A t \in Tids \ remote :
    LET m == MsgOf[t] IN
    \/ m \in safe.deleted
    \/ t \in safe.refused
    \/ /\ HasEffect(safe, m) /\ EffectsOf(safe, m) \subseteq files
       /\ m \in Chat => safe.rows[m] # "absent"
       /\ NamedBy(safe, m) \subseteq files

(* The client tells the node it holds a ciphertext only while a synced     *)
(* receipt says so and the receipt's effect can be verified on disk, and a *)
(* message the node was allowed to forget is not lost: its effect, its     *)
(* archive, its row and the media the row names survive a crash, unless    *)
(* the user deleted it or policy refused it.                               *)
PurgeAuthority == HavesBacked /\ PurgedSettled

(* No staged file is forgotten: an intent, a reference or the deletion     *)
(* journal accounts for it, also after a crash at any step.                *)
NoOrphans ==
  \A f \in files \ OwnFiles :
    \/ \E t \in intents : f \in StagedFiles(t)
    \/ \A d \in Views : f \in d.journal \/ References(d, f)

(* A message the user deleted has no row and no effect again, whichever    *)
(* ciphertext brings it back.                                              *)
DeletedStaysDeleted ==
  \A d \in Views : \A m \in d.deleted : d.rows[m] = "absent" /\ ~HasEffect(d, m)

(* A receipt that claims an effect has one, and a message has one effect   *)
(* however many ciphertexts carry it.                                      *)
ReceiptsBacked ==
  \A d \in Views :
    /\ \A t \in Tids :
         d.receipts[t] \in {"committed", "duplicate"} => HasEffect(d, MsgOf[t])
    /\ \A a, b \in d.effects : a[2] = b[2] => a = b

(* However often it is downloaded, retried after an uncertain commit or a  *)
(* crash, a message is published to the chat once.                         *)
ShownOnce == \A m \in Msgs : shown[m] <= 1

(* Once nothing disturbs it, the client gets rid of every staging intent   *)
(* and of every deleted file that nothing names any more.                  *)
LeftoversGo ==
  quiet ~> /\ intents = {}
           /\ \A f \in db.journal : References(db, f)

(* The download implements the abstract store of message fates: whatever   *)
(* crashes, retries, deletions and downloads interleave, what is on disk   *)
(* decides what is shown and what the node is told to forget.              *)
FateIn(d) ==
  [m \in Msgs |-> IF m \in d.deleted THEN "deleted"
                  ELSE IF HasEffect(d, m) THEN "kept" ELSE "unseen"]
Fates == INSTANCE MessageFates
  WITH fate <- FateIn(safe), refused <- safe.refused, node <- remote
KeepsFates == Fates!Spec
=============================================================================
