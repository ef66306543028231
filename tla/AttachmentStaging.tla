-------------------------- MODULE AttachmentStaging --------------------------
(***************************************************************************)
(* Outbound attachments, from the private staging file the dashboard fills *)
(* to the reservation its message keeps while it is on its way             *)
(* (crates/ratspeak-runtime/src/state.rs, and the send commands in         *)
(* crates/ratspeak-tauri/src/commands/messaging.rs and voice.rs).          *)
(*                                                                         *)
(* Commands run concurrently: every step below is what one of them does    *)
(* between two awaits, or under one lock.  Meanwhile the identity may      *)
(* switch, the system may warn about memory, and the user may cancel.      *)
(*                                                                         *)
(* Photos and files are sent by queue_prepared_attachment, voice clips by  *)
(* queue_prepared_audio under the lifecycle lock, and inline attachments   *)
(* have a lease but no stage.  A token stands for its stage, its file, its *)
(* lease, and the message and client id of its send.  Sends carry fresh    *)
(* client ids, so that the duplicate and the capacity check of             *)
(* begin_lxmf_client_send always pass; a second send of a token finds its  *)
(* stage taken and changes nothing.                                        *)
(***************************************************************************)
EXTENDS TransferBudget, FiniteSetsExt

CONSTANTS
  Tokens,         \* staging tokens, never used twice
  Kinds,          \* kinds of attachments in use
  None,           \* no lease, no preparation
  MaxGeneration   \* bound on identity sessions

AllKinds == {"file", "photo", "clip", "inline"}

ASSUME StagingAssumption ==
  /\ Kinds \subseteq AllKinds
  /\ MaxGeneration \in Nat \ {0}
  /\ None \notin Leases
  /\ {"free", "switch"} \cap Tokens = {}

VARIABLES
  generation, \* identity_session_generation
  manager,    \* the session the message manager was opened for, 0 while down
  lock,       \* holder of the lifecycle lock: a switch or a voice send
  pressured,  \* attachment_pressure_until_ms lies ahead
  warning,    \* a memory warning has set the pause and not drained yet
  budget,     \* attachment_transfer_budget
  lease,      \* the lease of a token
  unwinding,  \* removed from their collection, their drop still to come
  stage,      \* attachment_staging, and the stages outside of it
  writer,     \* bytes append_attachment_staging is writing outside the lock
  preparer,   \* the image preparation under image_preparation_lock
  files,      \* tokens with a staging file
  outputs,    \* tokens with a prepared image beside their staging file
  send,       \* the send command of a token
  op,         \* lxmf_client_sends, by token
  stopped,    \* client sends whose cancellation flag is set
  inflight,   \* attachment_staging_inflight
  discarded,  \* clips whose retry_cancelled flag is set
  held,       \* attachment_delivery_leases, by message
  message,    \* the message in the router of the manager that queued it
  signer,     \* the session of the manager that queued it
  cancels     \* canonical cancellations under way

session  == <<generation, manager, lock>>
memory   == <<pressured, warning>>
owned    == <<budget, lease>>
disk     == <<files, outputs>>
registry == <<op, stopped>>
retry    == <<inflight, discarded>>
outbox   == <<message, signer, cancels>>
work     == <<writer, preparer>>
vars == <<generation, manager, lock, pressured, warning, budget, lease,
          unwinding, stage, writer, preparer, files, outputs, send, op,
          stopped, inflight, discarded, held, message, signer, cancels>>

Generations == 1..MaxGeneration
Places == {"none", "reserved", "stamped", "staged", "taken", "gone"}
Phases == {"idle", "fenced", "reading", "waiting", "admitting", "queued",
           "held", "published", "revoking", "restoring", "done"}
Stages ==
  {s \in [place : Places, kind : AllKinds, size : Sizes \union {0},
          written : Nat, image : {"raw", "preparing", "ready"},
          gen : Generations \union {0}] : s.written <= s.size}
Preparations ==
  [token : Tokens, step : {"working"}, size : {0}]
  \union
  [token : Tokens, step : {"produced"}, size : Sizes]
ASSUME PreparationAssumption == None \notin Preparations

Sends == [phase : Phases, named : BOOLEAN, fence : Generations \union {0}]

TypeOK ==
  /\ generation \in Generations
  /\ manager \in Generations \union {0}
  /\ lock \in {"free", "switch"} \union Tokens
  /\ pressured \in BOOLEAN /\ warning \in BOOLEAN
  /\ budget \in Budgets
  /\ lease \in [Tokens -> Leases \union {None}]
  /\ unwinding \subseteq Tokens
  /\ stage \in [Tokens -> Stages]
  /\ writer \in [Tokens -> Nat]
  /\ preparer \in Preparations \union {None}
  /\ files \subseteq Tokens /\ outputs \subseteq Tokens
  /\ send \in [Tokens -> Sends]
  /\ op \in [Tokens -> {"none", "preparing", "published"}]
  /\ stopped \subseteq Tokens
  /\ inflight \subseteq Tokens /\ discarded \subseteq Tokens
  /\ held \subseteq Tokens
  /\ message \in [Tokens -> {"none", "live", "settled", "lost"}]
  /\ signer \in [Tokens -> Generations \union {0}]
  /\ cancels \subseteq Tokens

Init ==
  /\ generation = 1 /\ manager = 1 /\ lock = "free"
  /\ pressured = FALSE /\ warning = FALSE
  /\ budget = EmptyBudget
  /\ lease = [t \in Tokens |-> None]
  /\ unwinding = {}
  /\ stage = [t \in Tokens |->
       [place |-> "none", kind |-> "file", size |-> 0, written |-> 0,
        image |-> "ready", gen |-> 0]]
  /\ writer = [t \in Tokens |-> 0]
  /\ preparer = None
  /\ files = {} /\ outputs = {}
  /\ send = [t \in Tokens |-> [phase |-> "idle", named |-> FALSE, fence |-> 0]]
  /\ op = [t \in Tokens |-> "none"] /\ stopped = {}
  /\ inflight = {} /\ discarded = {}
  /\ held = {}
  /\ message = [t \in Tokens |-> "none"]
  /\ signer = [t \in Tokens |-> 0]
  /\ cancels = {}

-----------------------------------------------------------------------------
At(t, place)  == stage[t].place = place
In(t, phase)  == send[t].phase = phase
Goes(t, phase) == send' = [send EXCEPT ![t].phase = phase]
Staged        == {t \in Tokens : At(t, "staged")}
Fresh(t)      == stage[t].gen = generation

(* attachment_staging_is_current *)
Current(t) == Fresh(t) /\ ~pressured /\ t \notin discarded

(* A StagedAttachment is dropped: it leaves its owner now, its file and    *)
(* then its lease go in Unwind.                                            *)
Dropped(t) ==
  /\ stage' = [stage EXCEPT ![t].place = "gone"]
  /\ unwinding' = unwinding \union {t}
  /\ inflight' = inflight \ {t}

(* release_attachment_delivery_lease *)
ReleaseHeld(t) ==
  /\ held' = held \ {t}
  /\ unwinding' = unwinding \union ({t} \cap held)

(* Drop of StagedAttachment and of AttachmentTransferLease.                *)
Unwind(t) ==
  /\ t \in unwinding
  /\ unwinding' = unwinding \ {t}
  /\ files' = files \ {t}
  /\ budget' = Released(budget, lease[t])
  /\ lease' = [lease EXCEPT ![t] = None]
  /\ UNCHANGED <<session, memory, stage, work, outputs, send, registry, retry,
                 held, outbox>>

-----------------------------------------------------------------------------
(* begin_attachment_staging: the reservation and the file, then the        *)
(* session is read, then the stage enters the collection.                  *)
Begin(t, kind, size) ==
  /\ At(t, "none") /\ kind \in Kinds \ {"inline"}
  /\ Admits(budget, size, pressured)
  /\ budget' = Reserved(budget, LeaseFor(size))
  /\ lease' = [lease EXCEPT ![t] = LeaseFor(size)]
  /\ files' = files \union {t}
  /\ stage' = [stage EXCEPT ![t] =
       [place |-> "reserved", kind |-> kind, size |-> size, written |-> 0,
        image |-> IF kind = "photo" THEN "raw" ELSE "ready", gen |-> 0]]
  /\ UNCHANGED <<session, memory, unwinding, work, outputs, send, registry,
                 retry, held, outbox>>

Stamp(t) ==
  /\ At(t, "reserved")
  /\ stage' = [stage EXCEPT ![t].place = "stamped", ![t].gen = generation]
  /\ UNCHANGED <<session, memory, owned, unwinding, work, disk, send, registry,
                 retry, held, outbox>>

Insert(t) ==
  /\ At(t, "stamped")
  /\ stage' = [stage EXCEPT ![t].place = "staged"]
  /\ UNCHANGED <<session, memory, owned, unwinding, work, disk, send, registry,
                 retry, held, outbox>>

(* append_attachment_staging: one chunk at a time, written outside the     *)
(* lock.                                                                   *)
AppendBegin(t, n) ==
  /\ At(t, "staged") /\ Fresh(t)
  /\ writer[t] = 0
  /\ n <= stage[t].size - stage[t].written
  /\ writer' = [writer EXCEPT ![t] = n]
  /\ UNCHANGED <<session, memory, owned, unwinding, stage, preparer, disk, send,
                 registry, retry, held, outbox>>

AppendEnd(t, ok) ==
  /\ writer[t] > 0
  /\ writer' = [writer EXCEPT ![t] = 0]
  /\ IF At(t, "staged")
     THEN /\ stage' = IF ok THEN [stage EXCEPT ![t].written = @ + writer[t]]
                      ELSE stage
          /\ UNCHANGED files
     ELSE /\ files' = files \ {t}
          /\ UNCHANGED stage
  /\ UNCHANGED <<session, memory, owned, unwinding, preparer, outputs, send,
                 registry, retry, held, outbox>>

-----------------------------------------------------------------------------
(* What begin_staged_image_preparation and mark_staged_image_as_file ask.  *)
RawImage(t) ==
  /\ At(t, "staged") /\ Fresh(t)
  /\ stage[t].image = "raw"
  /\ writer[t] = 0
  /\ stage[t].written = stage[t].size

PrepareBegin(t) ==
  /\ preparer = None /\ RawImage(t)
  /\ stage' = [stage EXCEPT ![t].image = "preparing"]
  /\ preparer' = [token |-> t, step |-> "working", size |-> 0]
  /\ UNCHANGED <<session, memory, owned, unwinding, writer, disk, send,
                 registry, retry, held, outbox>>

PrepareWork(size) ==
  /\ preparer # None /\ preparer.step = "working"
  /\ preparer' = [preparer EXCEPT !.step = "produced", !.size = size]
  /\ outputs' = outputs \union {preparer.token}
  /\ UNCHANGED <<session, memory, owned, unwinding, stage, writer, files, send,
                 registry, retry, held, outbox>>

(* abort_staged_image_preparation *)
Aborted(t) ==
  IF At(t, "staged") /\ stage[t].image = "preparing"
  THEN [stage EXCEPT ![t].image = "raw"]
  ELSE stage

(* Mutant of PrepareFails: the output stays.                               *)
PrepareFailsLeaving ==
  /\ preparer # None
  /\ stage' = Aborted(preparer.token)
  /\ preparer' = None
  /\ UNCHANGED <<session, memory, owned, unwinding, writer, disk, send,
                 registry, retry, held, outbox>>

(* The image is refused, or finish_staged_image_preparation refuses it:    *)
(* the output goes and the source may be prepared again.                   *)
PrepareFails ==
  /\ preparer # None
  /\ outputs' = outputs \ {preparer.token}
  /\ stage' = Aborted(preparer.token)
  /\ preparer' = None
  /\ UNCHANGED <<session, memory, owned, unwinding, writer, files, send,
                 registry, retry, held, outbox>>

(* finish_staged_image_preparation: the output takes the place of the      *)
(* source, under the same token and the lease re-booked to its size.  The  *)
(* revision it compares always agrees: preparations are one at a time.     *)
PrepareFinish ==
  /\ preparer # None /\ preparer.step = "produced"
  /\ LET t == preparer.token
         size == preparer.size IN
     /\ At(t, "staged") /\ Fresh(t)
     /\ stage[t].image = "preparing"
     /\ CanRebook(budget, lease[t], size, pressured)
     /\ budget' = Rebooked(budget, lease[t], size)
     /\ lease' = [lease EXCEPT ![t] = RebookedLease(budget, lease[t], size)]
     /\ outputs' = outputs \ {t}
     /\ stage' = [stage EXCEPT ![t].size = size, ![t].written = size,
                               ![t].image = "ready"]
  /\ preparer' = None
  /\ UNCHANGED <<session, memory, unwinding, writer, files, send, registry,
                 retry, held, outbox>>

MarkAsFile(t) ==
  /\ RawImage(t)
  /\ stage' = [stage EXCEPT ![t].image = "ready", ![t].kind = "file"]
  /\ UNCHANGED <<session, memory, owned, unwinding, work, disk, send, registry,
                 retry, held, outbox>>

-----------------------------------------------------------------------------
(* What take_completed_attachment_staging and its retryable sibling ask.   *)
Complete(t) ==
  /\ At(t, "staged") /\ Fresh(t)
  /\ writer[t] = 0
  /\ stage[t].image = "ready"
  /\ stage[t].written = stage[t].size

(* begin_lxmf_client_send: the operations of earlier sessions are dropped. *)
(* A send without a client id has no operation and no flag.                *)
Registered(t, named) ==
  LET stale == {u \in Tokens : op[u] # "none" /\ send[u].fence # generation} IN
  IF named
  THEN /\ op' = [u \in Tokens |-> IF u = t THEN "preparing"
                                  ELSE IF u \in stale THEN "none" ELSE op[u]]
       /\ stopped' = (stopped \ {t}) \union (stale \ {t})
  ELSE stopped' = stopped \ {t} /\ UNCHANGED op

(* Drop of LxmfClientSendGuard *)
Unregistered(t) == op' = [op EXCEPT ![t] = "none"]

(* send_lxmf_with_staged_attachment takes the stage and reads the file ... *)
TakeFile(t) ==
  /\ In(t, "idle") /\ stage[t].kind # "clip" /\ Complete(t)
  /\ stage' = [stage EXCEPT ![t].place = "taken"]
  /\ Goes(t, "reading")
  /\ UNCHANGED <<session, memory, owned, unwinding, work, disk, registry, retry,
                 held, outbox>>

(* ... send_lxmf_with_attachment reserves and decodes.                     *)
BeginInline(t, size) ==
  /\ At(t, "none") /\ "inline" \in Kinds
  /\ Admits(budget, size, pressured)
  /\ budget' = Reserved(budget, LeaseFor(size))
  /\ lease' = [lease EXCEPT ![t] = LeaseFor(size)]
  /\ stage' = [stage EXCEPT ![t].place = "taken", ![t].kind = "inline",
                            ![t].size = size, ![t].written = size]
  /\ Goes(t, "reading")
  /\ UNCHANGED <<session, memory, unwinding, work, disk, registry, retry, held,
                 outbox>>

(* queue_prepared_attachment up to its waits for the contact's identity    *)
(* and the propagation node.                                               *)
QueueFile(t, named) ==
  /\ In(t, "reading") /\ stage[t].kind # "clip"
  /\ Registered(t, named)
  /\ send' = [send EXCEPT ![t] =
                [phase |-> "waiting", named |-> named, fence |-> generation]]
  /\ UNCHANGED <<session, memory, owned, unwinding, stage, work, disk, retry,
                 held, outbox>>

(* The file cannot be read, the send is cancelled, there is no manager, or *)
(* the manager refuses the message.                                        *)
FileFails(t) ==
  /\ stage[t].kind # "clip" /\ (In(t, "reading") \/ In(t, "waiting"))
  /\ Dropped(t)
  /\ Goes(t, "done")
  /\ Unregistered(t)
  /\ UNCHANGED <<session, memory, owned, work, disk, stopped, discarded, held,
                 outbox>>

(* queue_lxmf_client_send: the message enters the router.                  *)
Admitted(t) ==
  /\ t \notin stopped
  /\ manager # 0
  /\ message' = [message EXCEPT ![t] = "live"]
  /\ signer' = [signer EXCEPT ![t] = manager]
  /\ UNCHANGED cancels

(* The manager adopts the staging file by renaming it.                     *)
AdmitFile(t) ==
  /\ In(t, "waiting") /\ stage[t].kind # "clip"
  /\ Admitted(t)
  /\ files' = files \ {t}
  /\ Goes(t, "queued")
  /\ UNCHANGED <<session, memory, owned, unwinding, stage, work, outputs,
                 registry, retry, held>>

(* hold_attachment_delivery_lease, on the way out of the blocking worker.  *)
(* The rest of the stage is dropped: a clip's file was only copied.        *)
Hold(t) ==
  /\ In(t, "queued")
  /\ held' = held \union {t}
  /\ files' = files \ {t}
  /\ stage' = [stage EXCEPT ![t].place = "gone"]
  /\ inflight' = inflight \ {t}
  /\ Goes(t, "held")
  /\ UNCHANGED <<session, memory, owned, unwinding, work, outputs, registry,
                 discarded, outbox>>

(* The guard of the client id is dropped; a voice send leaves the lock.    *)
Finished(t) ==
  /\ Goes(t, "done")
  /\ Unregistered(t)
  /\ lock' = IF lock = t THEN "free" ELSE lock
  /\ UNCHANGED <<generation, manager, stopped>>

(* Mutant of CancelledFirst: only a missing or a stale operation counts.   *)
CancelledFirstUnread(t) == op[t] = "none" \/ send[t].fence # generation

(* publish_canonical: whether cancellation won, or the operation is gone   *)
(* or of an earlier session.                                               *)
CancelledFirst(t) ==
  op[t] = "none" \/ send[t].fence # generation \/ t \in stopped

(* A cancelled operation of this session gets its canonical id all the     *)
(* same, one of an earlier session has its flag set.                       *)
Noted(t) ==
  \/ /\ op[t] # "none" /\ send[t].fence = generation
     /\ op' = [op EXCEPT ![t] = "published"]
     /\ UNCHANGED stopped
  \/ /\ op[t] # "none" /\ send[t].fence # generation
     /\ stopped' = stopped \union {t}
     /\ UNCHANGED op
  \/ op[t] = "none" /\ UNCHANGED registry

(* finalize_lxmf_client_send *)
Publish(t) ==
  /\ In(t, "held")
  /\ \/ ~send[t].named /\ Finished(t)
     \/ /\ send[t].named /\ ~CancelledFirst(t)
        /\ op' = [op EXCEPT ![t] = "published"]
        /\ Goes(t, "published")
        /\ UNCHANGED <<session, stopped>>
     \/ /\ send[t].named /\ CancelledFirst(t)
        /\ Noted(t)
        /\ Goes(t, "revoking")
        /\ UNCHANGED session
  /\ UNCHANGED <<memory, owned, unwinding, stage, work, disk, retry, held,
                 outbox>>

Finish(t) ==
  /\ In(t, "published")
  /\ Finished(t)
  /\ UNCHANGED <<memory, owned, unwinding, stage, work, disk, retry, held,
                 outbox>>

(* cancel_canonical_lxmf_message: the router gives the message up, or only *)
(* its row is marked, which the active identity may or may not own.        *)
Withdrawn(t) ==
  /\ message' = [message EXCEPT ![t] = IF @ = "live" THEN "settled" ELSE @]
  /\ \/ ReleaseHeld(t)
     \/ message[t] # "live" /\ UNCHANGED <<held, unwinding>>
  /\ UNCHANGED signer

Revoke(t) ==
  /\ In(t, "revoking")
  /\ Withdrawn(t)
  /\ Finished(t)
  /\ UNCHANGED <<memory, owned, stage, work, disk, retry, cancels>>

-----------------------------------------------------------------------------
(* send_lxmf_voice_message: the session is captured before anything else.  *)
SendClip(t, named) ==
  /\ In(t, "idle") /\ stage[t].kind = "clip" /\ At(t, "staged")
  /\ Registered(t, named)
  /\ send' = [send EXCEPT ![t] =
                [phase |-> "fenced", named |-> named, fence |-> generation]]
  /\ UNCHANGED <<session, memory, owned, unwinding, stage, work, disk, retry,
                 held, outbox>>

(* take_retryable_attachment_staging: the clip may come back, so that a    *)
(* cancellation must still reach it.                                       *)
TakeClip(t) ==
  /\ In(t, "fenced")
  /\ IF Complete(t)
     THEN /\ stage' = [stage EXCEPT ![t].place = "taken"]
          /\ inflight' = inflight \union {t}
          /\ discarded' = discarded \ {t}
          /\ Goes(t, "reading")
          /\ UNCHANGED registry
     ELSE /\ Goes(t, IF At(t, "staged") THEN "idle" ELSE "done")
          /\ Unregistered(t)
          /\ UNCHANGED <<stage, retry, stopped>>
  /\ UNCHANGED <<session, memory, owned, unwinding, work, disk, held, outbox>>

(* The send ends without the message: the clip is dropped for good when it *)
(* is invalid or the user cancelled the send.                              *)
DropClip(t) ==
  /\ stage[t].kind = "clip"
  /\ In(t, "reading") \/ (t \in stopped /\ (In(t, "waiting") \/ In(t, "admitting")))
  /\ Dropped(t)
  /\ Finished(t)
  /\ UNCHANGED <<memory, owned, work, disk, discarded, held, outbox>>

(* Mutant of ClipFails: a failure after the admission keeps the clip, too. *)
ClipFailsLate(t) ==
  /\ stage[t].kind = "clip"
  /\ In(t, "waiting") \/ In(t, "queued")
  /\ Goes(t, "restoring")
  /\ Unregistered(t)
  /\ lock' = IF lock = t THEN "free" ELSE lock
  /\ UNCHANGED <<generation, manager, memory, owned, unwinding, stage, work,
                 disk, stopped, retry, held, outbox>>

(* Any other failure keeps the clip for Restore.                           *)
ClipFails(t) ==
  /\ stage[t].kind = "clip"
  /\ In(t, "reading") \/ In(t, "waiting") \/ In(t, "admitting")
  /\ Goes(t, "restoring")
  /\ Unregistered(t)
  /\ lock' = IF lock = t THEN "free" ELSE lock
  /\ UNCHANGED <<generation, manager, memory, owned, unwinding, stage, work,
                 disk, stopped, retry, held, outbox>>

(* queue_prepared_audio: the session is compared before the waits ...      *)
QueueClip(t) ==
  /\ In(t, "reading") /\ stage[t].kind = "clip"
  /\ send[t].fence = generation
  /\ Goes(t, "waiting")
  /\ UNCHANGED <<session, memory, owned, unwinding, stage, work, disk, registry,
                 retry, held, outbox>>

(* ... again, with the clip, once the worker holds the lifecycle lock ...  *)
Enters(t) == send[t].fence = generation /\ Current(t)

(* Mutant of LockClip: the worker does not take the lock.                  *)
LockClipUnlocked(t) ==
  /\ In(t, "waiting") /\ stage[t].kind = "clip"
  /\ Enters(t)
  /\ Goes(t, "admitting")
  /\ UNCHANGED <<session, memory, owned, unwinding, stage, work, disk, registry,
                 retry, held, outbox>>

LockClip(t) ==
  /\ In(t, "waiting") /\ stage[t].kind = "clip" /\ lock = "free"
  /\ Enters(t)
  /\ lock' = t
  /\ Goes(t, "admitting")
  /\ UNCHANGED <<generation, manager, memory, owned, unwinding, stage, work,
                 disk, registry, retry, held, outbox>>

(* ... and the clip alone under the manager lock.                          *)
AdmitClip(t) ==
  /\ In(t, "admitting") /\ Current(t)
  /\ Admitted(t)
  /\ Goes(t, "queued")
  /\ UNCHANGED <<session, memory, owned, unwinding, stage, work, disk,
                 registry, retry, held>>

(* Mutant of Restorable: a cancelled clip comes back.                      *)
RestorableIfFresh(t) == send[t].fence = generation /\ Fresh(t) /\ t \in files

(* restore_attachment_staging, under the lifecycle lock of the command.    *)
Restorable(t) == send[t].fence = generation /\ Current(t) /\ t \in files

Restore(t) ==
  /\ In(t, "restoring") /\ lock = "free"
  /\ IF Restorable(t)
     THEN /\ stage' = [stage EXCEPT ![t].place = "staged"]
          /\ inflight' = inflight \ {t}
          /\ Goes(t, "idle")
          /\ UNCHANGED unwinding
     ELSE /\ Dropped(t)
          /\ Goes(t, "done")
  /\ UNCHANGED <<session, memory, owned, work, disk, registry, discarded, held,
                 outbox>>

-----------------------------------------------------------------------------
(* cancel_attachment_staging: the stage, or the clip a send has taken.     *)
CancelStage(t) ==
  /\ \/ At(t, "staged") /\ Dropped(t) /\ UNCHANGED discarded
     \/ /\ t \in inflight
        /\ discarded' = discarded \union {t}
        /\ UNCHANGED <<stage, unwinding, inflight>>
  /\ UNCHANGED <<session, memory, owned, work, disk, send, registry, held,
                 outbox>>

(* cancel_lxmf_client_send; a published operation is cancelled by its      *)
(* canonical id in a step of its own.                                      *)
CancelSend(t) ==
  /\ op[t] # "none"
  /\ stopped' = stopped \union {t}
  /\ IF send[t].fence # generation
     THEN Unregistered(t) /\ UNCHANGED cancels
     ELSE /\ cancels' = IF op[t] = "published" THEN cancels \union {t} ELSE cancels
          /\ UNCHANGED op
  /\ UNCHANGED <<session, memory, owned, unwinding, stage, work, disk, send,
                 retry, held, message, signer>>

(* cancel_lxmf_message by the canonical id: its row is already shown.      *)
CancelMessage(t) ==
  /\ message[t] = "live"
  /\ cancels' = cancels \union {t}
  /\ UNCHANGED <<session, memory, owned, unwinding, stage, work, disk, send,
                 registry, retry, held, message, signer>>

CancelCanonical(t) ==
  /\ t \in cancels
  /\ cancels' = cancels \ {t}
  /\ Withdrawn(t)
  /\ UNCHANGED <<session, memory, owned, stage, work, disk, send, registry,
                 retry>>

(* The router reports a terminal state, or the proof never came: the       *)
(* message leaves the router and its reservation is released.              *)
Settle(t) ==
  /\ message[t] = "live"
  /\ message' = [message EXCEPT ![t] = "settled"]
  /\ ReleaseHeld(t)
  /\ UNCHANGED <<session, memory, owned, stage, work, disk, send, registry,
                 retry, signer, cancels>>

-----------------------------------------------------------------------------
(* The stages are drained, then the flags of the clips in flight are set.  *)
Drained ==
  /\ stage' = [t \in Tokens |-> IF At(t, "staged")
                                THEN [stage[t] EXCEPT !.place = "gone"]
                                ELSE stage[t]]
  /\ inflight' = {}
  /\ discarded' = discarded \union inflight

(* handle_attachment_memory_pressure: the pause, then the drain.           *)
Warn ==
  /\ pressured' = TRUE /\ warning' = TRUE
  /\ UNCHANGED <<session, owned, unwinding, stage, work, disk, send, registry,
                 retry, held, outbox>>

Drain ==
  /\ warning
  /\ warning' = FALSE
  /\ Drained
  /\ unwinding' = unwinding \union Staged
  /\ UNCHANGED <<session, pressured, owned, work, disk, send, registry, held,
                 outbox>>

PauseEnds ==
  /\ pressured
  /\ pressured' = FALSE
  /\ UNCHANGED <<session, warning, owned, unwinding, stage, work, disk, send,
                 registry, retry, held, outbox>>

(* Mutant of Cleared: the counters are reset with the collections.         *)
ClearedCounters ==
  /\ stopped' = stopped \union {t \in Tokens : op[t] # "none"}
  /\ op' = [t \in Tokens |-> "none"]
  /\ Drained
  /\ held' = {}
  /\ unwinding' = unwinding \union Staged \union held
  /\ budget' = EmptyBudget
  /\ pressured' = FALSE

(* clear_identity_scoped_runtime_state: what is removed still unwinds, and *)
(* the counters stay.                                                      *)
Cleared ==
  /\ stopped' = stopped \union {t \in Tokens : op[t] # "none"}
  /\ op' = [t \in Tokens |-> "none"]
  /\ Drained
  /\ held' = {}
  /\ unwinding' = unwinding \union Staged \union held
  /\ UNCHANGED budget
  /\ pressured' = FALSE

(* A switch takes the lifecycle lock and opens a session: the manager is   *)
(* dropped and the runtime state cleared, then a manager comes up, in a    *)
(* session of its own again when the activation failed.                    *)
BeginSwitch ==
  /\ lock = "free" /\ generation < MaxGeneration
  /\ lock' = "switch"
  /\ generation' = generation + 1
  /\ UNCHANGED <<manager, memory, owned, unwinding, stage, work, disk, send,
                 registry, retry, held, outbox>>

StopRuntime ==
  /\ lock = "switch" /\ manager # 0
  /\ manager' = 0
  /\ message' = [t \in Tokens |-> IF message[t] = "live" THEN "lost"
                                  ELSE message[t]]
  /\ Cleared
  /\ UNCHANGED <<generation, lock, warning, lease, work, disk, send, signer,
                 cancels>>

OpenSession(next) ==
  /\ lock = "switch" /\ manager = 0
  /\ next \in Generations
  /\ Cleared
  /\ generation' = next /\ manager' = next
  /\ lock' = "free"
  /\ UNCHANGED <<warning, lease, work, disk, send, outbox>>

-----------------------------------------------------------------------------
Staging(t) ==
  \/ \E kind \in Kinds, size \in Sizes : Begin(t, kind, size)
  \/ Stamp(t) \/ Insert(t)
  \/ \E n \in Sizes : AppendBegin(t, n)
  \/ \E ok \in BOOLEAN : AppendEnd(t, ok)
  \/ PrepareBegin(t) \/ MarkAsFile(t)
  \/ CancelStage(t)
  \/ Unwind(t)

SendingFile(t) ==
  \/ TakeFile(t)
  \/ \E size \in Sizes : BeginInline(t, size)
  \/ \E named \in BOOLEAN : QueueFile(t, named)
  \/ FileFails(t) \/ AdmitFile(t)

SendingClip(t) ==
  \/ \E named \in BOOLEAN : SendClip(t, named)
  \/ TakeClip(t) \/ QueueClip(t) \/ LockClip(t) \/ AdmitClip(t)
  \/ DropClip(t) \/ ClipFails(t) \/ Restore(t)

Delivering(t) ==
  \/ Hold(t) \/ Publish(t) \/ Finish(t) \/ Revoke(t)
  \/ CancelSend(t) \/ CancelMessage(t) \/ CancelCanonical(t)
  \/ Settle(t)

Preparing ==
  \/ \E size \in Sizes : PrepareWork(size)
  \/ PrepareFails \/ PrepareFinish

Runtime ==
  \/ Warn \/ Drain \/ PauseEnds
  \/ BeginSwitch \/ StopRuntime
  \/ \E next \in {generation, generation + 1} : OpenSession(next)

Next ==
  \/ \E t \in Tokens :
       Staging(t) \/ SendingFile(t) \/ SendingClip(t) \/ Delivering(t)
  \/ Preparing
  \/ Runtime

Spec == Init /\ [][Next]_vars

-----------------------------------------------------------------------------
Leased(lane) == {t \in Tokens : lease[t] # None /\ lease[t].lane = lane}

TotalOf(leases, S) == MapThenSumSet(LAMBDA t : leases[t].bytes, S)

(* The small lane counts what its live leases add up to, and stays within  *)
(* its bytes: whatever is re-booked, cancelled, drained by a memory        *)
(* warning or cleared by a switch while its drop is still to come.         *)
SmallLane ==
  /\ budget.small = TotalOf(lease, Leased("small"))
  /\ budget.small <= SmallBudget

(* The large lane is taken as long as one lease holds it, and never by two *)
(* of them.                                                                *)
LargeLane ==
  /\ budget.large = (Leased("large") # {})
  /\ \A t, u \in Leased("large") : t = u

(* Both lanes follow the live leases.                                      *)
LanesKept == SmallLane /\ LargeLane

(* Nothing stays on disk once nobody owns it: a staging file has a stage,  *)
(* or a drop that is about to remove it, and a prepared image outside of   *)
(* its stage has a preparation.                                            *)
NoLeftovers ==
  /\ \A t \in files : At(t, "gone") => t \in unwinding
  /\ \A t \in outputs : preparer # None /\ preparer.token = t

(* A clip is admitted by the manager of the session it was staged in,      *)
(* however a switch falls between the waits of its send.                   *)
ClipsOfTheirSession ==
  \A t \in Tokens :
    stage[t].kind = "clip" /\ message[t] # "none" => signer[t] = stage[t].gen

(* A stage whose message was admitted is never offered for sending again.  *)
SentOnce == \A t \in Tokens : message[t] # "none" => ~At(t, "staged")

(* A clip that was cancelled, drained or cleared while its send had it is  *)
(* neither sent nor offered again.                                         *)
DiscardedForGood ==
  [][\A t \in discarded :
       /\ ~At(t, "staged") => stage'[t].place # "staged"
       /\ message[t] = "none" => message'[t] = "none"]_vars

(* Once the send command has returned, a message whose client id was       *)
(* cancelled is not on its way, unless the cancellation is still at work.  *)
CancellationHeeded ==
  \A t \in Tokens :
    In(t, "done") /\ t \in stopped \ cancels /\ signer[t] = generation
      => message[t] # "live"

(* A lease is held for a message until its terminal release, so that a     *)
(* message that is done holds none.                                        *)
LeasesReleased ==
  \A t \in held : In(t, "done") => message[t] = "live"
===============================================================================
