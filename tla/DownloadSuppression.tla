------------------------- MODULE DownloadSuppression -------------------------
(***************************************************************************)
(* What the client remembers about a propagation node between downloads:   *)
(* the ciphertexts it will not ask for again (the suppression ledger) and  *)
(* those it already holds (the haves).  Both live in the database, in the  *)
(* installed download state of the message manager and in the download     *)
(* client; DownloadCoordinator.synchronize carries them between the three  *)
(* (crates/ratspeak-runtime/src/inbound_admission.rs and lxmf.rs), while   *)
(* the user selects nodes, deletes messages, changes the policy or asks    *)
(* for deferred downloads to be retried.                                   *)
(*                                                                         *)
(* The worker of a synchronization is one step: it holds the admission     *)
(* permit from begin to end, and whoever else writes these tables needs    *)
(* the permit and gives up when it is taken.                               *)
(***************************************************************************)
EXTENDS Naturals

CONSTANTS
  Nodes,      \* propagation nodes
  Tids,       \* ciphertexts a node offers
  None,       \* no node, no client, no state
  MaxRounds,  \* bound on the retries the user asks for, per node
  MaxPolicy   \* bound on the changes of the admission policy

ASSUME SuppressionAssumption ==
  /\ None \notin Nodes
  /\ MaxRounds \in Nat /\ MaxPolicy \in Nat

VARIABLES
  node,      \* configured_propagation_node
  client,    \* the download client, or None
  state,     \* the installed download state, or None
  rows,      \* lxmf_download_suppression
  receipts,  \* lxmf_inbound_receipts, per node
  policy,    \* the admission epochs the database and the settings give
  noted,     \* node and epochs the coordinator installed last, or None
  failed,    \* storage_failed: the last synchronization failed
  sync,      \* the synchronization under way
  lock,      \* holder of the lifecycle lock, with the node it works for
  round      \* history: retries that cleared the records, per node

durable == <<rows, receipts, policy>>
coordv  == <<noted, failed, sync>>
vars == <<node, client, state, rows, receipts, policy, noted, failed, sync,
          lock, round>>

(* A record remembers the round and the policy in which its download failed. *)
Records == [node : Nodes, tid : Tids, round : 0..MaxRounds, epoch : 0..MaxPolicy]
Haves   == Nodes \X Tids

Clients == [node : Nodes, ledger : SUBSET Records, epoch : 0..MaxPolicy,
            pending : BOOLEAN, haves : SUBSET Haves]
States  == [node : Nodes, ledger : SUBSET Records, epoch : 0..MaxPolicy,
            haves : SUBSET Haves]

ASSUME StateAssumption == None \notin States

Idle    == [step |-> "idle"]
Syncs   ==
  [step : {"captured", "failed"}, node : Nodes, initial : BOOLEAN,
   snapshot : (SUBSET Records) \union {None}, current : BOOLEAN, changed : BOOLEAN]
  \union
  [step : {"worked"}, node : Nodes, initial : BOOLEAN,
   snapshot : (SUBSET Records) \union {None}, current : BOOLEAN, changed : BOOLEAN,
   ledger : SUBSET Records, haves : SUBSET Haves, epoch : 0..MaxPolicy]

TypeOK ==
  /\ node \in Nodes \union {None}
  /\ client \in Clients \union {None}
  /\ state \in States \union {None}
  /\ rows \subseteq Records /\ receipts \subseteq Haves /\ policy \in 0..MaxPolicy
  /\ noted \in [node : Nodes, epoch : 0..MaxPolicy] \union {None}
  /\ failed \in BOOLEAN
  /\ sync \in Syncs \union {Idle}
  /\ lock \in [by : {"retry", "delete"}, node : Nodes \union {None}] \union {None}
  /\ round \in [Nodes -> 0..MaxRounds]

Init ==
  /\ node = None /\ client = None /\ state = None
  /\ rows = {} /\ receipts = {} /\ policy = 0
  /\ noted = None /\ failed = FALSE /\ sync = Idle
  /\ lock = None
  /\ round = [n \in Nodes |-> 0]

-----------------------------------------------------------------------------
SameScope(r, s) == r.node = s.node /\ r.tid = s.tid
Upsert(S, R)    == {s \in S : \A r \in R : ~SameScope(r, s)} \union R
Of(S, n)        == {r \in S : r.node = n}
Installed       == state # None /\ state.node = node

(* SuppressionLedger.prune, and its mutant: records of other epochs stay.  *)
PrunedNothing(S, e) == S
Pruned(S, e)        == {r \in S : r.epoch = e}

(* The download revision moves, or the client changes under a captured     *)
(* snapshot.                                                               *)
Bump   == sync' = IF sync = Idle THEN Idle ELSE [sync EXCEPT !.current = FALSE]
Change == sync' = IF sync = Idle THEN Idle ELSE [sync EXCEPT !.changed = TRUE]

(* invalidate_download_state. *)
Invalidate ==
  /\ client' = IF client = None THEN None
               ELSE [client EXCEPT !.haves = {}, !.pending = TRUE]
  /\ state' = None
  /\ Bump

-----------------------------------------------------------------------------
(* The message manager.                                                    *)

(* Mutant of Activated: the state of another node is taken over.           *)
ActivatedWithAnyState(n) ==
  IF state # None
  THEN [node |-> n, ledger |-> state.ledger, epoch |-> state.epoch,
        pending |-> FALSE, haves |-> state.haves]
  ELSE [node |-> n, ledger |-> {}, epoch |-> 0, pending |-> TRUE, haves |-> {}]

(* A new client starts from the installed state of its node, or paused.    *)
Activated(n) ==
  IF state # None /\ state.node = n
  THEN [node |-> n, ledger |-> state.ledger, epoch |-> state.epoch,
        pending |-> FALSE, haves |-> state.haves]
  ELSE [node |-> n, ledger |-> {}, epoch |-> 0, pending |-> TRUE, haves |-> {}]

SelectNode(n) ==
  /\ node' = n
  /\ \/ client' = Activated(n)
     \/ client = None /\ client' = None   \* propagation is not enabled
  /\ Change
  /\ UNCHANGED <<state, durable, noted, failed, lock, round>>

Deselect ==
  /\ node # None
  /\ node' \in {None, node} /\ client' = None   \* no node, or propagation off
  /\ Change
  /\ UNCHANGED <<state, durable, noted, failed, lock, round>>

(* The client gives up on a ciphertext: undecryptable, malformed, deferred. *)
GiveUp(t) ==
  /\ client # None /\ Installed /\ client.node = node
  /\ LET r == [node |-> node, tid |-> t, round |-> round[node], epoch |-> client.epoch]
     IN  client' = [client EXCEPT !.ledger = Upsert(@, {r}), !.pending = TRUE]
  /\ Change
  /\ UNCHANGED <<node, state, durable, noted, failed, lock, round>>

(* A download is committed and published (DurableAdmission has the steps). *)
Admit(t) ==
  /\ lock = None
  /\ client # None /\ Installed /\ client.node = node
  /\ receipts' = receipts \union {<<node, t>>}
  /\ state'  = [state EXCEPT !.haves = @ \union {<<node, t>>}]
  /\ client' = [client EXCEPT !.haves = @ \union {<<node, t>>}]
  /\ UNCHANGED <<node, rows, policy, coordv, lock, round>>

-----------------------------------------------------------------------------
(* DownloadCoordinator.synchronize.                                        *)

(* Mutant of Initial: only the coordinator's own memory is asked.          *)
InitialByMemory == noted = None \/ noted.node # node
Initial == ~Installed \/ noted = None \/ noted.node # node

Capture ==
  /\ sync = Idle /\ node # None
  /\ sync' = [step |-> "captured", node |-> node, initial |-> Initial,
              snapshot |-> IF ~Initial /\ client # None /\ client.pending
                           THEN client.ledger ELSE None,
              current |-> TRUE, changed |-> FALSE]
  /\ UNCHANGED <<node, client, state, durable, noted, failed, lock, round>>

(* With no node selected the coordinator forgets what it installed.        *)
Forget ==
  /\ sync = Idle /\ node = None /\ noted # None
  /\ noted' = None
  /\ UNCHANGED <<node, client, state, durable, failed, sync, lock, round>>

(* persist_suppression: rows of the node the snapshot lacks go, the others *)
(* are written.                                                            *)
Dropped(snapshot) ==
  {r \in Of(rows, sync.node) : \A s \in snapshot : ~SameScope(r, s)}
Persisted ==
  IF sync.snapshot = None THEN rows
  ELSE Upsert(rows \ Dropped(sync.snapshot), Of(sync.snapshot, sync.node))

(* After a failure the recovered storage is an epoch of its own.           *)
Recovered == IF failed /\ policy < MaxPolicy THEN policy + 1 ELSE policy

Work ==
  /\ sync.step = "captured"
  /\ policy' = Recovered /\ rows' = Persisted
  /\ sync' = [step |-> "worked", node |-> sync.node, initial |-> sync.initial,
              snapshot |-> sync.snapshot, current |-> sync.current,
              changed |-> sync.changed,
              ledger |-> IF sync.initial THEN Pruned(rows', policy') ELSE {},
              haves  |-> IF sync.initial
                         THEN {h \in receipts : h[1] = sync.node} ELSE {},
              epoch |-> policy']
  /\ UNCHANGED <<node, client, state, receipts, noted, failed, lock, round>>

(* Busy, a full ledger or a storage error, before or between the removal   *)
(* and the writing (one batch each: there are fewer than 256 records).     *)
WorkFails ==
  /\ sync.step = "captured"
  /\ policy' \in {policy, Recovered}
  /\ rows' \in {rows, Persisted,
                IF sync.snapshot = None THEN rows ELSE rows \ Dropped(sync.snapshot)}
  /\ sync' = [sync EXCEPT !.step = "failed"]
  /\ UNCHANGED <<node, client, state, receipts, noted, failed, lock, round>>

Fenced == sync.current /\ node = sync.node

(* install_download_state. *)
InstallInitial ==
  /\ state' = [node |-> node, ledger |-> sync.ledger, epoch |-> sync.epoch,
               haves |-> sync.haves]
  /\ client' = IF client = None THEN None
               ELSE [client EXCEPT !.ledger = sync.ledger, !.epoch = sync.epoch,
                                   !.pending = FALSE, !.haves = sync.haves]

(* Mutant of Acknowledged: failures noted since the snapshot are ignored.  *)
AcknowledgedAnyway == sync.snapshot # None

(* acknowledge_download_suppression, and then update_download_epochs.      *)
Acknowledged == sync.snapshot # None /\ (client = None \/ ~sync.changed)

Refresh ==
  LET moved  == noted # None /\ noted.epoch # sync.epoch
      ledger == IF Acknowledged THEN sync.snapshot ELSE state.ledger
      Epoch(S) == IF moved THEN Pruned(S, sync.epoch) ELSE S
  IN  /\ state' = IF state = None THEN None
                  ELSE [state EXCEPT !.ledger = Epoch(ledger),
                                     !.epoch = IF moved THEN sync.epoch ELSE @]
      /\ client' = IF client = None THEN None
                   ELSE [client EXCEPT
                           !.ledger = Epoch(@),
                           !.epoch = IF moved /\ state # None THEN sync.epoch ELSE @,
                           !.pending = @ /\ ~Acknowledged]

Install ==
  /\ sync.step = "worked" /\ lock = None
  /\ IF Fenced
     THEN /\ IF sync.initial THEN InstallInitial ELSE Refresh
          /\ noted' = [node |-> node, epoch |-> sync.epoch]
          /\ failed' = FALSE
     ELSE UNCHANGED <<client, state, noted, failed>>
  /\ sync' = Idle
  /\ UNCHANGED <<node, durable, lock, round>>

(* pause_download_admission. *)
Pause ==
  /\ sync.step = "failed" /\ lock = None
  /\ IF Fenced
     THEN /\ failed' = TRUE
          /\ client' = IF client = None THEN None ELSE [client EXCEPT !.pending = TRUE]
     ELSE UNCHANGED <<failed, client>>
  /\ sync' = Idle
  /\ UNCHANGED <<node, state, durable, noted, lock, round>>

-----------------------------------------------------------------------------
(* retry_deferred_downloads: under the lifecycle lock the download state   *)
(* is revoked, then the node's records are cleared.                        *)
BeginRetry ==
  /\ lock = None /\ node # None
  /\ round[node] < MaxRounds
  /\ lock' = [by |-> "retry", node |-> node]
  /\ Invalidate
  /\ UNCHANGED <<node, durable, noted, failed, round>>

Cleared(n) ==
  /\ rows' = rows \ Of(rows, n)
  /\ round' = [round EXCEPT ![n] = @ + 1]

ClearSuppression ==
  /\ lock # None /\ lock.by = "retry"
  /\ Cleared(lock.node)
  /\ lock' = None
  /\ UNCHANGED <<node, client, state, receipts, policy, coordv>>

(* Busy, or a storage error with the batch committed or not.               *)
RetryFails ==
  /\ lock # None /\ lock.by = "retry"
  /\ Cleared(lock.node) \/ UNCHANGED <<rows, round>>
  /\ lock' = None
  /\ UNCHANGED <<node, client, state, receipts, policy, coordv>>

(* begin_download_deletion, the worker, and the guard's drop.              *)
BeginDeletion ==
  /\ lock = None
  /\ lock' = [by |-> "delete", node |-> None]
  /\ Invalidate
  /\ UNCHANGED <<node, durable, noted, failed, round>>

(* Mutant of EndDeletion: the guard's drop revokes nothing.                *)
EndDeletionUnrevoked ==
  /\ lock # None /\ lock.by = "delete"
  /\ receipts' \in SUBSET receipts
  /\ lock' = None
  /\ UNCHANGED <<node, client, state, rows, policy, coordv, round>>

EndDeletion ==
  /\ lock # None /\ lock.by = "delete"
  /\ receipts' \in SUBSET receipts
  /\ lock' = None
  /\ Invalidate
  /\ UNCHANGED <<node, rows, policy, noted, failed, round>>

-----------------------------------------------------------------------------
(* A contact is blocked, a stamp cost or a key changes.                    *)
ChangePolicy ==
  /\ policy < MaxPolicy
  /\ policy' = policy + 1
  /\ UNCHANGED <<node, client, state, rows, receipts, coordv, lock, round>>

(* The process ends and starts again with the stored node.                 *)
Restart ==
  /\ node' \in {None, node}
  /\ state' = None
  /\ client' = IF node' = None THEN None
               ELSE [node |-> node', ledger |-> {}, epoch |-> 0,
                     pending |-> TRUE, haves |-> {}]
  /\ noted' = None /\ failed' = FALSE /\ sync' = Idle /\ lock' = None
  /\ UNCHANGED <<durable, round>>

Next ==
  \/ \E n \in Nodes : SelectNode(n)
  \/ Deselect
  \/ \E t \in Tids : GiveUp(t) \/ Admit(t)
  \/ Capture \/ Forget \/ Work \/ WorkFails \/ Install \/ Pause
  \/ BeginRetry \/ ClearSuppression \/ RetryFails
  \/ BeginDeletion \/ EndDeletion
  \/ ChangePolicy \/ Restart
Spec == Init /\ [][Next]_vars

(* Each tick of the client loop synchronizes, workers return, and whoever  *)
(* holds the lifecycle lock lets it go.                                    *)
Fairness ==
  /\ WF_vars(Capture) /\ WF_vars(Work) /\ WF_vars(Install) /\ WF_vars(Pause)
  /\ WF_vars(ClearSuppression \/ RetryFails) /\ WF_vars(EndDeletion)
(* The steps of the machinery itself: no commands, traffic or faults.       *)
Undisturbed ==
  Capture \/ Forget \/ Work \/ Install \/ Pause \/ ClearSuppression \/ EndDeletion

FairSpec == Spec /\ Fairness

-----------------------------------------------------------------------------
(* Properties.                                                             *)

(* What the client tells a node it holds, it holds from that node, and the *)
(* receipt is still there: no selection, deletion or late synchronization  *)
(* brings haves of another node or of deleted receipts to the client.      *)
HavesOfThisNode ==
  client # None => client.haves \subseteq {h \in receipts : h[1] = client.node}

(* A client that selects downloads again has every suppression of its node *)
(* since the last retry on disk: none noted while the snapshot was written *)
(* is taken for written, whatever retries and selections fall in between.  *)
SuppressionPersisted ==
  client # None /\ ~client.pending =>
    {r \in Of(client.ledger, client.node) : r.round = round[client.node]} \subseteq rows

(* A client that selects downloads again judges by the policy that was in  *)
(* force when its state was installed, not by failures under an older one. *)
NoStaleFailures ==
  client # None /\ ~client.pending =>
    \A r \in client.ledger : r.epoch = client.epoch

(* Once nothing disturbs it, a paused client resumes, under the policy of  *)
(* the database.                                                           *)
Resumes ==
  <>[][Undisturbed]_vars =>
    <>[](client # None => ~client.pending /\ client.epoch = policy)

=============================================================================
