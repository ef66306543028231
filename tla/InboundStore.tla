---------------------------- MODULE InboundStore ----------------------------
(***************************************************************************)
(* The admission tables of the client database and the transactions on     *)
(* them (crates/ratspeak-db/src/admission.rs).  A database is a record; a  *)
(* transaction is an operator from a database to a database, so that the   *)
(* modules above decide when it commits, when it is lost and when its      *)
(* outcome is uncertain.  One local identity.                              *)
(***************************************************************************)
EXTENDS Naturals, FiniteSets

CONSTANTS
  Tids,          \* transient ids: the ciphertexts a propagation node offers
  Msgs,          \* message ids of the decrypted messages
  Wires,         \* hashes of the decrypted wire images
  Media,         \* content hashes that name media files
  Chat,          \* the messages that are chat rows; the others have no row
  MsgOf,         \* the message a ciphertext decrypts to
  WireOf,        \* the wire image a ciphertext decrypts to
  MediaOf,       \* the media of a message, named by content
  MaxDiscards    \* cap on discard receipts (MAX_POLICY_PER_IDENTITY)

ASSUME InboundAssumption ==
  /\ Chat \subseteq Msgs
  /\ MsgOf \in [Tids -> Msgs]
  /\ WireOf \in [Tids -> Wires]
  /\ MediaOf \in [Msgs -> SUBSET Media]
  /\ \A m \in Msgs \ Chat : MediaOf[m] = {}
  /\ MaxDiscards \in Nat

-----------------------------------------------------------------------------
(* Files: an archive per message and wire image, a content-addressed media *)
(* file per hash, and the file a direct delivery writes under a fresh name *)
(* of its own.                                                             *)
Archives   == {"archive"} \X Msgs \X Wires
MediaFiles == {"media"} \X Media
OwnFiles   == {"own"} \X Msgs
Artifacts  == Archives \union MediaFiles \union OwnFiles

ArchiveOf(t)   == <<"archive", MsgOf[t], WireOf[t]>>
ManifestOf(m)  == {"media"} \X MediaOf[m]
StagedFiles(t) == {ArchiveOf(t)} \union ManifestOf(MsgOf[t])

-----------------------------------------------------------------------------
Discards     == {"policy_discard", "user_deleted"}
Dispositions == {"committed", "duplicate"} \union Discards
Projections  == {"absent", "hashed", "own"}   \* a chat row and its media names

Databases ==
  [effects  : SUBSET Archives,                     \* lxmf_inbound_effects
   rows     : [Msgs -> Projections],               \* messages
   deleted  : SUBSET Msgs,                         \* lxmf_user_deleted
   receipts : [Tids -> Dispositions \union {"none"}], \* lxmf_inbound_receipts
   journal  : SUBSET Artifacts,                    \* lxmf_deleted_artifacts
   refused  : SUBSET Tids]      \* history: last admitted as a policy discard

EmptyDatabase ==
  [effects  |-> {},
   rows     |-> [m \in Msgs |-> "absent"],
   deleted  |-> {},
   receipts |-> [t \in Tids |-> "none"],
   journal  |-> {},
   refused  |-> {}]

EffectsOf(d, m)   == {a \in d.effects : a[2] = m}
HasEffect(d, m)   == EffectsOf(d, m) # {}
DiscardedTids(d)  == {t \in Tids : d.receipts[t] \in Discards}

(* The media files a chat row names. *)
NamedBy(d, m) ==
  CASE d.rows[m] = "hashed" -> ManifestOf(m)
    [] d.rows[m] = "own"    -> IF MediaOf[m] = {} THEN {} ELSE {<<"own", m>>}
    [] OTHER                -> {}

(* Mutant of References: a row's media are not looked up.                  *)
ReferencesEffectsOnly(d, f) == f \in d.effects

(* references_archive and references_media: the only references cleanup    *)
(* asks about.                                                             *)
References(d, f) == f \in d.effects \/ \E m \in Msgs : f \in NamedBy(d, m)

(* verify_retained of commit: the existing effect is only a duplicate when *)
(* its archive and its manifest are on disk and its row is still there.    *)
Retained(d, m, files) ==
  /\ \A a \in EffectsOf(d, m) : {a} \union ManifestOf(m) \subseteq files
  /\ m \in Chat => d.rows[m] # "absent"

-----------------------------------------------------------------------------
(* commit: receipts whose 90 days are over are purged first; which of the  *)
(* discard receipts those are is the caller's choice.                      *)
Purged(d, expired) ==
  [d EXCEPT !.receipts =
     [t \in Tids |-> IF t \in expired THEN "none" ELSE @[t]]]

(* Mutant of Outcomes: without the tombstone lookup.                       *)
OutcomesForgetDeletion(d, t, files) ==
  IF HasEffect(d, MsgOf[t]) THEN {"duplicate"} ELSE {"committed", "policy_discard"}

(* The dispositions commit can reach for t.  None: it fails and rolls back *)
(* (MissingEffect or LedgerFull).  Whether the sender is blocked is free.  *)
Outcomes(d, t, files) ==
  LET m == MsgOf[t]
      reached ==
        IF m \in d.deleted THEN {"user_deleted"}
        ELSE IF HasEffect(d, m)
             THEN IF Retained(d, m, files) THEN {"duplicate"} ELSE {}
             ELSE {"committed", "policy_discard"}
      full == /\ d.receipts[t] = "none"
              /\ Cardinality(DiscardedTids(d)) >= MaxDiscards
  IN  IF full THEN reached \ Discards ELSE reached

Admitted(d, t, disposition) ==
  LET m   == MsgOf[t]
      new == disposition = "committed"
  IN  [d EXCEPT
        !.effects  = IF new THEN @ \union {ArchiveOf(t)} ELSE @,
        !.rows[m]  = IF new /\ m \in Chat /\ @ = "absent" THEN "hashed" ELSE @,
        !.receipts[t] = disposition,
        !.refused  = IF disposition = "policy_discard" THEN @ \union {t} ELSE @ \ {t}]

(* Mutant of Deleted: the receipts stay.                                   *)
DeletedKeepsReceipts(d, selected) ==
  [d EXCEPT
    !.effects = {a \in @ : a[2] \notin selected},
    !.rows    = [m \in Msgs |-> IF m \in selected THEN "absent" ELSE @[m]],
    !.deleted = @ \union selected,
    !.journal = @ \union UNION {EffectsOf(d, m) \union NamedBy(d, m) : m \in selected}]

(* delete_scoped over the selected rows: tombstone, drop receipts, effects *)
(* and rows, and journal every file they named.                            *)
Deleted(d, selected) ==
  LET dropped == UNION {EffectsOf(d, m) : m \in selected}
      named   == UNION {NamedBy(d, m) : m \in selected}
  IN  [effects  |-> d.effects \ dropped,
       rows     |-> [m \in Msgs |-> IF m \in selected THEN "absent" ELSE d.rows[m]],
       deleted  |-> d.deleted \union selected,
       receipts |-> [t \in Tids |->
                       IF MsgOf[t] \in selected THEN "none" ELSE d.receipts[t]],
       journal  |-> d.journal \union dropped \union named,
       refused  |-> d.refused]

(* complete_deleted_artifacts. *)
Completed(d, done) == [d EXCEPT !.journal = @ \ done]

(* try_save_message_with_audio for a direct delivery: an existing row only *)
(* has its state column updated.                                           *)
SavedDirectly(d, m) ==
  [d EXCEPT !.rows[m] = IF @ = "absent" THEN "own" ELSE @]

(* receipts: what may be offered to the node as already held.  Discards    *)
(* drop out when they expire; the others must verify against the files.    *)
Recoverable(d, files, expired) ==
  {t \in Tids :
     \/ d.receipts[t] \in Discards /\ t \notin expired
     \/ /\ d.receipts[t] \in {"committed", "duplicate"}
        /\ HasEffect(d, MsgOf[t])
        /\ Retained(d, MsgOf[t], files)}
=============================================================================
