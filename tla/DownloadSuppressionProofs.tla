---------------------- MODULE DownloadSuppressionProofs ----------------------
(***************************************************************************)
(* What DownloadSuppression promises for every set of nodes and            *)
(* ciphertexts and every bound.  The invariant Inv says why: a state that  *)
(* is installed has its suppressions of this round on disk, a snapshot     *)
(* under way covers them as long as the state it was captured from is      *)
(* installed, and a revision that moved has taken the state away.          *)
(***************************************************************************)
EXTENDS DownloadSuppression, TLAPS

Present(S, n) == {r \in Of(S, n) : r.round = round[n]}
OfEpoch(S, e) == \A r \in S : r.epoch = e
Elapsed(S)    == \A r \in S : r.round =< round[r.node]
HeldFrom(n)   == {h \in receipts : h[1] = n}

Under == sync # Idle
Taken == Under /\ sync.snapshot # None

HavesInv ==
  /\ HavesOfThisNode
  /\ state # None => state.haves \subseteq HeldFrom(state.node)
  /\ sync.step = "worked" /\ sync.initial /\ sync.current =>
       sync.haves \subseteq HeldFrom(sync.node)

ElapsedInv ==
  /\ Elapsed(rows)
  /\ client # None => Elapsed(client.ledger)
  /\ state # None => Elapsed(state.ledger)
  /\ Taken => Elapsed(sync.snapshot)
  /\ sync.step = "worked" => Elapsed(sync.ledger)

StateInv ==
  state # None => /\ lock = None
                  /\ OfEpoch(state.ledger, state.epoch)
                  /\ Present(state.ledger, state.node) \subseteq rows

ClientInv ==
  client # None =>
    /\ client.node = node
    /\ ~client.pending => Installed /\ Present(client.ledger, node) \subseteq rows
    /\ Installed => /\ client.epoch = state.epoch
                    /\ OfEpoch(client.ledger, state.epoch)
                    /\ Present(state.ledger, node) \subseteq client.ledger

SyncInv ==
  /\ Under => (sync.current \/ state = None)
  /\ Under /\ sync.current /\ ~sync.initial => state # None /\ state.node = sync.node
  /\ Taken => /\ ~sync.initial
              /\ ~sync.changed /\ client # None => client.ledger = sync.snapshot
  /\ Taken /\ sync.current =>
       /\ OfEpoch(sync.snapshot, state.epoch)
       /\ Present(state.ledger, sync.node) \subseteq sync.snapshot
       /\ sync.step = "worked" => Of(sync.snapshot, sync.node) \subseteq rows
       /\ client # None /\ ~client.pending /\ client.node = sync.node =>
            Present(client.ledger, sync.node) \subseteq sync.snapshot
  /\ sync.step = "worked" /\ sync.initial =>
       /\ OfEpoch(sync.ledger, sync.epoch)
       /\ Present(sync.ledger, sync.node) \subseteq rows

Inv == TypeOK /\ HavesInv /\ ElapsedInv /\ StateInv /\ ClientInv /\ SyncInv

-----------------------------------------------------------------------------
(* Types.                                                                  *)

LEMMA UpsertType ==
  ASSUME NEW S \in SUBSET Records, NEW R \in SUBSET Records
  PROVE  Upsert(S, R) \in SUBSET Records
BY DEF Upsert

LEMMA PersistedType ==
  ASSUME TypeOK, sync.step = "captured"
  PROVE  /\ sync.snapshot \in (SUBSET Records) \union {None}
         /\ Persisted \in SUBSET Records
<1>1. sync.snapshot \in (SUBSET Records) \union {None}
  BY DEF TypeOK, Syncs, Idle
<1>2. Persisted = rows
      \/ /\ sync.snapshot \in SUBSET Records
         /\ Persisted = Upsert(rows \ Dropped(sync.snapshot), Of(sync.snapshot, sync.node))
  BY <1>1 DEF Persisted
<1>3. sync.snapshot \in SUBSET Records => Of(sync.snapshot, sync.node) \in SUBSET Records
  BY DEF Of
<1>4. rows \in SUBSET Records /\ rows \ Dropped(sync.snapshot) \in SUBSET Records
  BY DEF TypeOK
<1> QED BY <1>1, <1>2, <1>3, <1>4, UpsertType

(* What writing a snapshot down keeps, and what it brings.                 *)
LEMMA PersistedRows ==
  ASSUME sync.snapshot # None,
         NEW after, after \in {rows, Persisted, rows \ Dropped(sync.snapshot)}
  PROVE  /\ after \subseteq rows \union sync.snapshot
         /\ \A r \in rows : r.node # sync.node \/ r \in sync.snapshot => r \in after
         /\ after = Persisted => Of(sync.snapshot, sync.node) \subseteq after
<1> DEFINE kept == rows \ Dropped(sync.snapshot)
<1>1. Persisted = Upsert(kept, Of(sync.snapshot, sync.node))
  BY DEF Persisted
<1>2. \A r \in rows : r.node # sync.node \/ r \in sync.snapshot => r \in kept
  BY DEF Dropped, Of, SameScope
<1>3. \A r \in kept : r.node # sync.node \/ r \in sync.snapshot => r \in Persisted
  BY <1>1 DEF Upsert, Of, SameScope
<1>4. Of(sync.snapshot, sync.node) \subseteq Persisted
  BY <1>1 DEF Upsert
<1>5. Persisted \subseteq rows \union sync.snapshot
  BY <1>1 DEF Upsert, Of
<1> QED BY <1>2, <1>3, <1>4, <1>5

LEMMA InvalidateType ==
  ASSUME TypeOK, Invalidate
  PROVE  client' \in Clients \union {None} /\ state' = None /\ sync' \in Syncs \union {Idle}
<1>1. client' \in Clients \union {None}
  BY DEF TypeOK, Invalidate, Clients
<1>2. sync' \in Syncs \union {Idle}
  BY DEF TypeOK, Invalidate, Bump, Syncs, Idle
<1> QED BY <1>1, <1>2 DEF Invalidate

LEMMA ChangeType ==
  ASSUME TypeOK, Change
  PROVE  sync' \in Syncs \union {Idle}
BY DEF TypeOK, Change, Syncs, Idle

LEMMA ActivatedType ==
  ASSUME TypeOK, NEW n \in Nodes
  PROVE  Activated(n) \in Clients
BY SuppressionAssumption DEF TypeOK, Activated, Clients, States

(* A retry under way is one the bound allows.                              *)
Counted ==
  lock # None /\ lock.by = "retry" => lock.node \in Nodes /\ round[lock.node] < MaxRounds

LEMMA RetryCounted ==
  ASSUME TypeOK, Counted, [Next]_vars
  PROVE  Counted'
<1>1. CASE BeginRetry
  BY <1>1 DEF BeginRetry, TypeOK, Counted
<1>2. CASE BeginDeletion
  BY <1>2 DEF BeginDeletion, Counted
<1>3. CASE lock' = None
  BY <1>3 DEF Counted
<1>4. CASE UNCHANGED <<lock, round>>
  BY <1>4 DEF Counted
<1>5. UNCHANGED <<lock, round>> \/ lock' = None \/ BeginRetry \/ BeginDeletion
  BY DEF Next, SelectNode, Deselect, GiveUp, Admit, Capture, Forget, Work, WorkFails,
     Install, Pause, ClearSuppression, RetryFails, EndDeletion, ChangePolicy, Restart, vars
<1> QED BY <1>1, <1>2, <1>3, <1>4, <1>5

LEMMA ClearedType ==
  ASSUME TypeOK, Counted, lock # None, lock.by = "retry", Cleared(lock.node)
  PROVE  rows' \in SUBSET Records /\ round' \in [Nodes -> 0..MaxRounds]
<1>1. lock.node \in Nodes /\ round[lock.node] \in Nat /\ round[lock.node] < MaxRounds
  BY DEF TypeOK, Counted
<1>2. round[lock.node] + 1 \in 0..MaxRounds
  BY <1>1, SuppressionAssumption
<1>3. round' \in [Nodes -> 0..MaxRounds]
  BY <1>1, <1>2 DEF Cleared, TypeOK
<1> QED BY <1>3 DEF Cleared, TypeOK, Of

LEMMA TypesKept ==
  ASSUME TypeOK, Counted, [Next]_vars
  PROVE  TypeOK'
<1> USE SuppressionAssumption DEF durable, coordv
<1>1. ASSUME NEW n \in Nodes, SelectNode(n) PROVE TypeOK'
  BY <1>1, ActivatedType, ChangeType DEF TypeOK, SelectNode
<1>2. CASE Deselect
  BY <1>2, ChangeType DEF TypeOK, Deselect
<1>3. ASSUME NEW t \in Tids, GiveUp(t) PROVE TypeOK'
  <2> DEFINE r == [node |-> node, tid |-> t, round |-> round[node], epoch |-> client.epoch]
  <2>1. r \in Records /\ client \in Clients
    BY <1>3 DEF GiveUp, Installed, TypeOK, Records, Clients, States
  <2>2. Upsert(client.ledger, {r}) \in SUBSET Records
    BY <2>1, UpsertType DEF Clients
  <2>3. client' \in Clients
    BY <1>3, <2>1, <2>2 DEF GiveUp, Clients
  <2> QED BY <1>3, <2>3, ChangeType DEF GiveUp, TypeOK
<1>4. ASSUME NEW t \in Tids, Admit(t) PROVE TypeOK'
  <2>1. node \in Nodes /\ client \in Clients /\ state \in States
    BY <1>4 DEF Admit, Installed, TypeOK, Clients, States
  <2>2. <<node, t>> \in Haves
    BY <2>1 DEF Haves
  <2>3. client' \in Clients
    BY <1>4, <2>1, <2>2 DEF Admit, Clients
  <2>4. state' \in States
    BY <1>4, <2>1, <2>2 DEF Admit, States
  <2> QED BY <1>4, <2>2, <2>3, <2>4 DEF Admit, TypeOK
<1>5. CASE Capture
  <2>1. Initial \in BOOLEAN
    BY DEF Initial
  <2>2. (IF ~Initial /\ client # None /\ client.pending THEN client.ledger ELSE None)
          \in (SUBSET Records) \union {None}
    <3>1. client # None => client.ledger \in SUBSET Records
      BY DEF TypeOK, Clients
    <3> QED BY <3>1
  <2>3. sync' \in Syncs
    BY <1>5, <2>1, <2>2 DEF Capture, TypeOK, Syncs
  <2> QED BY <1>5, <2>3 DEF Capture, TypeOK
<1>6. CASE Forget
  BY <1>6 DEF Forget, TypeOK
<1>7. CASE Work
  <2>1. /\ sync \in Syncs /\ sync.node \in Nodes /\ sync.initial \in BOOLEAN
        /\ sync.snapshot \in (SUBSET Records) \union {None}
        /\ sync.current \in BOOLEAN /\ sync.changed \in BOOLEAN
    BY <1>7 DEF Work, TypeOK, Syncs, Idle
  <2>2. policy' \in 0..MaxPolicy
    BY <1>7 DEF Work, Recovered, TypeOK
  <2>3. rows' \in SUBSET Records
    BY <1>7, PersistedType DEF Work
  <2>4. sync' \in Syncs
    BY <1>7, <2>1, <2>2, <2>3 DEF Work, TypeOK, Syncs, Pruned
  <2> QED BY <1>7, <2>2, <2>3, <2>4 DEF Work, TypeOK
<1>8. CASE WorkFails
  <2>1. policy' \in 0..MaxPolicy
    <3>1. policy \in 0..MaxPolicy /\ Recovered \in 0..MaxPolicy
      BY DEF Recovered, TypeOK
    <3> QED BY <1>8, <3>1 DEF WorkFails
  <2>2. rows' \in SUBSET Records
    BY <1>8, PersistedType DEF WorkFails, TypeOK
  <2>3. sync' \in Syncs
    BY <1>8 DEF WorkFails, TypeOK, Syncs, Idle
  <2> QED BY <1>8, <2>1, <2>2, <2>3 DEF WorkFails, TypeOK
<1>9. CASE Install
  <2>1. /\ sync.node \in Nodes /\ sync.initial \in BOOLEAN
        /\ sync.snapshot \in (SUBSET Records) \union {None}
        /\ sync.ledger \in SUBSET Records /\ sync.haves \in SUBSET Haves
        /\ sync.epoch \in 0..MaxPolicy
    BY <1>9 DEF Install, TypeOK, Syncs, Idle
  <2>2. CASE Fenced /\ sync.initial
    <3>1. client' \in Clients \union {None}
      BY <1>9, <2>1, <2>2 DEF Install, InstallInitial, TypeOK, Clients
    <3>2. state' \in States
      BY <1>9, <2>1, <2>2 DEF Install, InstallInitial, Fenced, States
    <3>3. noted' \in [node : Nodes, epoch : 0..MaxPolicy]
      BY <1>9, <2>1, <2>2 DEF Install, Fenced
    <3> QED BY <1>9, <2>2, <3>1, <3>2, <3>3 DEF Install, TypeOK
  <2>3. CASE Fenced /\ ~sync.initial
    <3> DEFINE moved == noted # None /\ noted.epoch # sync.epoch
               ledger == IF Acknowledged THEN sync.snapshot ELSE state.ledger
               Epoch(S) == IF moved THEN Pruned(S, sync.epoch) ELSE S
    <3>1. \A S \in SUBSET Records : Epoch(S) \in SUBSET Records
      BY DEF Pruned
    <3>2. state # None => ledger \in SUBSET Records
      <4>1. state # None => state.ledger \in SUBSET Records
        BY DEF TypeOK, States
      <4>2. Acknowledged => sync.snapshot \in SUBSET Records
        BY <2>1 DEF Acknowledged
      <4> QED BY <4>1, <4>2
    <3>3. state' \in States \union {None}
      <4>1. CASE state = None
        BY <1>9, <2>3, <4>1 DEF Install, Refresh
      <4>2. CASE state # None
        <5>1. state \in States /\ Epoch(ledger) \in SUBSET Records
          BY <3>1, <3>2, <4>2 DEF TypeOK
        <5>2. state' = [state EXCEPT !.ledger = Epoch(ledger),
                                     !.epoch = IF moved THEN sync.epoch ELSE @]
          BY <1>9, <2>3, <4>2 DEF Install, Refresh
        <5> HIDE DEF ledger, Epoch, moved
        <5> QED BY <2>1, <5>1, <5>2 DEF States
      <4> QED BY <4>1, <4>2
    <3>4. client' \in Clients \union {None}
      <4>1. CASE client = None
        BY <1>9, <2>3, <4>1 DEF Install, Refresh
      <4>2. CASE client # None
        <5>1. client \in Clients /\ Epoch(client.ledger) \in SUBSET Records
          BY <3>1, <4>2 DEF TypeOK, Clients
        <5>2. client' = [client EXCEPT
                           !.ledger = Epoch(@),
                           !.epoch = IF moved /\ state # None THEN sync.epoch ELSE @,
                           !.pending = @ /\ ~Acknowledged]
          BY <1>9, <2>3, <4>2 DEF Install, Refresh
        <5>3. Acknowledged \in BOOLEAN
          BY DEF Acknowledged
        <5> HIDE DEF Epoch, moved
        <5> QED BY <2>1, <5>1, <5>2, <5>3 DEF Clients
      <4> QED BY <4>1, <4>2
    <3>5. noted' \in [node : Nodes, epoch : 0..MaxPolicy]
      BY <1>9, <2>1, <2>3 DEF Install, Fenced
    <3> HIDE DEF moved, ledger, Epoch
    <3> QED BY <1>9, <2>3, <3>3, <3>4, <3>5 DEF Install, TypeOK
  <2>4. CASE ~Fenced
    BY <1>9, <2>4 DEF Install, TypeOK
  <2> QED BY <2>2, <2>3, <2>4
<1>10. CASE Pause
  <2>1. client' \in Clients \union {None}
    BY <1>10 DEF Pause, TypeOK, Clients
  <2> QED BY <1>10, <2>1 DEF Pause, TypeOK
<1>11. CASE BeginRetry
  BY <1>11, InvalidateType DEF BeginRetry, TypeOK
<1>12. CASE ClearSuppression
  BY <1>12, ClearedType DEF ClearSuppression, TypeOK
<1>13. CASE RetryFails
  BY <1>13, ClearedType DEF RetryFails, TypeOK
<1>14. CASE BeginDeletion
  BY <1>14, InvalidateType DEF BeginDeletion, TypeOK
<1>15. CASE EndDeletion
  BY <1>15, InvalidateType DEF EndDeletion, TypeOK
<1>16. CASE ChangePolicy
  BY <1>16 DEF ChangePolicy, TypeOK
<1>17. CASE Restart
  <2>1. client' \in Clients \union {None}
    BY <1>17 DEF Restart, TypeOK, Clients
  <2> QED BY <1>17, <2>1 DEF Restart, TypeOK
<1>18. CASE UNCHANGED vars
  BY <1>18 DEF vars, TypeOK
<1> QED BY <1>1, <1>2, <1>3, <1>4, <1>5, <1>6, <1>7, <1>8, <1>9, <1>10, <1>11, <1>12, <1>13,
           <1>14, <1>15, <1>16, <1>17, <1>18 DEF Next

-----------------------------------------------------------------------------
(* The invariant, action by action.                                        *)
LEMMA SelectNodeKeeps == ASSUME Inv, TypeOK', NEW n \in Nodes, SelectNode(n) PROVE Inv'
<1> USE StateAssumption
    DEF durable, coordv, Installed, Under, Taken, Of, Present, OfEpoch, Elapsed, HeldFrom
<1>1. HavesInv'
  BY DEF Inv, HavesInv, SelectNode, Activated, Change, HavesOfThisNode
<1>2. ElapsedInv'
  BY DEF Inv, ElapsedInv, SelectNode, Activated, Change
<1>3. StateInv'
  BY DEF Inv, StateInv, SelectNode
<1>4. ClientInv'
  BY DEF Inv, StateInv, ClientInv, SelectNode, Activated
<1>5. SyncInv'
  BY DEF Inv, SyncInv, SelectNode, Activated, Change
<1> QED BY <1>1, <1>2, <1>3, <1>4, <1>5 DEF Inv

LEMMA DeselectKeeps == ASSUME Inv, TypeOK', Deselect PROVE Inv'
<1> USE StateAssumption
    DEF durable, coordv, Installed, Under, Taken, Of, Present, OfEpoch, Elapsed, HeldFrom
<1>1. HavesInv'
  BY DEF Inv, HavesInv, Deselect, Change, HavesOfThisNode
<1>2. ElapsedInv'
  BY DEF Inv, ElapsedInv, Deselect, Change
<1>3. StateInv'
  BY DEF Inv, StateInv, Deselect
<1>4. ClientInv'
  BY DEF ClientInv, Deselect
<1>5. SyncInv'
  BY DEF Inv, SyncInv, Deselect, Change
<1> QED BY <1>1, <1>2, <1>3, <1>4, <1>5 DEF Inv

LEMMA GiveUpKeeps ==
  ASSUME Inv, TypeOK', NEW t \in Tids, GiveUp(t)
  PROVE  Inv'
<1> USE StateAssumption
    DEF durable, coordv, Installed, Under, Taken, Of, Present, OfEpoch, Elapsed, HeldFrom
<1> DEFINE r == [node |-> node, tid |-> t, round |-> round[node], epoch |-> client.epoch]
<1>a. client \in Clients /\ state \in States /\ node \in Nodes /\ r \in Records
  BY DEF GiveUp, Inv, TypeOK, Clients, Records
<1>b. r.node = node /\ r.tid = t /\ r.round = round[node] /\ r.epoch = client.epoch
  OBVIOUS
<1>c. client' = [client EXCEPT !.ledger = Upsert(@, {r}), !.pending = TRUE]
  BY DEF GiveUp
<1> HIDE DEF r
<1>d. /\ client # None /\ state # None /\ client.node = node /\ state.node = node
      /\ state' = state /\ receipts' = receipts /\ lock' = lock /\ node' = node
      /\ rows' = rows /\ round' = round
  BY DEF GiveUp
<1>e. /\ client'.haves = client.haves /\ client'.node = client.node /\ client'.pending
      /\ client'.ledger = Upsert(client.ledger, {r}) /\ client'.epoch = client.epoch
  BY <1>a, <1>c
<1>f. \A x : x \in client'.ledger <=>
           x = r \/ (x \in client.ledger /\ ~ (x.node = node /\ x.tid = t))
  BY <1>b, <1>e DEF Upsert, SameScope
<1>g. \A x \in Records : /\ x.node = node /\ x.tid = t
                          /\ x.round = round[node] /\ x.epoch = client.epoch => x = r
  BY <1>a, <1>b DEF Records
<1>h. state.ledger \subseteq Records /\ client.ledger \subseteq Records /\ round[node] \in Nat
  BY <1>a, SuppressionAssumption DEF Inv, TypeOK, States, Clients
<1>i. sync = Idle => sync' = Idle /\ sync.step = "idle"
  BY DEF GiveUp, Change, Idle
<1>j. ASSUME sync # Idle
      PROVE  /\ sync'.step = sync.step /\ sync'.node = sync.node /\ sync'.initial = sync.initial
             /\ sync'.snapshot = sync.snapshot /\ sync'.current = sync.current /\ sync'.changed
             /\ sync.step = "worked" => /\ sync'.ledger = sync.ledger
                                        /\ sync'.haves = sync.haves
                                        /\ sync'.epoch = sync.epoch
  <2>1. sync \in Syncs /\ sync' = [sync EXCEPT !.changed = TRUE]
    BY <1>j DEF GiveUp, Change, Inv, TypeOK
  <2> QED BY <2>1
<1>1. HavesInv'
  BY <1>a, <1>b, <1>d, <1>e, <1>f, <1>g, <1>h, <1>i, <1>j DEF Inv, HavesInv, HavesOfThisNode
<1>2. ElapsedInv'
  <2>1. \A x \in client'.ledger : x.round =< round[x.node]
    BY <1>b, <1>d, <1>f, <1>h DEF Inv, ElapsedInv
  <2> QED BY <1>d, <1>i, <1>j, <2>1 DEF Inv, ElapsedInv
<1>3. StateInv'
  BY <1>a, <1>b, <1>d, <1>e, <1>f, <1>g, <1>h, <1>i, <1>j DEF Inv, StateInv
<1>4. ClientInv'
  <2>1. /\ client.epoch = state.epoch /\ OfEpoch(client.ledger, state.epoch)
        /\ OfEpoch(state.ledger, state.epoch)
        /\ Present(state.ledger, node) \subseteq client.ledger
    BY <1>d DEF Inv, ClientInv, StateInv
  <2>2. OfEpoch(client'.ledger, state.epoch)
    BY <1>b, <1>f, <2>1
  <2>3. Present(state.ledger, node) \subseteq client'.ledger
    BY <1>f, <1>g, <1>h, <2>1
  <2> QED BY <1>d, <1>e, <2>1, <2>2, <2>3 DEF ClientInv
<1>5. SyncInv'
  BY <1>a, <1>b, <1>d, <1>e, <1>f, <1>g, <1>h, <1>i, <1>j DEF Inv, SyncInv
<1> QED BY <1>1, <1>2, <1>3, <1>4, <1>5 DEF Inv

LEMMA AdmitKeeps == ASSUME Inv, TypeOK', NEW t \in Tids, Admit(t) PROVE Inv'
<1> USE StateAssumption
    DEF durable, coordv, Installed, Under, Taken, Of, Present, OfEpoch, Elapsed, HeldFrom
<1>z. client \in Clients /\ state \in States /\ <<node, t>> \in Haves
  BY DEF Admit, Inv, TypeOK
<1>y. /\ client' = [client EXCEPT !.haves = @ \union {<<node, t>>}]
      /\ state' = [state EXCEPT !.haves = @ \union {<<node, t>>}]
  BY DEF Admit
<1>a. /\ client # None /\ state # None /\ client.node = node /\ state.node = node
      /\ receipts' = receipts \union {<<node, t>>}
      /\ sync' = sync /\ lock' = lock /\ node' = node /\ rows' = rows /\ round' = round
  BY DEF Admit
<1>b. /\ client'.haves = client.haves \union {<<node, t>>}
      /\ client'.node = client.node /\ client'.pending = client.pending
      /\ client'.ledger = client.ledger /\ client'.epoch = client.epoch
  BY <1>y, <1>z
<1>c. /\ state'.haves = state.haves \union {<<node, t>>}
      /\ state'.node = state.node /\ state'.ledger = state.ledger
      /\ state'.epoch = state.epoch /\ state' \in States
  BY <1>y, <1>z DEF States
<1>1. HavesInv'
  BY <1>a, <1>b, <1>c DEF Inv, HavesInv, HavesOfThisNode
<1>2. ElapsedInv'
  BY <1>a, <1>b, <1>c DEF Inv, ElapsedInv
<1>3. StateInv'
  BY <1>a, <1>b, <1>c DEF Inv, StateInv
<1>4. ClientInv'
  BY <1>a, <1>b, <1>c DEF Inv, ClientInv
<1>5. SyncInv'
  BY <1>a, <1>b, <1>c DEF Inv, SyncInv
<1> QED BY <1>1, <1>2, <1>3, <1>4, <1>5 DEF Inv

LEMMA CaptureKeeps == ASSUME Inv, TypeOK', Capture PROVE Inv'
<1> USE StateAssumption
    DEF durable, coordv, Installed, Under, Taken, Of, Present, OfEpoch, Elapsed, HeldFrom
<1>1. HavesInv'
  BY DEF Inv, HavesInv, Capture, HavesOfThisNode
<1>2. ElapsedInv'
  BY DEF Inv, ElapsedInv, Capture
<1>3. StateInv'
  BY DEF Inv, StateInv, Capture
<1>4. ClientInv'
  BY DEF Inv, ClientInv, Capture
<1>5. SyncInv'
  BY DEF Inv, ClientInv, SyncInv, Capture, Initial
<1> QED BY <1>1, <1>2, <1>3, <1>4, <1>5 DEF Inv

LEMMA ForgetKeeps == ASSUME Inv, TypeOK', Forget PROVE Inv'
<1> USE StateAssumption
    DEF durable, coordv, Installed, Under, Taken, Of, Present, OfEpoch, Elapsed, HeldFrom
<1>1. HavesInv'
  BY DEF Inv, HavesInv, Forget, HavesOfThisNode
<1>2. ElapsedInv'
  BY DEF Inv, ElapsedInv, Forget
<1>3. StateInv'
  BY DEF Inv, StateInv, Forget
<1>4. ClientInv'
  BY DEF Inv, ClientInv, Forget
<1>5. SyncInv'
  BY DEF Inv, SyncInv, Forget
<1> QED BY <1>1, <1>2, <1>3, <1>4, <1>5 DEF Inv

LEMMA WorkKeeps == ASSUME Inv, TypeOK', Work PROVE Inv'
<1> USE StateAssumption
    DEF durable, coordv, Installed, Under, Taken, Of, Present, OfEpoch, Elapsed, HeldFrom
<1>a. /\ Under /\ Under' /\ sync.step = "captured" /\ sync'.step = "worked"
      /\ sync'.node = sync.node /\ sync'.initial = sync.initial
      /\ sync'.snapshot = sync.snapshot
      /\ sync'.current = sync.current /\ sync'.changed = sync.changed
      /\ sync'.ledger = IF sync.initial THEN {r \in rows' : r.epoch = policy'} ELSE {}
      /\ sync'.haves = IF sync.initial THEN HeldFrom(sync.node) ELSE {}
      /\ sync'.epoch = policy'
      /\ node' = node /\ client' = client /\ state' = state /\ receipts' = receipts
      /\ lock' = lock /\ round' = round /\ rows' = Persisted
  BY DEF Work, Idle, Pruned
<1>b. sync.snapshot = None => rows' = rows
  BY <1>a DEF Persisted
<1>c. sync.snapshot # None =>
        /\ rows' \subseteq rows \union sync.snapshot
        /\ \A r \in rows : r.node # sync.node \/ r \in sync.snapshot => r \in rows'
        /\ Of(sync.snapshot, sync.node) \subseteq rows'
  BY <1>a, PersistedRows
<1>1. HavesInv'
  BY <1>a, <1>b, <1>c DEF Inv, HavesInv, HavesOfThisNode
<1>2. ElapsedInv'
  BY <1>a, <1>b, <1>c DEF Inv, ElapsedInv
<1>3. StateInv'
  BY <1>a, <1>b, <1>c DEF Inv, StateInv, SyncInv
<1>4. ClientInv'
  BY <1>a, <1>b, <1>c DEF Inv, ClientInv, SyncInv
<1>5. SyncInv'
  BY <1>a, <1>b, <1>c DEF Inv, SyncInv
<1> QED BY <1>1, <1>2, <1>3, <1>4, <1>5 DEF Inv

LEMMA WorkFailsKeeps == ASSUME Inv, TypeOK', WorkFails PROVE Inv'
<1> USE StateAssumption
    DEF durable, coordv, Installed, Under, Taken, Of, Present, OfEpoch, Elapsed, HeldFrom
<1>a. /\ Under /\ Under' /\ sync.step = "captured" /\ sync'.step = "failed"
      /\ sync'.node = sync.node /\ sync'.initial = sync.initial
      /\ sync'.snapshot = sync.snapshot
      /\ sync'.current = sync.current /\ sync'.changed = sync.changed
      /\ node' = node /\ client' = client /\ state' = state /\ receipts' = receipts
      /\ lock' = lock /\ round' = round
  BY DEF WorkFails, Idle
<1>b. sync.snapshot = None => rows' = rows
  BY DEF WorkFails, Persisted
<1>c. sync.snapshot # None =>
        /\ rows' \subseteq rows \union sync.snapshot
        /\ \A r \in rows : r.node # sync.node \/ r \in sync.snapshot => r \in rows'
  BY PersistedRows DEF WorkFails
<1>1. HavesInv'
  BY <1>a, <1>b, <1>c DEF Inv, HavesInv, HavesOfThisNode
<1>2. ElapsedInv'
  BY <1>a, <1>b, <1>c DEF Inv, ElapsedInv
<1>3. StateInv'
  BY <1>a, <1>b, <1>c DEF Inv, StateInv, SyncInv
<1>4. ClientInv'
  BY <1>a, <1>b, <1>c DEF Inv, ClientInv, SyncInv
<1>5. SyncInv'
  BY <1>a, <1>b, <1>c DEF Inv, SyncInv
<1> QED BY <1>1, <1>2, <1>3, <1>4, <1>5 DEF Inv

LEMMA RefreshFields ==
  ASSUME TypeOK, Refresh, state # None, sync.step = "worked",
         NEW moved, moved <=> noted # None /\ noted.epoch # sync.epoch
  PROVE  /\ state' # None /\ state'.node = state.node /\ state'.haves = state.haves
         /\ state'.epoch = IF moved THEN sync.epoch ELSE state.epoch
         /\ LET L == IF Acknowledged THEN sync.snapshot ELSE state.ledger
            IN  state'.ledger = IF moved THEN Pruned(L, sync.epoch) ELSE L
         /\ client' # None =>
              /\ client # None
              /\ client'.node = client.node /\ client'.haves = client.haves
              /\ client'.epoch = IF moved THEN sync.epoch ELSE client.epoch
              /\ client'.ledger = IF moved THEN Pruned(client.ledger, sync.epoch)
                                           ELSE client.ledger
              /\ client'.pending <=> client.pending /\ ~Acknowledged
<1> DEFINE L == IF Acknowledged THEN sync.snapshot ELSE state.ledger
           Epoch(S) == IF moved THEN Pruned(S, sync.epoch) ELSE S
<1>1. /\ state \in States /\ sync.epoch \in 0..MaxPolicy
      /\ sync.snapshot \in (SUBSET Records) \union {None}
  BY DEF TypeOK, Syncs, Idle
<1>2. Epoch(L) \in SUBSET Records
  <2>1. L \in SUBSET Records
    BY <1>1 DEF Acknowledged, States
  <2> QED BY <2>1 DEF Pruned
<1>3. state' = [state EXCEPT !.ledger = Epoch(L), !.epoch = IF moved THEN sync.epoch ELSE @]
  BY DEF Refresh
<1>4. client # None =>
        client' = [client EXCEPT
                     !.ledger = Epoch(@),
                     !.epoch = IF moved THEN sync.epoch ELSE @,
                     !.pending = @ /\ ~Acknowledged]
  BY DEF Refresh
<1>5. client = None => client' = None
  BY DEF Refresh
<1> HIDE DEF L
<1>6. state' \in States
  BY <1>1, <1>2, <1>3 DEF States
<1>7. /\ state'.node = state.node /\ state'.haves = state.haves
      /\ state'.epoch = IF moved THEN sync.epoch ELSE state.epoch
      /\ state'.ledger = Epoch(L)
  BY <1>1, <1>3
<1>8. ASSUME client # None
      PROVE  /\ client'.node = client.node /\ client'.haves = client.haves
             /\ client'.epoch = IF moved THEN sync.epoch ELSE client.epoch
             /\ client'.ledger = Epoch(client.ledger)
             /\ client'.pending <=> client.pending /\ ~Acknowledged
  <2>1. client \in Clients
    BY <1>8 DEF TypeOK
  <2> QED BY <1>4, <1>8, <2>1 DEF Clients
<1> QED BY <1>5, <1>6, <1>7, <1>8, StateAssumption DEF L

LEMMA InstallKeeps == ASSUME Inv, TypeOK', Install PROVE Inv'
<1> USE StateAssumption
    DEF durable, coordv, Installed, Under, Taken, Of, Present, OfEpoch, Elapsed, HeldFrom
<1>a. /\ sync.step = "worked" /\ Under /\ lock = None /\ sync' = Idle /\ sync'.step = "idle"
      /\ node' = node /\ lock' = lock /\ rows' = rows /\ receipts' = receipts
      /\ round' = round
  BY DEF Install, Idle
<1>1. CASE ~Fenced
  <2>a. client' = client /\ state' = state
    BY <1>1 DEF Install
  <2>1. HavesInv'
    BY <1>a, <2>a DEF Inv, HavesInv, HavesOfThisNode
  <2>2. ElapsedInv'
    BY <1>a, <2>a DEF Inv, ElapsedInv
  <2>3. StateInv'
    BY <1>a, <2>a DEF Inv, StateInv
  <2>4. ClientInv'
    BY <1>a, <2>a DEF Inv, ClientInv
  <2>5. SyncInv'
    BY <1>a, <2>a DEF SyncInv
  <2> QED BY <2>1, <2>2, <2>3, <2>4, <2>5 DEF Inv

<1>2. CASE Fenced /\ sync.initial
  <2>1. /\ InstallInitial /\ sync.current /\ node = sync.node
    BY <1>2 DEF Install, Fenced
  <2>2. ASSUME client' # None
        PROVE  /\ client # None /\ client'.node = client.node
               /\ client'.ledger = sync.ledger /\ client'.epoch = sync.epoch
               /\ client'.haves = sync.haves
    BY <2>1, <2>2 DEF InstallInitial
  <2>a. /\ state'.node = node /\ state'.ledger = sync.ledger /\ state'.epoch = sync.epoch
        /\ state'.haves = sync.haves
        /\ client' # None => /\ client # None /\ client'.node = client.node
                             /\ client'.ledger = sync.ledger /\ client'.epoch = sync.epoch
                             /\ client'.haves = sync.haves
        /\ sync.current /\ node = sync.node
    BY <2>1, <2>2 DEF InstallInitial
  <2>b. state' \in States
    BY <1>2 DEF Install, InstallInitial, States, Inv, TypeOK, Syncs, Idle
  <2>3. HavesInv'
    BY <1>a, <1>2, <2>a, <2>b DEF Inv, HavesInv, ClientInv, HavesOfThisNode
  <2>4. ElapsedInv'
    BY <1>a, <1>2, <2>a, <2>b DEF Inv, ElapsedInv
  <2>5. StateInv'
    BY <1>a, <1>2, <2>a, <2>b DEF Inv, StateInv, SyncInv
  <2>6. ClientInv'
    BY <1>a, <1>2, <2>a, <2>b DEF Inv, ClientInv, SyncInv
  <2>7. SyncInv'
    BY <1>a, <1>2, <2>a, <2>b DEF SyncInv
  <2> QED BY <2>3, <2>4, <2>5, <2>6, <2>7 DEF Inv

<1>3. CASE Fenced /\ ~sync.initial
  <2> DEFINE moved == noted # None /\ noted.epoch # sync.epoch
  <2>a. /\ sync.current /\ node = sync.node /\ state # None /\ state.node = node /\ Refresh
    BY <1>a, <1>3 DEF Install, Fenced, Inv, SyncInv
  <2>b. /\ state' # None /\ state'.node = state.node /\ state'.haves = state.haves
        /\ state'.epoch = IF moved THEN sync.epoch ELSE state.epoch
        /\ LET L == IF Acknowledged THEN sync.snapshot ELSE state.ledger
           IN  state'.ledger = IF moved THEN Pruned(L, sync.epoch) ELSE L
        /\ client' # None =>
             /\ client # None
             /\ client'.node = client.node /\ client'.haves = client.haves
             /\ client'.epoch = IF moved THEN sync.epoch ELSE client.epoch
             /\ client'.ledger = IF moved THEN Pruned(client.ledger, sync.epoch)
                                          ELSE client.ledger
             /\ client'.pending <=> client.pending /\ ~Acknowledged
    BY <1>a, <2>a, RefreshFields DEF Inv
  <2> HIDE DEF moved
  <2>1. HavesInv'
    BY <1>a, <1>3, <2>a, <2>b DEF Inv, HavesInv, HavesOfThisNode
  <2>2. ElapsedInv'
    BY <1>a, <1>3, <2>a, <2>b DEF Inv, ElapsedInv, Acknowledged, Pruned
  <2>3. StateInv'
    BY <1>a, <1>3, <2>a, <2>b DEF Inv, StateInv, SyncInv, Acknowledged, Pruned
  <2>4. ClientInv'
    BY <1>a, <1>3, <2>a, <2>b DEF Inv, ClientInv, SyncInv, Acknowledged, Pruned
  <2>5. SyncInv'
    BY <1>a, <1>3, <2>a, <2>b DEF SyncInv
  <2> QED BY <2>1, <2>2, <2>3, <2>4, <2>5 DEF Inv

<1> QED BY <1>1, <1>2, <1>3

LEMMA PauseKeeps == ASSUME Inv, TypeOK', Pause PROVE Inv'
<1> USE StateAssumption
    DEF durable, coordv, Installed, Under, Taken, Of, Present, OfEpoch, Elapsed, HeldFrom
<1>a. /\ client' # None => /\ client # None /\ client'.node = client.node
                           /\ ~client'.pending => ~client.pending
                           /\ client'.ledger = client.ledger /\ client'.haves = client.haves
                           /\ client'.epoch = client.epoch
      /\ state' = state /\ sync' = Idle /\ sync'.step = "idle" /\ lock' = lock /\ node' = node
      /\ rows' = rows /\ receipts' = receipts /\ round' = round
  BY DEF Pause, Idle, TypeOK, Clients
<1>1. HavesInv'
  BY <1>a DEF Inv, HavesInv, HavesOfThisNode
<1>2. ElapsedInv'
  BY <1>a DEF Inv, ElapsedInv
<1>3. StateInv'
  BY <1>a DEF Inv, StateInv
<1>4. ClientInv'
  BY <1>a DEF Inv, ClientInv
<1>5. SyncInv'
  BY <1>a DEF SyncInv
<1> QED BY <1>1, <1>2, <1>3, <1>4, <1>5 DEF Inv

LEMMA InvalidateKeeps ==
  ASSUME Inv, TypeOK', Invalidate, receipts' \subseteq receipts,
         UNCHANGED <<node, rows, round>>
  PROVE  Inv'
<1> USE StateAssumption
    DEF durable, coordv, Installed, Under, Taken, Of, Present, OfEpoch, Elapsed, HeldFrom
<1>a. /\ state' = None
      /\ client' # None => /\ client # None /\ client'.node = client.node
                           /\ client'.ledger = client.ledger
                           /\ client'.haves = {} /\ client'.pending
  BY DEF Invalidate
<1>b. /\ Under' => Under
      /\ Under => /\ sync'.step = sync.step /\ sync'.node = sync.node
                  /\ sync'.initial = sync.initial /\ sync'.snapshot = sync.snapshot
                  /\ ~sync'.current /\ sync'.changed = sync.changed
                  /\ sync.step = "worked" => /\ sync'.ledger = sync.ledger
                                             /\ sync'.epoch = sync.epoch
      /\ ~Under => sync' = Idle /\ sync = Idle /\ sync.step = "idle"
  BY DEF Invalidate, Bump, Idle
<1>1. HavesInv'
  BY <1>a, <1>b DEF HavesInv, HavesOfThisNode
<1>2. ElapsedInv'
  BY <1>a, <1>b DEF Inv, ElapsedInv
<1>3. StateInv'
  BY <1>a, <1>b DEF StateInv
<1>4. ClientInv'
  BY <1>a, <1>b DEF Inv, ClientInv
<1>5. SyncInv'
  BY <1>a, <1>b DEF Inv, SyncInv
<1> QED BY <1>1, <1>2, <1>3, <1>4, <1>5 DEF Inv

LEMMA ClearedKeeps ==
  ASSUME Inv, TypeOK', lock # None, lock' = None,
         Cleared(lock.node) \/ UNCHANGED <<rows, round>>,
         UNCHANGED <<node, client, state, receipts, sync>>
  PROVE  Inv'
<1> USE StateAssumption
    DEF durable, coordv, Installed, Under, Taken, Of, Present, OfEpoch, Elapsed, HeldFrom
<1>a. \A n \in Nodes : round[n] \in Nat /\ round'[n] \in Nat /\ round[n] =< round'[n]
  BY SuppressionAssumption DEF Cleared, Inv, TypeOK
<1>b. rows' \subseteq rows /\ state = None
  BY DEF Cleared, Inv, StateInv
<1>c. \A r \in rows : r \in rows' \/ r.node \notin Nodes \/ r.round < round'[r.node]
  BY <1>a DEF Cleared, Inv, TypeOK, ElapsedInv, Records
<1>d. \A r \in Records : r.node \in Nodes /\ r.round \in Nat
  BY SuppressionAssumption DEF Records
<1>e. /\ rows \subseteq Records
      /\ client # None => client.ledger \subseteq Records
      /\ Taken => sync.snapshot \subseteq Records
      /\ sync.step = "worked" => sync.ledger \subseteq Records
  BY DEF Inv, TypeOK, Clients, Syncs, Idle
<1>1. HavesInv'
  BY <1>a, <1>b, <1>c, <1>d, <1>e DEF Inv, HavesInv, HavesOfThisNode
<1>2. ElapsedInv'
  BY <1>a, <1>b, <1>c, <1>d, <1>e DEF Inv, ElapsedInv
<1>3. StateInv'
  BY <1>a, <1>b, <1>c, <1>d, <1>e DEF StateInv
<1>4. ClientInv'
  BY <1>a, <1>b, <1>c, <1>d, <1>e DEF Inv, ClientInv
<1>5. SyncInv'
  BY <1>a, <1>b, <1>c, <1>d, <1>e DEF Inv, ElapsedInv, SyncInv
<1> QED BY <1>1, <1>2, <1>3, <1>4, <1>5 DEF Inv

LEMMA ChangePolicyKeeps == ASSUME Inv, TypeOK', ChangePolicy PROVE Inv'
<1> USE StateAssumption
    DEF durable, coordv, Installed, Under, Taken, Of, Present, OfEpoch, Elapsed, HeldFrom
<1>1. HavesInv'
  BY DEF Inv, HavesInv, ChangePolicy, HavesOfThisNode
<1>2. ElapsedInv'
  BY DEF Inv, ElapsedInv, ChangePolicy
<1>3. StateInv'
  BY DEF Inv, StateInv, ChangePolicy
<1>4. ClientInv'
  BY DEF Inv, ClientInv, ChangePolicy
<1>5. SyncInv'
  BY DEF Inv, SyncInv, ChangePolicy
<1> QED BY <1>1, <1>2, <1>3, <1>4, <1>5 DEF Inv

LEMMA RestartKeeps == ASSUME Inv, TypeOK', Restart PROVE Inv'
<1> USE StateAssumption
    DEF durable, coordv, Installed, Under, Taken, Of, Present, OfEpoch, Elapsed, HeldFrom
<1>a. /\ client' # None => /\ client'.node = node' /\ client'.pending
                           /\ client'.ledger = {} /\ client'.haves = {}
      /\ state' = None /\ sync' = Idle /\ sync'.step = "idle" /\ lock' = None
      /\ rows' = rows /\ receipts' = receipts /\ round' = round
  BY DEF Restart, Idle
<1>1. HavesInv'
  BY <1>a DEF HavesInv, HavesOfThisNode
<1>2. ElapsedInv'
  BY <1>a DEF Inv, ElapsedInv
<1>3. StateInv'
  BY <1>a DEF StateInv
<1>4. ClientInv'
  BY <1>a DEF ClientInv
<1>5. SyncInv'
  BY <1>a DEF SyncInv
<1> QED BY <1>1, <1>2, <1>3, <1>4, <1>5 DEF Inv

-----------------------------------------------------------------------------
LEMMA InitHolds == Init => Inv /\ Counted
<1> SUFFICES ASSUME Init PROVE Inv /\ Counted
  OBVIOUS
<1>1. TypeOK
  <2>1. 0 \in 0..MaxPolicy /\ 0 \in 0..MaxRounds
    BY SuppressionAssumption
  <2>2. round \in [Nodes -> 0..MaxRounds]
    BY <2>1 DEF Init
  <2> QED BY <2>1, <2>2 DEF Init, TypeOK
<1>2. /\ client = None /\ state = None /\ rows = {} /\ sync = Idle /\ sync.step = "idle"
      /\ lock = None
  BY DEF Init, Idle
<1> QED BY <1>1, <1>2 DEF Inv, HavesInv, HavesOfThisNode, ElapsedInv, Elapsed, StateInv,
           ClientInv, SyncInv, Under, Taken, Counted

LEMMA StepHolds ==
  ASSUME Inv, Counted, [Next]_vars
  PROVE  Inv' /\ Counted'
<1> USE DEF durable, coordv
<1>1. TypeOK' /\ Counted'
  BY TypesKept, RetryCounted DEF Inv
<1>2. CASE Invalidate /\ UNCHANGED <<node, rows, round>> /\ receipts' \subseteq receipts
  BY <1>1, <1>2, InvalidateKeeps
<1>3. CASE ClearSuppression \/ RetryFails
  BY <1>1, <1>3, ClearedKeeps DEF ClearSuppression, RetryFails
<1>4. CASE UNCHANGED vars
  BY <1>1, <1>4 DEF vars, Inv, HavesInv, HavesOfThisNode, HeldFrom, ElapsedInv, Elapsed,
     StateInv, Present, ClientInv, Installed, SyncInv, Under, Taken
<1>5. BeginRetry \/ BeginDeletion \/ EndDeletion =>
        Invalidate /\ UNCHANGED <<node, rows, round>> /\ receipts' \subseteq receipts
  BY DEF BeginRetry, BeginDeletion, EndDeletion
<1> QED BY <1>1, <1>2, <1>3, <1>4, <1>5, SelectNodeKeeps, DeselectKeeps, GiveUpKeeps,
           AdmitKeeps, CaptureKeeps, ForgetKeeps, WorkKeeps, WorkFailsKeeps, InstallKeeps,
           PauseKeeps, ChangePolicyKeeps, RestartKeeps DEF Next

LEMMA AlwaysInv == Spec => []Inv
<1>1. Spec => [](Inv /\ Counted)
  BY InitHolds, StepHolds, PTL DEF Spec
<1> QED BY <1>1, PTL

(* Nodes, records, epochs and rounds stay what the code can give them.     *)
THEOREM SuppressionTypes == Spec => []TypeOK
<1>1. Inv => TypeOK
  BY DEF Inv
<1> QED BY <1>1, AlwaysInv, PTL

(* Whatever is selected, deleted or installed late, the client reports to  *)
(* a node only what it still holds from that node.                         *)
THEOREM OnlyHeldFromNode == Spec => []HavesOfThisNode
<1>1. Inv => HavesOfThisNode
  BY DEF Inv, HavesInv
<1> QED BY <1>1, AlwaysInv, PTL

(* A client that selects downloads has its suppressions of this round on   *)
(* disk.                                                                   *)
THEOREM SuppressionsOnDisk == Spec => []SuppressionPersisted
<1>1. Inv => SuppressionPersisted
  BY DEF Inv, ClientInv, SuppressionPersisted, Present
<1> QED BY <1>1, AlwaysInv, PTL

(* A client that selects downloads has no failure of an older policy.      *)
THEOREM JudgedByThePolicy == Spec => []NoStaleFailures
<1>1. Inv => NoStaleFailures
  BY DEF Inv, ClientInv, NoStaleFailures, OfEpoch
<1> QED BY <1>1, AlwaysInv, PTL

=============================================================================
