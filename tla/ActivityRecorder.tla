-------------------------- MODULE ActivityRecorder --------------------------
(***************************************************************************)
(* The activity recorder (crates/ratspeak-runtime/src/activity: gate.rs,   *)
(* lifecycle.rs, worker.rs, replay.rs).                                    *)
(*                                                                         *)
(* Producers record events through a gate that never makes them wait: an   *)
(* atomic word has a closed bit and the number of leases, and a            *)
(* generation tells one opening from the next.  A worker thread owns what  *)
(* has been recorded and takes drafts and ordered barriers from one queue, *)
(* urgent commands from another.  Operations (start, stop, resume, clear,  *)
(* a change of profile, a reset) close the gate, wait until no lease is    *)
(* left, tell the worker, and reopen the gate for the generation that the  *)
(* worker acknowledged.  A reset is the privacy boundary of an identity:   *)
(* it closes the gate and advances the generation before it waits for      *)
(* anything.                                                               *)
(*                                                                         *)
(* An event has no content here, only an age: it is "old" once a reset or  *)
(* a clear whose caller still waits has been carried out after the event   *)
(* was admitted, or when its origin is older than the last reset.          *)
(***************************************************************************)
EXTENDS Naturals, Sequences, FiniteSets

CONSTANTS
  Producers,
  Deadlines,        \* instants at which a limited Trace ends
  MaxGeneration,    \* the generation that cannot be advanced (u64::MAX)
  MaxEpoch,         \* the worker epoch that cannot be advanced (u64::MAX)
  IngressCapacity,
  MaxTimeouts,      \* bound on the operations that run into their time limit
  None

Callers == {"user", "timer"}

ASSUME RecorderAssumption ==
  /\ MaxGeneration \in Nat /\ MaxEpoch \in Nat \ {0} /\ IngressCapacity \in Nat
  /\ MaxTimeouts \in Nat
  /\ None \notin Callers \union Deadlines \union [gen : 0..MaxGeneration, deadline : Deadlines]

VARIABLES
  gate,       \* the gate, with the slot it publishes; of: the generation it was opened for
  stored,     \* trace_deadline: a deadline and its generation, or None
  past,       \* deadlines that have passed
  session,    \* the worker's session
  worker,     \* where the worker or its supervisor is, and its epoch
  hand,       \* the barrier the worker is working on, or NoItem
  ingress,    \* drafts and ordered barriers
  urgent,     \* urgent commands
  query,      \* a replay, from its replay lock to the end of its serialization
  call,       \* the operation of the control commands and that of the expiry task
  lingering,  \* a quiescence wait whose operation has timed out still runs
  producer,   \* the tasks that record
  timeouts,   \* operations that have run into their time limit
  failed      \* history: an operation failed since the gate was last opened

gatev  == <<gate, stored>>
workv  == <<session, worker, hand>>
queues == <<ingress, urgent>>
callv  == <<call, lingering, timeouts, failed>>
vars   == <<gatev, past, workv, queues, query, callv, producer>>

Profiles == {"Normal", "Trace"}
Ages     == {"fresh", "old"}

NoCall == [op |-> "none", at |-> "idle", gen |-> 0, profile |-> "Normal", deadline |-> None,
           epoch |-> 0]

(* A draft, an ordered barrier or an urgent command; from is the operation *)
(* that waits for the answer.                                              *)
Item(kind, gen, profile, deadline, from) ==
  [kind |-> kind, gen |-> gen, profile |-> profile, deadline |-> deadline, age |-> "fresh",
   from |-> from]

NoItem == Item("none", 0, "Normal", None, None)

(* held: in the coalescer; ring: in the ring, or in the batch for the user *)
(* interface.                                                              *)
NoSession == [state |-> "off", profile |-> "Normal", gen |-> 0, held |-> {}, ring |-> {}]

NoLease == [at |-> "idle", gen |-> 0, profile |-> "Normal", deadline |-> None, age |-> "fresh"]

NoQuery == [at |-> "idle", shown |-> {}]

Init ==
  /\ gate = [closed |-> TRUE, gen |-> 0, profile |-> "Normal", deadline |-> None, of |-> 0]
  /\ stored = None /\ past = {}
  /\ session = NoSession /\ worker = [at |-> "ready", epoch |-> 1] /\ hand = NoItem
  /\ ingress = <<>> /\ urgent = <<>> /\ query = NoQuery
  /\ call = [c \in Callers |-> NoCall] /\ lingering = FALSE /\ timeouts = 0 /\ failed = FALSE
  /\ producer = [p \in Producers |-> NoLease]

-----------------------------------------------------------------------------
(* The gate.                                                               *)

Leased == {p \in Producers : producer[p].at \in {"counted", "leased", "closing", "sending"}}

CanAdvance == gate.closed /\ gate.gen < MaxGeneration

Advanced == [gate EXCEPT !.gen = @ + 1]

(* hard_reset, which fails at the last generation.                         *)
Shut == [gate EXCEPT !.closed = TRUE, !.gen = IF @ < MaxGeneration THEN @ + 1 ELSE @]

(* Mutant of CanOpen: any generation will do.                              *)
CanOpenUnchecked(gen) ==
  /\ ~lingering /\ worker.at # "drain"
  /\ gate.closed /\ Leased = {}
  /\ gate.gen # MaxGeneration

(* open_if_generation.                                                     *)
CanOpen(gen) ==
  /\ ~lingering /\ worker.at # "drain"
  /\ gate.closed /\ Leased = {}
  /\ gate.gen = gen /\ gen # MaxGeneration

Opened(gen, profile, deadline) ==
  [closed |-> FALSE, gen |-> gate.gen, profile |-> profile, deadline |-> deadline, of |-> gen]

-----------------------------------------------------------------------------
(* Producers: record_draft.                                                *)

At(p, at) == producer' = [producer EXCEPT ![p].at = at]
Leaves(p) == producer' = [producer EXCEPT ![p] = NoLease]

(* A task may have taken the fence of its origin long ago, and may have    *)
(* seen the worker available before it panicked.                           *)
Enter(p) ==
  /\ producer[p].at = "idle" /\ ~gate.closed
  /\ \E age \in Ages :
       producer' = [producer EXCEPT ![p] = [NoLease EXCEPT !.at = "read", !.gen = gate.gen,
                                                           !.age = age]]
  /\ UNCHANGED <<gatev, past, workv, queues, query, callv>>

(* The compare-and-swap succeeds whenever the gate is open, be it again.   *)
Count(p) ==
  /\ producer[p].at = "read"
  /\ IF gate.closed THEN Leaves(p) ELSE At(p, "counted")
  /\ UNCHANGED <<gatev, past, workv, queues, query, callv>>

(* Mutant of Confirm: the generation is not read again.                    *)
ConfirmUnchecked(p) ==
  /\ producer[p].at = "counted"
  /\ producer' = [producer EXCEPT ![p].at = "leased", ![p].profile = gate.profile,
                                  ![p].deadline = gate.deadline]
  /\ UNCHANGED <<gatev, past, workv, queues, query, callv>>

(* Another generation: the count is released, and the producer starts      *)
(* over.                                                                   *)
Confirm(p) ==
  /\ producer[p].at = "counted"
  /\ IF gate.gen # producer[p].gen
     THEN Leaves(p)
     ELSE producer' = [producer EXCEPT ![p].at = "leased", ![p].profile = gate.profile,
                                       ![p].deadline = gate.deadline]
  /\ UNCHANGED <<gatev, past, workv, queues, query, callv>>

TraceOver(p) == producer[p].profile = "Trace" /\ producer[p].deadline \in past

CloseExpired(p) ==
  /\ producer[p].at = "leased" /\ TraceOver(p)
  /\ gate' = [gate EXCEPT !.closed = TRUE]
  /\ At(p, "closing")
  /\ UNCHANGED <<stored, past, workv, queues, query, callv>>

(* The origin is checked under the lease.                                  *)
Validate(p) ==
  /\ producer[p].at = "leased" /\ ~TraceOver(p)
  /\ gate.gen = producer[p].gen /\ producer[p].age = "fresh"
  /\ At(p, "sending")
  /\ UNCHANGED <<gatev, past, workv, queues, query, callv>>

SendDraft(p) ==
  /\ producer[p].at = "sending"
  /\ worker.at # "gone" /\ Len(ingress) < IngressCapacity
  /\ ingress' = Append(ingress, [Item("draft", producer[p].gen, producer[p].profile, None, None)
                                  EXCEPT !.age = producer[p].age])
  /\ Leaves(p)
  /\ UNCHANGED <<gatev, past, workv, urgent, query, callv>>

(* The lease goes without a draft: the Trace is over, the generation has   *)
(* moved, the origin is stale, the draft is invalid, filtered or over its  *)
(* rate, the queue is full.                                                *)
DropLease(p) ==
  /\ producer[p].at \in {"leased", "closing", "sending"}
  /\ producer[p].at = "leased" => ~TraceOver(p)
  /\ Leaves(p)
  /\ UNCHANGED <<gatev, past, workv, queues, query, callv>>

Records(p) ==
  Count(p) \/ Confirm(p) \/ CloseExpired(p) \/ Validate(p) \/ SendDraft(p) \/ DropLease(p)

-----------------------------------------------------------------------------
(* Operations.  "user" is whoever holds activity_control_lock: the         *)
(* commands, the foreground transition, the reset of an identity           *)
(* transition.  "timer" is the task that waits for a deadline.  Who holds  *)
(* the lifecycle lock is told by where the operations are.                 *)

Due == stored # None /\ stored.gen = gate.gen /\ stored.deadline \in past

InUse ==
  {producer[p].deadline : p \in Leased} \union {call[c].deadline : c \in Callers}
    \union {ingress[i].deadline : i \in 1..Len(ingress)} \union {hand.deadline}
    \union (IF stored = None THEN {} ELSE {stored.deadline})
    \union (IF gate.closed THEN {} ELSE {gate.deadline})

Begins(c, op, at, profile, deadline) ==
  /\ call[c].at = "idle"
  /\ call' = [call EXCEPT ![c] = [NoCall EXCEPT !.op = op, !.at = at, !.profile = profile,
                                                !.deadline = deadline]]
  /\ UNCHANGED <<gatev, workv, queues, query, lingering, timeouts, failed>>

Request ==
  /\ \E op \in {"start", "stop", "resume", "clear", "profile"} :
       Begins("user", op, "lock", "Normal", None)
  /\ UNCHANGED <<past, producer>>

RequestTrace ==
  \E d \in {None} \union (Deadlines \ InUse) :
    /\ Begins("user", "profile", "lock", "Trace", d)
    /\ past' = past \ {d}
    /\ UNCHANGED producer

(* expire_trace_if_due, from the task of an alarm and on the way to the    *)
(* foreground.                                                             *)
Expire(c) ==
  /\ Due
  /\ Begins(c, "expire", "lock", "Normal", None)
  /\ UNCHANGED <<past, producer>>

(* reset_activity_for_shutdown: the origins of all running tasks go stale  *)
(* first.  The roll-back of a failed change of the log level resets        *)
(* without that.                                                           *)
RequestReset ==
  /\ Begins("user", "reset", "shut", "Normal", None)
  /\ \/ producer' = [p \in Producers |-> IF producer[p].at \in {"read", "counted", "leased"}
                                         THEN [producer[p] EXCEPT !.age = "old"] ELSE producer[p]]
     \/ UNCHANGED producer
  /\ UNCHANGED past

Goes(c, at) == call' = [call EXCEPT ![c].at = at] /\ UNCHANGED failed
Returns(c)  == call' = [call EXCEPT ![c] = NoCall] /\ UNCHANGED failed
Fails(c)    == call' = [call EXCEPT ![c] = NoCall] /\ failed' = TRUE

(* The first step of hard_reset.                                           *)
ShutGate(c) ==
  /\ call[c].at = "shut"
  /\ gate' = Shut
  /\ IF gate.gen < MaxGeneration
     THEN /\ stored' = None
          /\ call' = [call EXCEPT ![c].at = "lock", ![c].gen = gate.gen + 1]
          /\ UNCHANGED failed
     ELSE Fails(c) /\ UNCHANGED stored
  /\ UNCHANGED <<past, workv, queues, query, lingering, timeouts, producer>>

Holding == {c \in Callers : call[c].at \notin {"idle", "shut", "lock"}}

(* The state an operation asks for under the lock; nothing has changed.    *)
Pointless(c) ==
  \/ call[c].op = "start" /\ session.state # "off"
  \/ call[c].op = "resume" /\ session.state # "stopped"
  \/ call[c].op = "expire" /\ ~Due

TakeLock(c) ==
  /\ call[c].at = "lock" /\ Holding = {}
  /\ IF Pointless(c)
     THEN Returns(c) /\ UNCHANGED gate
     ELSE /\ Goes(c, "quiesce")
          /\ gate' = IF call[c].op = "reset" THEN gate ELSE [gate EXCEPT !.closed = TRUE]
  /\ UNCHANGED <<stored, past, workv, queues, query, lingering, timeouts, producer>>

(* wait_quiescent, which refuses an open gate.                             *)
Quiesce(c) ==
  /\ call[c].at = "quiesce"
  /\ \/ /\ gate.closed /\ Leased = {}
        /\ Goes(c, CASE call[c].op \in {"start", "resume"} -> "advance"
                     [] call[c].op \in {"clear", "reset"} -> "replay"
                     [] OTHER -> "read")
     \/ ~gate.closed /\ Fails(c)
  /\ UNCHANGED <<gatev, past, workv, queues, query, lingering, timeouts, producer>>

AdvanceFor(c) ==
  /\ call[c].at = "advance"
  /\ IF CanAdvance
     THEN /\ gate' = Advanced
          /\ call' = [call EXCEPT ![c].at = "send", ![c].gen = gate.gen + 1]
          /\ UNCHANGED failed
     ELSE Fails(c) /\ UNCHANGED gate
  /\ UNCHANGED <<stored, past, workv, queues, query, lingering, timeouts, producer>>

(* replay_lock.write: every answer has crossed to the user interface.      *)
TakeReplayLock(c) ==
  /\ call[c].at = "replay" /\ query.at = "idle"
  /\ Goes(c, IF call[c].op = "clear" THEN "read" ELSE "send")
  /\ UNCHANGED <<gatev, past, workv, queues, query, lingering, timeouts, producer>>

(* What the barrier will say: the generation it expects and, of a clear,   *)
(* the deadline it keeps.                                                  *)
ReadGeneration(c) ==
  /\ call[c].at = "read"
  /\ call' = [call EXCEPT ![c].at = "send", ![c].gen = gate.gen,
       ![c].deadline = IF call[c].op = "clear" /\ stored # None /\ stored.gen = gate.gen
                       THEN stored.deadline ELSE @]
  /\ UNCHANGED <<gatev, past, workv, queues, query, lingering, timeouts, failed, producer>>

(* What is sent is with the worker; the operation waits for the answer.    *)
Awaits(c) ==
  /\ call' = [call EXCEPT ![c] = [NoCall EXCEPT !.op = call[c].op, !.at = "ack"]]
  /\ UNCHANGED failed

(* send_ordered.                                                           *)
Barrier(c) ==
  Item(IF call[c].op = "expire" THEN "profile" ELSE call[c].op,
       call[c].gen, call[c].profile, call[c].deadline, c)

SendOrdered(c) ==
  /\ call[c].at = "send" /\ call[c].op \in {"stop", "clear", "profile", "expire"}
  /\ \/ /\ worker.at # "gone" /\ Len(ingress) < IngressCapacity
        /\ ingress' = Append(ingress, Barrier(c))
        /\ Awaits(c)
     \/ worker.at = "gone" /\ Fails(c) /\ UNCHANGED ingress
  /\ UNCHANGED <<gatev, past, workv, urgent, query, lingering, timeouts, producer>>

SendUrgent(c) ==
  /\ call[c].at = "send" /\ call[c].op \in {"start", "resume", "reset"}
  /\ \/ /\ worker.at # "gone"
        /\ urgent' = Append(urgent, Item(call[c].op, call[c].gen, "Normal", None, c))
        /\ Awaits(c)
     \/ worker.at = "gone" /\ Fails(c) /\ UNCHANGED urgent
  /\ UNCHANGED <<gatev, past, workv, ingress, query, lingering, timeouts, producer>>

(* apply_open_ack.                                                         *)
Open(c) ==
  /\ call[c].at = "open"
  /\ IF call[c].epoch = worker.epoch /\ CanOpen(call[c].gen)
     THEN /\ gate' = Opened(call[c].gen, call[c].profile, call[c].deadline)
          /\ call' = [call EXCEPT ![c].at = "publish"]
          /\ failed' = FALSE
     ELSE Fails(c) /\ UNCHANGED gate
  /\ UNCHANGED <<stored, past, workv, queues, query, lingering, timeouts, producer>>

(* Mutant of PublishDeadline: the deadline is not stored.                  *)
PublishNothing(c) ==
  /\ call[c].at = "publish"
  /\ Returns(c)
  /\ UNCHANGED <<gatev, past, workv, queues, query, lingering, timeouts, producer>>

PublishDeadline(c) ==
  /\ call[c].at = "publish"
  /\ stored' = IF call[c].deadline = None THEN None
               ELSE [gen |-> call[c].gen, deadline |-> call[c].deadline]
  /\ Returns(c)
  /\ UNCHANGED <<gate, past, workv, queues, query, lingering, timeouts, producer>>

(* What ends with the gate closed: a stop, the clear of a stopped session, *)
(* a reset.                                                                *)
EndClosed(c) ==
  /\ call[c].at = "end"
  /\ stored' = None
  /\ Returns(c)
  /\ UNCHANGED <<gate, past, workv, queues, query, lingering, timeouts, producer>>

(* LIFECYCLE_TIMEOUT.  A quiescence wait goes on without its operation;    *)
(* what was sent stays sent, and nobody hears the answer.                  *)
Orphaned(item, c) == IF item.from = c THEN [item EXCEPT !.from = None] ELSE item

TimesOut(c) ==
  /\ call[c].at \in {"lock", "quiesce", "replay", "send", "ack"}
  /\ timeouts < MaxTimeouts /\ timeouts' = timeouts + 1
  /\ lingering' = (lingering \/ call[c].at = "quiesce")
  /\ ingress' = [i \in 1..Len(ingress) |-> Orphaned(ingress[i], c)]
  /\ urgent' = [i \in 1..Len(urgent) |-> Orphaned(urgent[i], c)]
  /\ hand' = Orphaned(hand, c)
  /\ Fails(c)
  /\ UNCHANGED <<gatev, past, session, worker, query, producer>>

LingersNoMore ==
  /\ lingering /\ gate.closed /\ Leased = {}
  /\ lingering' = FALSE
  /\ UNCHANGED <<gatev, past, workv, queues, query, call, timeouts, failed, producer>>

Operate(c) ==
  \/ ShutGate(c) \/ Quiesce(c) \/ AdvanceFor(c) \/ TakeReplayLock(c)
  \/ ReadGeneration(c) \/ SendOrdered(c) \/ SendUrgent(c) \/ Open(c) \/ PublishDeadline(c) \/ EndClosed(c)

-----------------------------------------------------------------------------
(* The worker.                                                             *)

Opens(from, gen, profile, deadline) ==
  /\ call' = IF from = None THEN call
             ELSE [call EXCEPT ![from] = [op |-> @.op, at |-> "open", gen |-> gen,
                                          profile |-> profile, deadline |-> deadline,
                                          epoch |-> worker.epoch]]
  /\ UNCHANGED failed

Ends(from) ==
  /\ call' = IF from = None THEN call ELSE [call EXCEPT ![from].at = "end"]
  /\ UNCHANGED failed

(* An operation that hears a refusal returns with it.                      *)
Refuses(callers) ==
  /\ call' = [c \in Callers |-> IF c \in callers THEN NoCall ELSE call[c]]
  /\ failed' = (failed \/ callers \ {None} # {})

(* A privacy boundary has been carried out for somebody who waits: what it *)
(* leaves behind is old.                                                   *)
Old(ages) == IF ages = {} THEN {} ELSE {"old"}

PastBoundary(from) ==
  IF from = None THEN UNCHANGED producer
  ELSE producer' = [p \in Producers |-> IF producer[p].at = "sending"
                                        THEN [producer[p] EXCEPT !.age = "old"] ELSE producer[p]]

OldQuery(from)   == IF from = None THEN query ELSE [query EXCEPT !.shown = Old(@)]
OldSession(from) == IF from = None THEN session ELSE [session EXCEPT !.held = Old(@), !.ring = Old(@)]
OldItems(from)   == IF from = None THEN ingress
                    ELSE [i \in 1..Len(ingress) |-> [ingress[i] EXCEPT !.age = "old"]]

Unboxes(kind) ==
  /\ worker.at = "ready" /\ urgent # <<>> /\ Head(urgent).kind = kind
  /\ urgent' = Tail(urgent)

WorkerStarts ==
  /\ Unboxes("start")
  /\ LET u == Head(urgent) IN
     IF session.state = "off" /\ gate.gen = u.gen
     THEN /\ session' = [NoSession EXCEPT !.state = "capturing", !.gen = u.gen]
          /\ Opens(u.from, u.gen, "Normal", None)
     ELSE Refuses({u.from}) /\ UNCHANGED session
  /\ UNCHANGED <<gatev, past, worker, hand, ingress, query, lingering, timeouts, producer>>

WorkerResumes ==
  /\ Unboxes("resume")
  /\ LET u == Head(urgent) IN
     IF session.state = "stopped" /\ gate.gen = u.gen
     THEN /\ session' = [session EXCEPT !.state = "capturing", !.profile = "Normal", !.gen = u.gen]
          /\ Opens(u.from, u.gen, "Normal", None)
     ELSE Refuses({u.from}) /\ UNCHANGED session
  /\ UNCHANGED <<gatev, past, worker, hand, ingress, query, lingering, timeouts, producer>>

(* Everything of the session goes, and with it whatever is still queued.   *)
WorkerResets ==
  /\ Unboxes("reset")
  /\ LET u == Head(urgent) IN
     IF gate.gen = u.gen /\ gate.closed
     THEN /\ session' = NoSession /\ stored' = None
          /\ ingress' = <<>>
          /\ query' = IF query.at = "queued" THEN NoQuery ELSE OldQuery(u.from)
          /\ PastBoundary(u.from)
          /\ LET unheard == {ingress[i].from : i \in 1..Len(ingress)} IN
             /\ call' = [c \in Callers |-> IF c = u.from THEN [call[c] EXCEPT !.at = "end"]
                                           ELSE IF c \in unheard THEN NoCall ELSE call[c]]
             /\ failed' = (failed \/ unheard \ {None} # {})
     ELSE Refuses({u.from}) /\ UNCHANGED <<session, stored, ingress, query, producer>>
  /\ UNCHANGED <<gate, past, worker, hand, lingering, timeouts>>

Takes(kinds) ==
  /\ worker.at = "ready" /\ urgent = <<>> /\ ingress # <<>> /\ Head(ingress).kind \in kinds
  /\ ingress' = Tail(ingress)

(* process_draft: the coalescer holds the draft, or lets go of what it has *)
(* held, or of both.                                                       *)
Coalesced(age) ==
  { [session EXCEPT !.held = @ \union {age}],
    [session EXCEPT !.held = {age}, !.ring = @ \union session.held],
    [session EXCEPT !.held = {}, !.ring = @ \union session.held \union {age}] }

WorkerRecords ==
  /\ Takes({"draft"})
  /\ LET d == Head(ingress) IN
     IF session.state = "capturing" /\ d.gen = session.gen /\ d.profile = session.profile
     THEN session' \in Coalesced(d.age)
     ELSE UNCHANGED session
  /\ UNCHANGED <<gatev, past, worker, hand, urgent, query, callv, producer>>

(* process_barrier: what is checked before the barrier is worked on.       *)
Current(b) ==
  session.state # "off" /\ gate.gen = b.gen /\ session.gen = b.gen

Allowed(b) ==
  CASE b.kind = "stop" -> session.state = "capturing"
    [] b.kind = "clear" -> session.profile = "Normal" => b.deadline = None
    [] OTHER -> session.state = "capturing" /\ (b.profile = "Normal" => b.deadline = None)

(* flush_coalescer.                                                        *)
Flushed == [session EXCEPT !.held = {}, !.ring = @ \union session.held]

WorkerRefuses ==
  /\ Takes({"stop", "clear", "profile"})
  /\ ~(Current(Head(ingress)) /\ Allowed(Head(ingress)))
  /\ Refuses({Head(ingress).from})
  /\ UNCHANGED <<gatev, past, workv, urgent, query, lingering, timeouts, producer>>

WorkerStops ==
  /\ Takes({"stop"})
  /\ Current(Head(ingress)) /\ Allowed(Head(ingress))
  /\ session' = [Flushed EXCEPT !.state = "stopped"]
  /\ Ends(Head(ingress).from)
  /\ UNCHANGED <<gatev, past, worker, hand, urgent, query, lingering, timeouts, producer>>

(* A clear or a change of profile has been checked; the advance of the     *)
(* generation is a step of its own.                                        *)
WorkerChecks ==
  /\ Takes({"clear", "profile"})
  /\ Current(Head(ingress)) /\ Allowed(Head(ingress))
  /\ session' = IF Head(ingress).kind = "profile" THEN Flushed ELSE session
  /\ hand' = Head(ingress)
  /\ worker' = [worker EXCEPT !.at = "advance"]
  /\ UNCHANGED <<gatev, past, urgent, query, callv, producer>>

WorkerAdvances(kind) ==
  /\ worker.at = "advance" /\ hand.kind = kind
  /\ worker' = [worker EXCEPT !.at = "ready"] /\ hand' = NoItem

(* Mutant of Discarded: what the coalescer holds stays.                    *)
DiscardedButHeld(s) == [s EXCEPT !.ring = {}]

(* discard_pending and ring.clear.                                         *)
Discarded(s) == [s EXCEPT !.held = {}, !.ring = {}]

WorkerClears ==
  /\ WorkerAdvances("clear")
  /\ IF CanAdvance
     THEN /\ gate' = Advanced
          /\ session' = [Discarded(OldSession(hand.from)) EXCEPT !.gen = gate.gen + 1]
          /\ ingress' = OldItems(hand.from) /\ query' = OldQuery(hand.from)
          /\ PastBoundary(hand.from)
          /\ IF session.state = "capturing"
             THEN Opens(hand.from, gate.gen + 1, session.profile, hand.deadline)
             ELSE Ends(hand.from)
     ELSE Refuses({hand.from}) /\ UNCHANGED <<gate, session, ingress, query, producer>>
  /\ UNCHANGED <<stored, past, urgent, lingering, timeouts>>

WorkerChangesProfile ==
  /\ WorkerAdvances("profile")
  /\ IF CanAdvance
     THEN /\ gate' = Advanced
          /\ session' = [session EXCEPT !.profile = hand.profile, !.gen = gate.gen + 1]
          /\ Opens(hand.from, gate.gen + 1, hand.profile, hand.deadline)
     ELSE Refuses({hand.from}) /\ UNCHANGED <<gate, session>>
  /\ UNCHANGED <<stored, past, queues, query, lingering, timeouts, producer>>

(* on_tick, once the coalescer's event is due.                             *)
WorkerTicks ==
  /\ worker.at = "ready" /\ urgent = <<>> /\ session.state = "capturing" /\ session.held # {}
  /\ session' = Flushed
  /\ UNCHANGED <<gatev, past, worker, hand, queues, query, callv, producer>>

(* A panic takes the session and what the worker has in hand.              *)
WorkerPanics ==
  /\ worker.at \in {"ready", "advance"}
  /\ \/ Refuses({hand.from}) /\ UNCHANGED queues
     \/ /\ hand = NoItem /\ urgent # <<>>
        /\ Refuses({Head(urgent).from}) /\ urgent' = Tail(urgent) /\ UNCHANGED ingress
     \/ /\ hand = NoItem /\ urgent = <<>> /\ ingress # <<>>
        /\ Refuses({Head(ingress).from}) /\ ingress' = Tail(ingress) /\ UNCHANGED urgent
  /\ session' = NoSession /\ hand' = NoItem
  /\ worker' = [worker EXCEPT !.at = "panicked"]
  /\ UNCHANGED <<gatev, past, query, lingering, timeouts, producer>>

(* Mutant of RejectAll: the queues are emptied and nobody hears of it.     *)
RejectNobody ==
  /\ ingress' = <<>> /\ urgent' = <<>>
  /\ query' = IF query.at = "queued" THEN NoQuery ELSE query
  /\ UNCHANGED <<call, failed>>

(* reject_all: whoever waits for an answer hears of the end.               *)
RejectAll ==
  /\ ingress' = <<>> /\ urgent' = <<>>
  /\ query' = IF query.at = "queued" THEN NoQuery ELSE query
  /\ Refuses({c \in Callers : call[c].at = "ack"})

SupervisorShuts ==
  /\ worker.at = "panicked"
  /\ gate' = Shut
  /\ IF gate.gen < MaxGeneration
     THEN /\ stored' = None
          /\ worker' = [worker EXCEPT !.at = "drain"]
          /\ UNCHANGED <<queues, query, call, failed>>
     ELSE RejectAll /\ worker' = [worker EXCEPT !.at = "gone"] /\ UNCHANGED stored
  /\ UNCHANGED <<past, session, hand, lingering, timeouts, producer>>

SupervisorRecovers ==
  /\ worker.at = "drain" /\ Leased = {}
  /\ RejectAll
  /\ worker' = IF worker.epoch < MaxEpoch THEN [at |-> "ready", epoch |-> worker.epoch + 1]
               ELSE [worker EXCEPT !.at = "gone"]
  /\ UNCHANGED <<gatev, past, session, hand, lingering, timeouts, producer>>

-----------------------------------------------------------------------------
(* A replay: replay_for_ipc holds the replay lock until its answer is      *)
(* serialized.  The lock is fair: nobody passes a writer that waits.       *)

AskReplay ==
  /\ query.at = "idle" /\ worker.at # "gone"
  /\ \A c \in Holding : call[c].op \in {"clear", "reset"} => call[c].at = "quiesce"
  /\ query' = [NoQuery EXCEPT !.at = "queued"]
  /\ UNCHANGED <<gatev, past, workv, queues, callv, producer>>

WorkerAnswers ==
  /\ query.at = "queued" /\ worker.at = "ready" /\ urgent = <<>>
  /\ query' = [at |-> "answered", shown |-> session.ring]
  /\ UNCHANGED <<gatev, past, workv, queues, callv, producer>>

(* The answer is serialized, or the query has timed out.                   *)
EndReplay ==
  /\ query.at \in {"queued", "answered"}
  /\ query' = NoQuery
  /\ UNCHANGED <<gatev, past, workv, queues, callv, producer>>

Work ==
  \/ WorkerStarts \/ WorkerResumes \/ WorkerResets \/ WorkerRecords \/ WorkerRefuses
  \/ WorkerStops \/ WorkerChecks \/ WorkerClears \/ WorkerChangesProfile
  \/ SupervisorShuts \/ SupervisorRecovers

TimePasses(d) ==
  /\ d \in (InUse \ {None}) \ past
  /\ past' = past \union {d}
  /\ UNCHANGED <<gatev, workv, queues, query, callv, producer>>

Next ==
  \/ \E p \in Producers : Enter(p) \/ Records(p)
  \/ Request \/ RequestTrace \/ RequestReset
  \/ \E c \in Callers : Expire(c) \/ TakeLock(c) \/ Operate(c) \/ TimesOut(c)
  \/ LingersNoMore \/ Work \/ WorkerTicks \/ WorkerPanics
  \/ AskReplay \/ WorkerAnswers \/ EndReplay
  \/ \E d \in Deadlines : TimePasses(d)

Spec == Init /\ [][Next]_vars

-----------------------------------------------------------------------------
Generations == 0..MaxGeneration
Limits      == Deadlines \union {None}

Gates     == [closed : BOOLEAN, gen : Generations, profile : Profiles, deadline : Limits,
              of : Generations]
Sessions  == [state : {"off", "capturing", "stopped"}, profile : Profiles, gen : Generations,
              held : SUBSET Ages, ring : SUBSET Ages]
Workers   == [at : {"ready", "advance", "panicked", "drain", "gone"}, epoch : 1..MaxEpoch]
Items     == [kind : {"none", "draft", "start", "stop", "resume", "clear", "profile", "reset"},
              gen : Generations, profile : Profiles, deadline : Limits, age : Ages,
              from : Callers \union {None}]
Leases    == [at : {"idle", "read", "counted", "leased", "closing", "sending"}, gen : Generations,
              profile : Profiles, deadline : Limits, age : Ages]
Calls     == [op : {"none", "start", "stop", "resume", "clear", "profile", "expire", "reset"},
              at : {"idle", "shut", "lock", "quiesce", "advance", "replay", "read", "send", "ack",
                    "open", "publish", "end"},
              gen : Generations, profile : Profiles, deadline : Limits, epoch : 0..MaxEpoch]
Queries   == [at : {"idle", "queued", "answered"}, shown : SUBSET Ages]

TypeOK ==
  /\ gate \in Gates /\ stored \in [gen : Generations, deadline : Deadlines] \union {None}
  /\ past \subseteq Deadlines
  /\ session \in Sessions /\ worker \in Workers /\ hand \in Items
  /\ ingress \in Seq(Items) /\ urgent \in Seq(Items) /\ query \in Queries
  /\ call \in [Callers -> Calls] /\ lingering \in BOOLEAN
  /\ timeouts \in Nat /\ failed \in BOOLEAN
  /\ producer \in [Producers -> Leases]

(* Nothing admitted before an acknowledged reset or clear, and nothing     *)
(* whose origin a reset has made stale, is in the worker's session, in a   *)
(* batch for the user interface or in an answer that is being serialized   *)
(* afterwards (lifecycle.rs, hard_reset and clear).                        *)
NothingSurvives == "old" \notin session.held \union session.ring \union query.shown

(* A lease has the profile and the deadline that were published with its   *)
(* generation, and they are not written while it lives (gate.rs, the       *)
(* safety comments of the slot).                                           *)
LeaseOfItsGeneration ==
  \A p \in Producers :
    producer[p].at \in {"leased", "sending"} =>
      /\ gate.of = producer[p].gen
      /\ gate.profile = producer[p].profile /\ gate.deadline = producer[p].deadline

(* While the gate is open the worker has a session that takes what it lets *)
(* in: same generation, same profile, capturing; unless the worker has     *)
(* just panicked.                                                          *)
OpenMatchesSession ==
  ~gate.closed /\ worker.at # "panicked" =>
    /\ session.state = "capturing" /\ session.gen = gate.gen
    /\ session.profile = gate.profile

(* A capture does not stop silently: if the session is capturing, no       *)
(* operation is under way and the gate is closed, then an operation has    *)
(* reported a failure since the gate was open, or a Trace is past its      *)
(* deadline and will be found due.                                         *)
NoSilentStop ==
  session.state = "capturing" /\ Holding = {} /\ gate.closed /\ worker.at = "ready"
    /\ (\A c \in Callers : call[c].op # "reset")
    => failed \/ Due

(* Whoever waits for an answer of the worker will get one: the command is  *)
(* still queued or in the worker's hands, through resets that empty the    *)
(* queue, panics and recoveries (worker.rs, drain_ingress and reject_all). *)
AnswerComes ==
  \A c \in Callers :
    call[c].at = "ack" =>
      \/ worker.at \in {"panicked", "drain"}
      \/ hand.from = c
      \/ \E i \in 1..Len(ingress) : ingress[i].from = c
      \/ \E i \in 1..Len(urgent) : urgent[i].from = c

(* From its first step on, a reset keeps the gate closed: an open can only *)
(* come before it, or fails as stale (gate.rs, open_if_generation).        *)
ResetStaysShut ==
  \A c \in Callers :
    call[c].op = "reset" /\ call[c].at \in {"lock", "quiesce", "replay", "send", "ack"} =>
      gate.closed
=============================================================================
