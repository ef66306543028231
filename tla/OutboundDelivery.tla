-------------------------- MODULE OutboundDelivery --------------------------
(***************************************************************************)
(* Delivering a message (crates/ratspeak-runtime/src/lxmf.rs with          *)
(* lxmf/packet_delivery.rs and lxmf/preparation.rs, the client loop of     *)
(* lib.rs, cancel_lxmf_message of the messaging commands).                 *)
(*                                                                         *)
(* A message is handed from one owner to the next: the router's queue, a   *)
(* link, a packet in flight with the proofs of earlier packets, and, for   *)
(* one that was sent by Auto and failed live, once the propagation node.   *)
(* All owners are inside the manager, under its lock.  What they report is *)
(* stored, shown and timed afterwards, without the lock, by the client     *)
(* loop, while the user cancels, proofs arrive on a task of their own and  *)
(* a watchdog ends what nobody answers for.                                *)
(*                                                                         *)
(* Router, link manager and transport are libraries: the router decides    *)
(* when a message is due, a link or a packet ends in any of its ways, and  *)
(* a queue that is full refuses.  One handler is an operator from the      *)
(* owners of a message to the owners it may leave and the step it reports. *)
(***************************************************************************)
EXTENDS Naturals, FiniteSets, Sequences

CONSTANTS
  Messages,      \* the messages of the session; each is sent at most once
  MaxAttempts,   \* MAX_DELIVERY_ATTEMPTS
  MaxPackets     \* bound: packets sent for one message

ASSUME DeliveryAssumption ==
  /\ MaxAttempts \in Nat
  /\ MaxPackets \in Nat

VARIABLES
  own,       \* the manager's owners of each message
  at,        \* where the client loop is
  full,      \* the turn is a whole tick, not a wake for delivery only
  visit,     \* messages the stage of the tick has yet to visit
  report,    \* steps of the tick that are not stored yet
  accepted,  \* steps of the tick the database accepted
  late,      \* messages the watchdog is ending
  cancel,    \* the cancel command of each message
  proving,   \* messages the proof task completed and has yet to store
  row,       \* state of the message's row
  clock,     \* message_send_times, and whether it is beyond the limit
  reached,   \* where copies of the message arrived
  told       \* the last step the user interface was told

loopv == <<at, full, visit, report, accepted, late>>
taskv == <<cancel, proving>>
uiv   == <<told>>
vars  == <<own, at, full, visit, report, accepted, late, cancel, proving, row,
           clock, reached, told>>

Live     == {"direct", "opportunistic"}
Packets  == 1..MaxPackets
Terminal == {"delivered", "propagated", "failed", "rejected", "cancelled", "timeout"}
Ends     == {"delivered", "propagated", "failed", "rejected"}
Places   == {"recipient", "node"}

(* What the manager holds of one message.                                  *)
Owners ==
  [method    : Live \union {"propagated"},
   tries     : 0..(MaxAttempts + 1),                   \* delivery_attempts
   queued    : BOOLEAN,                                \* router.pending_outbound
   discovery : {"none", "waiting", "expired"},         \* live_preparation
   link      : {"none", "open", "complete", "rejected", "failed"},
   reused    : BOOLEAN,                                \* it had an idle link (bound: once)
   to        : Places,                                 \* where the link leads
   deposit   : BOOLEAN,                                \* in_flight_propagation
   flying    : 0..MaxPackets,                          \* opportunistic_in_flight
   proofs    : [Packets -> {"unused", "queued", "out", "refused", "proved",
                            "over", "gone"}],          \* opportunistic_proofs
   fallback  : BOOLEAN,                                \* auto_live_fallback
   converted : 0..2]                                   \* times it went to the node instead

Nothing ==
  [method |-> "direct", tries |-> 0, queued |-> FALSE, discovery |-> "none",
   link |-> "none", reused |-> FALSE, to |-> "recipient", deposit |-> FALSE, flying |-> 0,
   proofs |-> [p \in Packets |-> "unused"], fallback |-> FALSE, converted |-> 0]

Stages == <<"proofs", "retry", "backchannel", "prepare", "outbound", "links">>
Locked == {Stages[i] : i \in 1..Len(Stages)}
After(stage) == CHOOSE i \in 2..(Len(Stages) + 1) : Stages[i - 1] = stage

Init ==
  /\ own = [m \in Messages |-> Nothing]
  /\ at = "idle" /\ full = FALSE /\ visit = {} /\ report = <<>>
  /\ accepted = {} /\ late = {}
  /\ cancel = [m \in Messages |-> "none"] /\ proving = {}
  /\ row = [m \in Messages |-> "none"]
  /\ clock = [m \in Messages |-> "off"]
  /\ reached = [m \in Messages |-> {}]
  /\ told = [m \in Messages |-> "none"]

-----------------------------------------------------------------------------
(* The handlers: each maps owners to the set of outcomes it may have.      *)
Outcome(o, step) == [own |-> o, step |-> step]

HasProofs(o) == \E p \in Packets : o.proofs[p] \notin {"unused", "gone"}
NoProofs(o)  == [p \in Packets |-> IF o.proofs[p] = "unused" THEN "unused" ELSE "gone"]
Held(o) == o.queued \/ o.link # "none" \/ o.flying # 0 \/ o.deposit \/ HasProofs(o)

(* clear_auto_live_fallback.                                               *)
Unbound(o) == [o EXCEPT !.fallback = FALSE, !.discovery = "none"]

(* queue_router_message: a router that refuses is only logged.             *)
Requeued(o) == {[o EXCEPT !.queued = TRUE], [o EXCEPT !.queued = FALSE]}
Kept(o)     == IF o.queued THEN {o} ELSE Requeued(o)
Refunded(o) == [o EXCEPT !.tries = IF @ = 0 THEN 0 ELSE @ - 1]
Spent(o)    == [o EXCEPT !.tries = IF @ > MaxAttempts THEN @ ELSE @ + 1]

(* push_failed_outbound_state.                                             *)
Failed(o) == Outcome(Unbound(o), "failed")

(* pack_message_for_propagation: a worker prepares the envelope meanwhile. *)
Envelope == {"packed", "pending", "failed"}

(* Wait for the node's timing, route, key or policy.                       *)
Deferred(o) == {Outcome(r, "none") : r \in Requeued(o)}

(* start_propagation_delivery.  An envelope that is not ready yet spends   *)
(* no attempt.                                                             *)
Deposit(o, envelope) ==
  CASE envelope = "packed" ->
         {Outcome([o EXCEPT !.link = "open", !.to = "node", !.deposit = TRUE], "moving"),
          Outcome(o, "failed")}
    [] envelope = "pending" -> Deferred(Refunded(o))
    [] OTHER                -> {Outcome(o, "failed")}
StartPropagation(o) == Deferred(o) \union UNION {Deposit(o, e) : e \in Envelope}

ToNode(o) ==
  [Unbound(o) EXCEPT !.method = "propagated", !.tries = 0,
                     !.converted = IF @ = 2 THEN 2 ELSE @ + 1]

(* Mutant of GiveUp: the fallback is not used up.                          *)
GiveUpAgain(o) ==
  {Failed(o)} \union
  (IF o.fallback
   THEN StartPropagation([ToNode(o) EXCEPT !.fallback = TRUE])
   ELSE {})

(* try_auto_propagation_fallback; it fails without a node, or without the  *)
(* fallback.                                                               *)
GiveUp(o) ==
  {Failed(o)} \union (IF o.fallback THEN StartPropagation(ToNode(o)) ELSE {})

(* start_direct_link_delivery_with_results.  A failure that can be retried *)
(* is deferred or queued again; when the queue refuses, it has failed.     *)
StartLink(o) ==
  UNION {{Outcome([o EXCEPT !.link = "open", !.to = "recipient"], "moving")},
         IF o.tries < MaxAttempts
         THEN {Outcome([o EXCEPT !.queued = TRUE], "moving")} ELSE {},
         GiveUp([o EXCEPT !.queued = FALSE])}

(* The recipient's own link to us is up: start_backchannel_delivery.       *)
Backchannel(o) ==
  {Outcome([Spent(o) EXCEPT !.link = "open", !.to = "recipient"], "moving")}

(* A direct delivery, of which the router may keep its copy, or an         *)
(* opportunistic one that does not fit a packet.                           *)
PlanDirect(o) ==
  IF o.link # "none"
  THEN {Outcome(k, "moving") : k \in Kept(o)}               \* WaitForReusableLink
  ELSE UNION {{Outcome(k, "moving") : k \in Kept(o)},       \* another message's link
              IF o.reused THEN {}                           \* UseReusableLink
              ELSE LET again == [o EXCEPT !.reused = TRUE]
                   IN  Backchannel(again) \union StartLink(again),
              IF o.tries < MaxAttempts
              THEN {Outcome(k, s) : k \in Kept(Spent(o)),   \* RequestPath
                                    s \in {"none", "moving"}}
                   \union StartLink(Spent(o))               \* StartNewLink
              ELSE {Outcome(k, "none") : k \in Kept(Spent(o))},   \* DeferTerminalFailure
              {Outcome([o EXCEPT !.queued = FALSE], "failed")}}   \* Fail

(* dispatch_opportunistic_packet; without room to send, another time.      *)
Dispatched(o) ==
  {Outcome([Spent(o) EXCEPT !.flying = p, !.proofs[p] = "queued"], "moving") :
     p \in {q \in Packets : /\ o.proofs[q] = "unused"
                            /\ \A r \in 1..(q - 1) : o.proofs[r] # "unused"}}
  \union {Outcome(r, "moving") : r \in Requeued(o)}

(* After a few tries without a path, look for one.                         *)
Escalated(o) == {Outcome(r, "moving") : r \in Requeued(Spent(o))}

(* The recipient's key is unknown, or the message cannot be packed.        *)
Unpacked(o) == {Outcome(r, "none") : r \in Requeued(Spent(o))} \union {Failed(o)}

(* An opportunistic message that does not fit is sent over a link.         *)
DeliverOpportunistic(o) ==
  UNION {Escalated(o), Unpacked(o), PlanDirect(o), Dispatched(o)}

(* The router's turn for a message that is due.  No budget or expiry ends  *)
(* one that a link carries: the link or the watchdog does, before.         *)
Deliver(o) ==
  LET taken == [o EXCEPT !.queued = FALSE]
  IN  UNION {IF o.link = "none" THEN {Failed(taken)} ELSE {},   \* Expired
             IF o.tries > MaxAttempts /\ o.link = "none" THEN GiveUp(taken)  \* Failed
             ELSE CASE o.method = "direct" -> PlanDirect(o)
                    [] o.method = "opportunistic" -> DeliverOpportunistic(taken)
                    [] OTHER -> StartPropagation(Spent(taken))}

(* prepare_live_outbound: wait for the recipient's key and route for a     *)
(* limited time before the first attempts; Auto chooses the method again,  *)
(* direct when there is a link.                                            *)
Prepare(o) ==
  LET auto  == o.fallback /\ o.tries = 0
      ready == [o EXCEPT !.discovery = "none"]
  IN  IF ~o.queued \/ o.method \notin Live \/ o.tries > MaxAttempts
      THEN {Outcome(o, "none")}
      ELSE IF o.link # "none"
      THEN {Outcome([ready EXCEPT !.method = IF auto THEN "direct" ELSE @], "none")}
      ELSE UNION
        {{Outcome([ready EXCEPT !.method = how], "none") :
            how \in IF auto THEN Live ELSE {o.method}},
         CASE o.discovery = "none" ->
                {Outcome([o EXCEPT !.discovery = "waiting"], "moving")}
           [] o.discovery = "waiting" -> {Outcome(o, "none")}
           [] OTHER -> GiveUp([ready EXCEPT !.queued = FALSE])}

(* Mutant of Completed: the router keeps its copy.                         *)
CompletedQueued(o) ==
  [Unbound(o) EXCEPT !.proofs = NoProofs(o), !.flying = 0, !.link = "none",
                     !.deposit = FALSE]

(* complete_opportunistic_delivery: one authenticated proof ends every     *)
(* owner.                                                                  *)
Completed(o) ==
  [Unbound(o) EXCEPT !.proofs = NoProofs(o), !.flying = 0, !.queued = FALSE,
                     !.link = "none", !.deposit = FALSE]

(* poll_opportunistic_proofs: a proof first; a packet an interface refused *)
(* is refunded only when it is the one in flight.                          *)
PollProofs(o) ==
  LET refused == {p \in Packets : o.proofs[p] = "refused"}
      dropped == [o EXCEPT !.proofs = [p \in Packets |->
                    IF p \in refused THEN "gone" ELSE @[p]]]
  IN  IF \E p \in Packets : o.proofs[p] = "proved"
      THEN {Outcome(Completed(o), "delivered")}
      ELSE IF o.flying \in refused
      THEN {Outcome(r, "moving") : r \in Requeued([Refunded(dropped) EXCEPT !.flying = 0])}
      ELSE {Outcome(dropped, "none")}

(* retry_due_opportunistic_deliveries.                                     *)
RetryDue(o) ==
  IF o.flying = 0 THEN {Outcome(o, "none")}
  ELSE {Outcome(o, "none"),
        Outcome([o EXCEPT !.flying = 0, !.queued = TRUE], "none"),
        Failed([o EXCEPT !.flying = 0])}

(* Mutant of LinkComplete: every link is taken to lead to the recipient.   *)
LinkCompleteAsDelivered(o) ==
  {Outcome([Completed(o) EXCEPT !.deposit = FALSE], "delivered")}

(* handle_link_delivery_result.  A deposit confirms storage on the node,   *)
(* not delivery.                                                           *)
LinkComplete(o) ==
  {Outcome([Completed(o) EXCEPT !.queued = o.queued /\ o.deposit],
           IF o.deposit THEN "propagated" ELSE "delivered")}

LinkRejected(o) ==
  LET free == [Unbound(o) EXCEPT !.link = "none", !.deposit = FALSE]
  IN  IF o.deposit THEN {Outcome(free, "failed")}
      ELSE {Outcome([free EXCEPT !.queued = FALSE], "rejected")}

(* requeue_or_defer_direct_after_link_failure, then the fallback.          *)
LinkFailed(o) ==
  LET free == [o EXCEPT !.link = "none", !.deposit = FALSE]
  IN  IF o.deposit THEN {Outcome(Unbound(free), "failed")}
      ELSE UNION {IF o.method \in Live /\ o.tries < MaxAttempts
                  THEN {Outcome([free EXCEPT !.queued = TRUE], "moving")} ELSE {},
                  GiveUp([free EXCEPT !.queued = FALSE])}

Concluded(o) ==
  CASE o.link = "complete" -> LinkComplete(o)
    [] o.link = "rejected" -> LinkRejected(o)
    [] o.link = "failed"   -> LinkFailed(o)
    [] OTHER               -> {Outcome(o, "none")}

(* Mutant of Stopped: the packet in flight is forgotten.                   *)
StoppedInFlight(o) ==
  [Unbound(o) EXCEPT !.deposit = FALSE, !.proofs = NoProofs(o),
                     !.link = "none", !.queued = FALSE]

(* cancel_outbound_message.                                                *)
Stopped(o) ==
  [Unbound(o) EXCEPT !.deposit = FALSE, !.flying = 0, !.proofs = NoProofs(o),
                     !.link = "none", !.queued = FALSE]

-----------------------------------------------------------------------------
(* The client loop: a tick under the manager lock, stage after stage.      *)
BeginTick ==
  /\ at = "idle"
  /\ at' = Stages[1] /\ full' = TRUE /\ visit' = Messages
  /\ UNCHANGED <<own, report, accepted, late, taskv, row, clock, reached, uiv>>

(* A link has something to say: process_delivery_events alone.             *)
Wake ==
  /\ at = "idle" /\ \E m \in Messages : own[m].link \notin {"none", "open"}
  /\ at' = "links" /\ full' = FALSE /\ visit' = Messages
  /\ UNCHANGED <<own, report, accepted, late, taskv, row, clock, reached, uiv>>

(* filter_repeated_steps keeps one of a run of equal steps.                *)
Reported(m, step) ==
  IF step = "none" \/ (step = "moving" /\ \E i \in 1..Len(report) : report[i] = <<m, step>>)
  THEN report ELSE Append(report, <<m, step>>)

Next1(m) ==
  IF visit = {m}
  THEN /\ visit' = Messages
       /\ at' = IF at = "links" THEN "persist" ELSE Stages[After(at)]
  ELSE /\ visit' = visit \ {m} /\ UNCHANGED at

Visit(m, outcomes) ==
  /\ m \in visit
  /\ \E result \in outcomes :
       /\ own' = [own EXCEPT ![m] = result.own]
       /\ report' = Reported(m, result.step)
  /\ Next1(m)
  /\ UNCHANGED <<full, accepted, late, taskv, row, clock, reached, uiv>>

Due(o) == o.queued /\ o.discovery # "waiting"

VisitProofs(m)   == at = "proofs" /\ Visit(m, PollProofs(own[m]))
VisitRetry(m)    == at = "retry" /\ Visit(m, RetryDue(own[m]))
VisitLinks(m)    == at \in {"backchannel", "links"} /\ Visit(m, Concluded(own[m]))
VisitPrepare(m)  == at = "prepare" /\ Visit(m, Prepare(own[m]))
VisitDue(m)      == at = "outbound" /\ Due(own[m]) /\ Visit(m, Deliver(own[m]))
VisitNotDue(m)   == at = "outbound" /\ Visit(m, {Outcome(own[m], "none")})

(* Mutant of Transition: a later step overwrites the end of a message.     *)
TransitionAgain(m, step) ==
  IF row[m] # "none" /\ step \in Terminal THEN step ELSE row[m]

(* update_message_state: one-way towards the terminal states.              *)
Transition(m, step) ==
  IF row[m] = "open" /\ step \in Terminal THEN step ELSE row[m]

(* Persist before emit, one step after the other.                          *)
Persist ==
  /\ at = "persist" /\ report # <<>>
  /\ LET m == Head(report)[1]  step == Head(report)[2]
     IN  /\ row' = [row EXCEPT ![m] = Transition(m, step)]
         /\ accepted' = IF row[m] = "open" THEN accepted \union {<<m, step>>}
                        ELSE accepted
  /\ report' = Tail(report)
  /\ UNCHANGED <<own, at, full, visit, late, taskv, clock, reached, uiv>>

(* What was accepted is shown and starts or ends clocks; the progress of a *)
(* link starts one as well, whatever the row says.                         *)
Emit ==
  /\ at = "persist" /\ report = <<>>
  /\ \E progress \in SUBSET {m \in Messages : row[m] # "none"} :
       clock' = [m \in Messages |->
         LET ended == \E step \in Ends : <<m, step>> \in accepted IN
         CASE clock[m] = "off" /\ (m \in progress \/ (<<m, "moving">> \in accepted /\ ~ended))
                -> "running"
           [] clock[m] # "off" /\ ended -> "off"
           [] OTHER -> clock[m]]
  /\ told' = [m \in Messages |->
       IF \E step \in Ends : <<m, step>> \in accepted
       THEN CHOOSE step \in Ends : <<m, step>> \in accepted
       ELSE told[m]]
  /\ accepted' = {} /\ visit' = {}
  /\ at' = IF full THEN "watch" ELSE "idle"
  /\ UNCHANGED <<own, full, report, late, taskv, row, reached>>


(* has_bounded_protocol_wait.                                              *)
Protected(o) ==
  \/ o.queued /\ o.discovery = "waiting"
  \/ \E p \in Packets : o.proofs[p] \in {"queued", "out", "proved"}
  \/ o.link = "open"

(* check_message_timeouts: the clocks go first, then the rows, then the    *)
(* owners of the rows that changed.                                        *)
Watch ==
  /\ at = "watch"
  /\ late' = {m \in Messages : clock[m] = "due" /\ ~Protected(own[m])}
  /\ clock' = [m \in Messages |-> IF m \in late' THEN "off" ELSE clock[m]]
  /\ at' = IF late' = {} THEN "idle" ELSE "stamp"
  /\ UNCHANGED <<own, full, visit, report, accepted, taskv, row, reached, uiv>>

Stamp ==
  /\ at = "stamp"
  /\ row' = [m \in Messages |-> IF m \in late THEN Transition(m, "timeout") ELSE row[m]]
  /\ late' = {m \in late : row[m] = "open"}
  /\ at' = "stop"
  /\ UNCHANGED <<own, full, visit, report, accepted, taskv, clock, reached, uiv>>

StopLate ==
  /\ at = "stop"
  /\ own' = [m \in Messages |-> IF m \in late THEN Stopped(own[m]) ELSE own[m]]
  /\ told' = [m \in Messages |-> IF m \in late THEN "timeout" ELSE told[m]]
  /\ late' = {} /\ at' = "idle"
  /\ UNCHANGED <<full, visit, report, accepted, taskv, row, clock, reached>>

-----------------------------------------------------------------------------
(* The other tasks.                                                        *)

(* A send is queued and its row saved under the manager lock.  Auto is the *)
(* preference that may fall back.                                          *)
Send(m, how, auto) ==
  /\ at \notin Locked /\ row[m] = "none"
  /\ auto => how \in Live
  /\ own' = [own EXCEPT ![m] = [Nothing EXCEPT !.method = how, !.queued = TRUE,
                                               !.fallback = auto]]
  /\ row' = [row EXCEPT ![m] = "open"]
  /\ UNCHANGED <<loopv, taskv, clock, reached, uiv>>

(* cancel_canonical_lxmf_message: the owners, then the row.  The command   *)
(* answers, and tells the user interface, when either of them was stopped. *)
CancelOwners(m) ==
  /\ at \notin Locked /\ row[m] # "none" /\ cancel[m] = "none"
  /\ own' = [own EXCEPT ![m] = Stopped(@)]
  /\ cancel' = [cancel EXCEPT ![m] = IF Held(own[m]) THEN "live" ELSE "dead"]
  /\ UNCHANGED <<loopv, proving, row, clock, reached, uiv>>

CancelRow(m) ==
  /\ cancel[m] \in {"live", "dead"}
  /\ row' = [row EXCEPT ![m] = Transition(m, "cancelled")]
  /\ IF cancel[m] = "live" \/ row[m] = "open"
     THEN /\ clock' = [clock EXCEPT ![m] = "off"]
          /\ told' = [told EXCEPT ![m] = "cancelled"]
     ELSE UNCHANGED <<clock, told>>
  /\ cancel' = [cancel EXCEPT ![m] = "done"]
  /\ UNCHANGED <<own, loopv, proving, reached>>

(* complete_authenticated_lxmf_delivery_proof.                             *)
ProofCompletes(m) ==
  /\ at \notin Locked /\ m \notin proving
  /\ "recipient" \in reached[m] /\ HasProofs(own[m])
  /\ own' = [own EXCEPT ![m] = Completed(@)]
  /\ proving' = proving \union {m}
  /\ UNCHANGED <<loopv, cancel, row, clock, reached, uiv>>

ProofStored(m) ==
  /\ m \in proving
  /\ row' = [row EXCEPT ![m] = Transition(m, "delivered")]
  /\ IF row[m] = "open"
     THEN /\ clock' = [clock EXCEPT ![m] = "off"]
          /\ told' = [told EXCEPT ![m] = "delivered"]
     ELSE UNCHANGED <<clock, told>>
  /\ proving' = proving \ {m}
  /\ UNCHANGED <<own, loopv, cancel, reached>>

(* The process ends and starts again: cleanup_stale_outbound.              *)
Restart ==
  /\ own' = [m \in Messages |-> [Nothing EXCEPT !.converted = own[m].converted]]
  /\ at' = "idle" /\ full' = FALSE /\ visit' = {} /\ report' = <<>>
  /\ accepted' = {} /\ late' = {}
  /\ cancel' = [m \in Messages |-> IF cancel[m] = "none" THEN "none" ELSE "done"]
  /\ proving' = {}
  /\ row' = [m \in Messages |-> Transition(m, "failed")]
  /\ clock' = [m \in Messages |-> "off"]
  /\ told' = [m \in Messages |-> "none"]
  /\ UNCHANGED reached

-----------------------------------------------------------------------------
(* Transport, links and time.                                              *)
PacketSent(m, p) ==
  /\ own[m].proofs[p] = "queued"
  /\ \E sent \in {"out", "refused"} : own' = [own EXCEPT ![m].proofs[p] = sent]
  /\ UNCHANGED <<loopv, taskv, row, clock, reached, uiv>>

(* The recipient has it; its proof arrives, or is lost or late.            *)
PacketArrives(m, p) ==
  /\ own[m].proofs[p] \in {"queued", "out", "over"}
  /\ reached' = [reached EXCEPT ![m] = @ \union {"recipient"}]
  /\ \/ own[m].proofs[p] # "over" /\ own' = [own EXCEPT ![m].proofs[p] = "proved"]
     \/ UNCHANGED own
  /\ UNCHANGED <<loopv, taskv, row, clock, uiv>>

(* The receipt ends without a proof, then the lifetime of the attempt.     *)
PacketEnds(m, p) ==
  /\ \/ /\ own[m].proofs[p] = "out" /\ own' = [own EXCEPT ![m].proofs[p] = "over"]
     \/ /\ own[m].proofs[p] = "over" /\ own[m].flying # p
        /\ own' = [own EXCEPT ![m].proofs[p] = "gone"]
  /\ UNCHANGED <<loopv, taskv, row, clock, reached, uiv>>

(* A transfer that ends in failure may have arrived all the same.          *)
LinkEnds(m) ==
  /\ own[m].link = "open"
  /\ \E how \in {"complete", "rejected", "failed"}, arrived \in BOOLEAN :
       /\ how = "complete" => arrived
       /\ own' = [own EXCEPT ![m].link = how]
       /\ reached' = [reached EXCEPT ![m] =
                        IF arrived THEN @ \union {own[m].to} ELSE @]
  /\ UNCHANGED <<loopv, taskv, row, clock, uiv>>

ClockRuns(m) ==
  /\ clock[m] = "running"
  /\ clock' = [clock EXCEPT ![m] = "due"]
  /\ UNCHANGED <<own, loopv, taskv, row, reached, uiv>>

DiscoveryEnds(m) ==
  /\ own[m].discovery = "waiting"
  /\ own' = [own EXCEPT ![m].discovery = "expired"]
  /\ UNCHANGED <<loopv, taskv, row, clock, reached, uiv>>

-----------------------------------------------------------------------------
Ticking(m) ==
  \/ VisitProofs(m) \/ VisitRetry(m) \/ VisitLinks(m) \/ VisitPrepare(m)
  \/ VisitDue(m) \/ VisitNotDue(m)
Storing == Persist \/ Emit \/ Watch \/ Stamp \/ StopLate
Acting(m) ==
  \/ \E how \in Live \union {"propagated"}, auto \in BOOLEAN : Send(m, how, auto)
  \/ CancelOwners(m) \/ CancelRow(m)
  \/ ProofCompletes(m) \/ ProofStored(m)
Carrying(m) ==
  \/ \E p \in Packets : PacketSent(m, p) \/ PacketArrives(m, p) \/ PacketEnds(m, p)
  \/ LinkEnds(m)
Passing(m) == ClockRuns(m) \/ DiscoveryEnds(m)

Next ==
  \/ BeginTick \/ Wake \/ Storing
  \/ \E m \in Messages : Ticking(m) \/ Acting(m) \/ Carrying(m) \/ Passing(m)
  \/ Restart

Spec == Init /\ [][Next]_vars

(* The ticker wins over every other wake of the loop, the worker of a tick *)
(* returns, commands and the proof task finish what they began, and what   *)
(* is bounded by a timeout ends.                                           *)
Fairness ==
  /\ WF_vars(BeginTick) /\ WF_vars(Storing)
  /\ \A m \in Messages :
       /\ WF_vars(Ticking(m)) /\ SF_vars(VisitDue(m))
       /\ WF_vars(CancelRow(m)) /\ WF_vars(ProofStored(m))
       /\ WF_vars(LinkEnds(m)) /\ WF_vars(ClockRuns(m)) /\ WF_vars(DiscoveryEnds(m))
       /\ \A p \in Packets : WF_vars(PacketSent(m, p)) /\ WF_vars(PacketEnds(m, p))
FairSpec == Spec /\ Fairness

-----------------------------------------------------------------------------
TypeOK ==
  /\ own \in [Messages -> Owners]
  /\ at \in {"idle", "persist", "watch", "stamp", "stop"} \union Locked
  /\ full \in BOOLEAN /\ visit \subseteq Messages
  /\ report \in Seq(Messages \X (Ends \union {"moving"}))
  /\ accepted \subseteq Messages \X (Ends \union {"moving"})
  /\ late \subseteq Messages
  /\ cancel \in [Messages -> {"none", "live", "dead", "done"}]
  /\ proving \subseteq Messages
  /\ row \in [Messages -> Terminal \union {"none", "open"}]
  /\ clock \in [Messages -> {"off", "running", "due"}]
  /\ reached \in [Messages -> SUBSET Places]
  /\ told \in [Messages -> Terminal \union {"none"}]

(* Once the row of a message says how it ended, nobody sends it any more,  *)
(* whichever of the loop, the proof task, the watchdog and the user ended  *)
(* it: it is in no queue, on no link and no packet of it will be retried.  *)
(* The watchdog alone stops the owners after it has stored the end.        *)
NothingAfterTheEnd ==
  \A m \in Messages :
    row[m] \in Terminal /\ m \notin late =>
      ~own[m].queued /\ own[m].link = "none" /\ own[m].flying = 0

(* A message shown as delivered has reached its recipient, and one shown   *)
(* as propagated is on the node, whatever fell back to what meanwhile.     *)
Attributed ==
  \A m \in Messages :
    /\ row[m] = "delivered" => "recipient" \in reached[m]
    /\ row[m] = "propagated" => "node" \in reached[m]

(* A message sent by Auto goes to the node in place of its recipient once, *)
(* however often live deliveries, retries and discoveries of it fail.      *)
FallbackOnce == \A m \in Messages : own[m].converted <= 1


(* Delivery implements the promise of sending: whatever owners hand the    *)
(* message to each other, it only gives ways up, is never taken up again   *)
(* once nobody sends it, and ends once.  The watchdog's end counts from    *)
(* when it has stopped the owners.                                         *)
Doing(o) ==
  IF ~o.queued /\ o.link = "none" /\ o.flying = 0 THEN "nothing"
  ELSE IF o.method = "propagated" THEN "node"
  ELSE IF o.fallback THEN "auto" ELSE "live"
Sending == INSTANCE MessageSending
  WITH state <- [m \in Messages |->
                   IF at = "stop" /\ m \in late THEN "open" ELSE row[m]],
       doing <- [m \in Messages |-> Doing(own[m])],
       arrived <- reached
KeepsPromise == Sending!Spec
=============================================================================
