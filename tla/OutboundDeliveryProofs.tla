------------------------ MODULE OutboundDeliveryProofs ------------------------
(***************************************************************************)
(* What OutboundDelivery promises for every set of messages, every number  *)
(* of attempts and of packets: nobody sends a message that has ended, what *)
(* is shown as delivered arrived, and Auto falls back to the node once.    *)
(***************************************************************************)
EXTENDS OutboundDelivery, SequenceTheorems, TLAPS

-----------------------------------------------------------------------------
(* What holds of the owners of a message.                                  *)

(* A packet in flight is the message's only owner besides the proofs; only *)
(* a direct delivery stays queued while it uses a link; a deposit is made  *)
(* by the propagated method; the fallback is used once.                    *)
Sound(o) ==
  /\ o \in Owners
  /\ o.flying # 0 => ~o.queued /\ o.link = "none"
  /\ o.queued /\ o.link # "none" => o.method = "direct"
  /\ o.deposit => o.method = "propagated"
  /\ o.link # "none" => (o.deposit <=> o.to = "node")
  /\ o.fallback => o.converted = 0
  /\ o.converted \in 0..1

(* What the owners take for delivered has arrived.                         *)
Backed(o, places) ==
  /\ o.link = "complete" => o.to \in places
  /\ \A p \in Packets : o.proofs[p] = "proved" => "recipient" \in places

Fit(o, places) == Sound(o) /\ Backed(o, places)

Idle(o)  == ~o.queued /\ o.link = "none" /\ o.flying = 0
Blank(o) == Idle(o) /\ ~HasProofs(o)

Steps == Ends \union {"moving", "none"}

Good(r, places) ==
  /\ Fit(r.own, places) /\ r.step \in Steps
  /\ r.step \in Ends => Idle(r.own)
  /\ r.step = "delivered" => "recipient" \in places
  /\ r.step = "propagated" => "node" \in places

LEMMA OutcomeGood ==
  ASSUME NEW places, NEW o, Fit(o, places), NEW step \in {"moving", "none", "failed", "rejected"},
         step \in {"failed", "rejected"} => Idle(o)
  PROVE  Good(Outcome(o, step), places)
BY DEF Good, Outcome, Steps, Ends

LEMMA UnboundFit ==
  ASSUME NEW places, NEW o, Fit(o, places)
  PROVE  /\ Fit(Unbound(o), places)
         /\ Unbound(o).queued = o.queued /\ Unbound(o).link = o.link
         /\ Unbound(o).flying = o.flying /\ Unbound(o).method = o.method
         /\ Unbound(o).proofs = o.proofs /\ Unbound(o).deposit = o.deposit
         /\ Unbound(o).converted = o.converted /\ ~Unbound(o).fallback
BY DEF Fit, Sound, Backed, Owners, Unbound

LEMMA RefundedFit ==
  ASSUME NEW places, NEW o, Fit(o, places)
  PROVE  /\ Fit(Refunded(o), places)
         /\ Refunded(o).queued = o.queued /\ Refunded(o).link = o.link
         /\ Refunded(o).flying = o.flying /\ Refunded(o).method = o.method
         /\ Refunded(o).proofs = o.proofs
BY DeliveryAssumption DEF Fit, Sound, Backed, Owners, Refunded

LEMMA SpentFit ==
  ASSUME NEW places, NEW o, Fit(o, places)
  PROVE  /\ Fit(Spent(o), places)
         /\ Spent(o).queued = o.queued /\ Spent(o).link = o.link
         /\ Spent(o).flying = o.flying /\ Spent(o).method = o.method
         /\ Spent(o).proofs = o.proofs
BY DeliveryAssumption DEF Fit, Sound, Backed, Owners, Spent

(* An owner that may be queued, sent or carried at once.                   *)
Loose(o, places) == Fit(o, places) /\ o.link = "none" /\ o.flying = 0

LEMMA QueuedFit ==
  ASSUME NEW places, NEW o, Fit(o, places), o.flying = 0, NEW b \in BOOLEAN,
         b => o.link = "none" \/ o.method = "direct"
  PROVE  /\ Fit([o EXCEPT !.queued = b], places)
         /\ [o EXCEPT !.queued = b].queued = b
         /\ [o EXCEPT !.queued = b].link = o.link
         /\ [o EXCEPT !.queued = b].flying = 0
         /\ [o EXCEPT !.queued = b].method = o.method
         /\ [o EXCEPT !.queued = b].fallback = o.fallback
BY DEF Fit, Sound, Backed, Owners

LEMMA FailedGood ==
  ASSUME NEW places, NEW o, Fit(o, places), Idle(o)
  PROVE  Good(Failed(o), places)
BY UnboundFit, OutcomeGood DEF Failed, Idle

LEMMA RequeuedFit ==
  ASSUME NEW places, NEW o, Fit(o, places), o.flying = 0,
         o.link = "none" \/ o.method = "direct", NEW r \in Requeued(o)
  PROVE  Fit(r, places) /\ r.link = o.link /\ r.flying = 0 /\ r.method = o.method
BY QueuedFit DEF Requeued

LEMMA KeptFit ==
  ASSUME NEW places, NEW o, Fit(o, places), o.flying = 0,
         o.link = "none" \/ o.method = "direct", NEW r \in Kept(o)
  PROVE  Fit(r, places) /\ r.link = o.link /\ r.flying = 0 /\ r.method = o.method
BY RequeuedFit DEF Kept

LEMMA DeferredGood ==
  ASSUME NEW places, NEW o, Loose(o, places), NEW r \in Deferred(o)
  PROVE  Good(r, places)
BY RequeuedFit, OutcomeGood DEF Deferred, Loose

LEMMA PropagationGood ==
  ASSUME NEW places, NEW o, Loose(o, places), ~o.queued, o.method = "propagated",
         NEW r \in StartPropagation(o)
  PROVE  Good(r, places)
<1>1. CASE r \in Deferred(o)
  BY <1>1, DeferredGood
<1>2. ASSUME NEW e \in Envelope, r \in Deposit(o, e) PROVE Good(r, places)
  <2>1. Good(Outcome(o, "failed"), places)
    BY OutcomeGood DEF Loose, Idle
  <2>2. CASE e = "packed"
    <3>1. Fit([o EXCEPT !.link = "open", !.to = "node", !.deposit = TRUE], places)
      BY DEF Loose, Fit, Sound, Backed, Owners, Places
    <3> QED BY <1>2, <2>1, <2>2, <3>1, OutcomeGood DEF Deposit
  <2>3. CASE e = "pending"
    <3>1. Loose(Refunded(o), places)
      BY RefundedFit DEF Loose
    <3> QED BY <1>2, <2>3, <3>1, DeferredGood DEF Deposit
  <2>4. CASE e = "failed"
    BY <1>2, <2>1, <2>4 DEF Deposit
  <2> QED BY <2>2, <2>3, <2>4 DEF Envelope
<1> QED BY <1>1, <1>2 DEF StartPropagation

LEMMA GiveUpGood ==
  ASSUME NEW places, NEW o, Loose(o, places), ~o.queued, NEW r \in GiveUp(o)
  PROVE  Good(r, places)
<1>1. CASE r = Failed(o)
  BY <1>1, FailedGood DEF Loose, Idle
<1>2. CASE o.fallback /\ r \in StartPropagation(ToNode(o))
  <2>1. /\ Loose(ToNode(o), places) /\ ~ToNode(o).queued
        /\ ToNode(o).method = "propagated"
    <3>1. Loose(Unbound(o), places) /\ ~Unbound(o).queued /\ ~Unbound(o).fallback
          /\ Unbound(o).converted = 0
      BY <1>2, UnboundFit DEF Loose, Fit, Sound
    <3> DEFINE u == Unbound(o)
    <3> HIDE DEF u
    <3>2. Loose(u, places) /\ ~u.queued /\ ~u.fallback /\ u.converted = 0
      BY <3>1 DEF u
    <3>3. ToNode(o) = [u EXCEPT !.method = "propagated", !.tries = 0, !.converted = 1]
      BY <3>2 DEF ToNode, u, Loose, Fit, Sound, Owners
    <3>4. [u EXCEPT !.method = "propagated", !.tries = 0, !.converted = 1] \in Owners
      <4>1. u \in Owners /\ 0 \in 0..(MaxAttempts + 1) /\ 1 \in 0..2
        BY <3>2, DeliveryAssumption DEF Loose, Fit, Sound
      <4> QED BY <4>1 DEF Owners
    <3> QED BY <3>2, <3>3, <3>4 DEF Loose, Fit, Sound, Backed, Owners
  <2> QED BY <1>2, <2>1, PropagationGood
<1> QED BY <1>1, <1>2 DEF GiveUp

LEMMA StartLinkGood ==
  ASSUME NEW places, NEW o, Loose(o, places), o.method \in Live,
         o.queued => o.method = "direct", NEW r \in StartLink(o)
  PROVE  Good(r, places)
<1>1. CASE r = Outcome([o EXCEPT !.link = "open", !.to = "recipient"], "moving")
  <2>1. Fit([o EXCEPT !.link = "open", !.to = "recipient"], places)
    BY DEF Loose, Fit, Sound, Backed, Owners, Live, Places
  <2> QED BY <1>1, <2>1, OutcomeGood
<1>2. CASE r = Outcome([o EXCEPT !.queued = TRUE], "moving")
  BY <1>2, QueuedFit, OutcomeGood DEF Loose
<1>3. CASE r \in GiveUp([o EXCEPT !.queued = FALSE])
  BY <1>3, QueuedFit, GiveUpGood DEF Loose
<1> QED BY <1>1, <1>2, <1>3 DEF StartLink

LEMMA PlanDirectGood ==
  ASSUME NEW places, NEW o, Fit(o, places), o.flying = 0, o.method \in Live,
         o.method = "direct" \/ (o.link = "none" /\ ~o.queued), NEW r \in PlanDirect(o)
  PROVE  Good(r, places)
<1>1. \A k \in Kept(o) : \A s \in {"none", "moving"} : Good(Outcome(k, s), places)
  BY KeptFit, OutcomeGood
<1>2. \A k \in Kept(Spent(o)) : \A s \in {"none", "moving"} : Good(Outcome(k, s), places)
  BY SpentFit, KeptFit, OutcomeGood
<1>3. CASE o.link # "none"
  BY <1>1, <1>3 DEF PlanDirect
<1>4. CASE o.link = "none"
  <2> DEFINE again == [o EXCEPT !.reused = TRUE]
  <2>1. /\ Loose(again, places) /\ again.method = o.method /\ again.queued = o.queued
    BY <1>4 DEF Loose, Fit, Sound, Backed, Owners
  <2> HIDE DEF again
  <2>2. ASSUME r \in Backchannel(again) PROVE Good(r, places)
    <3>1. Loose(Spent(again), places) /\ Spent(again).method = o.method
          /\ Spent(again).queued = o.queued
      BY <2>1, SpentFit DEF Loose
    <3>2. Fit([Spent(again) EXCEPT !.link = "open", !.to = "recipient"], places)
      <4> HIDE DEF Spent
      <4> QED BY <3>1 DEF Loose, Fit, Sound, Backed, Owners, Live, Places
    <3> QED BY <2>2, <3>2, OutcomeGood DEF Backchannel
  <2>3. ASSUME r \in StartLink(again) PROVE Good(r, places)
    BY <2>1, <2>3, StartLinkGood
  <2>4. ASSUME r \in StartLink(Spent(o)) PROVE Good(r, places)
    BY <1>4, <2>4, SpentFit, StartLinkGood DEF Loose
  <2>5. Good(Outcome([o EXCEPT !.queued = FALSE], "failed"), places)
    BY <1>4, QueuedFit, OutcomeGood DEF Idle
  <2>6. \/ \E k \in Kept(o) \union Kept(Spent(o)), s \in {"none", "moving"} : r = Outcome(k, s)
        \/ r \in Backchannel(again) \/ r \in StartLink(again) \/ r \in StartLink(Spent(o))
        \/ r = Outcome([o EXCEPT !.queued = FALSE], "failed")
    BY <1>4 DEF PlanDirect, again
  <2> QED BY <1>1, <1>2, <2>2, <2>3, <2>4, <2>5, <2>6
<1> QED BY <1>3, <1>4

LEMMA OpportunisticGood ==
  ASSUME NEW places, NEW o, Loose(o, places), ~o.queued, o.method = "opportunistic",
         NEW r \in DeliverOpportunistic(o)
  PROVE  Good(r, places)
<1>1. CASE r \in Escalated(o)
  BY <1>1, SpentFit, RequeuedFit, OutcomeGood DEF Escalated, Loose
<1>2. CASE r \in Unpacked(o)
  BY <1>2, SpentFit, RequeuedFit, OutcomeGood, FailedGood DEF Unpacked, Loose, Idle
<1>3. CASE r \in PlanDirect(o)
  BY <1>3, PlanDirectGood DEF Loose, Live
<1>4. CASE r \in Dispatched(o)
  <2>1. ASSUME NEW q \in Packets
      PROVE Fit([Spent(o) EXCEPT !.flying = q, !.proofs[q] = "queued"], places)
    <3>1. Loose(Spent(o), places) /\ ~Spent(o).queued
      BY SpentFit DEF Loose
    <3>2. [Spent(o).proofs EXCEPT ![q] = "queued"] \in
            [Packets -> {"unused", "queued", "out", "refused", "proved", "over", "gone"}]
      BY <3>1 DEF Loose, Fit, Sound, Owners
    <3> DEFINE s == Spent(o)
    <3> HIDE DEF s
    <3>3. Loose(s, places) /\ ~s.queued
      BY <3>1 DEF s
    <3>4. [s EXCEPT !.flying = q, !.proofs[q] = "queued"] =
            [s EXCEPT !.flying = q, !.proofs = [s.proofs EXCEPT ![q] = "queued"]]
      BY <3>3 DEF Loose, Fit, Sound, Owners
    <3>5. [s EXCEPT !.flying = q, !.proofs = [s.proofs EXCEPT ![q] = "queued"]] \in Owners
      <4>1. s \in Owners /\ q \in 0..MaxPackets
        BY <3>3, DeliveryAssumption DEF Loose, Fit, Sound, Packets
      <4> QED BY <3>2, <4>1 DEF Owners, s
    <3>6. Sound([s EXCEPT !.flying = q, !.proofs = [s.proofs EXCEPT ![q] = "queued"]])
      BY <3>3, <3>5 DEF Loose, Fit, Sound, Owners
    <3>7. Backed([s EXCEPT !.flying = q, !.proofs = [s.proofs EXCEPT ![q] = "queued"]], places)
      BY <3>3 DEF Loose, Fit, Sound, Backed, Owners
    <3> QED BY <3>4, <3>6, <3>7 DEF Fit, s
  <2>2. \A k \in Requeued(o) : Good(Outcome(k, "moving"), places)
    BY RequeuedFit, OutcomeGood DEF Loose
  <2> QED BY <1>4, <2>1, <2>2, OutcomeGood DEF Dispatched
<1> QED BY <1>1, <1>2, <1>3, <1>4 DEF DeliverOpportunistic

LEMMA DeliverGood ==
  ASSUME NEW places, NEW o, Fit(o, places), o.queued, NEW r \in Deliver(o)
  PROVE  Good(r, places)
<1> DEFINE taken == [o EXCEPT !.queued = FALSE]
<1>1. o.flying = 0 /\ (o.link # "none" => o.method = "direct")
      /\ o.method \in Live \union {"propagated"}
  BY DEF Fit, Sound, Owners
<1>2. /\ Fit(taken, places) /\ ~taken.queued /\ taken.link = o.link /\ taken.flying = 0
      /\ taken.method = o.method
  BY <1>1, QueuedFit
<1> HIDE DEF taken
<1>3. CASE o.link = "none" /\ r = Failed(taken)
  BY <1>2, <1>3, FailedGood DEF Idle
<1>4. CASE o.link = "none" /\ r \in GiveUp(taken)
  BY <1>2, <1>4, GiveUpGood DEF Loose
<1>5. CASE o.method = "direct" /\ r \in PlanDirect(o)
  BY <1>1, <1>5, PlanDirectGood DEF Live
<1>6. CASE o.method = "opportunistic" /\ r \in DeliverOpportunistic(taken)
  BY <1>1, <1>2, <1>6, OpportunisticGood DEF Loose
<1>7. CASE o.method = "propagated" /\ r \in StartPropagation(Spent(taken))
  BY <1>1, <1>2, <1>7, SpentFit, PropagationGood DEF Loose
<1> QED BY <1>1, <1>3, <1>4, <1>5, <1>6, <1>7 DEF Deliver, taken, Live

LEMMA PrepareGood ==
  ASSUME NEW places, NEW o, Fit(o, places), NEW r \in Prepare(o)
  PROVE  Good(r, places) /\ (~o.queued => r = Outcome(o, "none"))
<1> DEFINE ready == [o EXCEPT !.discovery = "none"]
<1>1. CASE ~o.queued \/ o.method \notin Live \/ o.tries > MaxAttempts
  BY <1>1, OutcomeGood DEF Prepare
<1>2. CASE o.queued /\ o.method \in Live /\ ~(o.tries > MaxAttempts)
  <2>1. o.flying = 0 /\ (o.link # "none" => o.method = "direct")
    BY <1>2 DEF Fit, Sound
  <2>2. Fit(ready, places) /\ ready.link = o.link /\ ready.flying = 0 /\ ready.method = o.method
        /\ ready.queued
    BY <1>2, <2>1 DEF Fit, Sound, Backed, Owners
  <2>3. ASSUME NEW how \in Live, o.link # "none" => how = "direct"
        PROVE  Fit([ready EXCEPT !.method = how], places)
    <3> HIDE DEF ready
    <3> QED BY <1>2, <2>1, <2>2, <2>3 DEF Fit, Sound, Backed, Owners, Live
  <2>4. Fit([o EXCEPT !.discovery = "waiting"], places)
    BY DEF Fit, Sound, Backed, Owners
  <2>5. CASE o.link # "none"
    <3>1. r = Outcome([ready EXCEPT !.method = "direct"], "none")
      BY <1>2, <2>1, <2>2, <2>5 DEF Prepare, ready
    <3> QED BY <1>2, <2>3, <3>1, OutcomeGood DEF Live
  <2>6. CASE o.link = "none"
    <3>1. \/ \E how \in Live : r = Outcome([ready EXCEPT !.method = how], "none")
          \/ r = Outcome([o EXCEPT !.discovery = "waiting"], "moving")
          \/ r = Outcome(o, "none")
          \/ r \in GiveUp([ready EXCEPT !.queued = FALSE])
      BY <1>2, <2>6 DEF Prepare
    <3>2. ASSUME r \in GiveUp([ready EXCEPT !.queued = FALSE]) PROVE Good(r, places)
      <4> HIDE DEF ready
      <4>1. Loose([ready EXCEPT !.queued = FALSE], places)
            /\ ~[ready EXCEPT !.queued = FALSE].queued
        BY <2>2, <2>6, QueuedFit DEF Loose
      <4> QED BY <3>2, <4>1, GiveUpGood
    <3> HIDE DEF ready
    <3> QED BY <1>2, <2>3, <2>4, <2>6, <3>1, <3>2, OutcomeGood
  <2> QED BY <2>5, <2>6
<1> QED BY <1>1, <1>2

LEMMA CompletedFit ==
  ASSUME NEW places, NEW o, Fit(o, places)
  PROVE  Fit(Completed(o), places) /\ Blank(Completed(o))
         /\ Fit(Stopped(o), places) /\ Blank(Stopped(o))
<1>1. NoProofs(o) \in
        [Packets -> {"unused", "queued", "out", "refused", "proved", "over", "gone"}]
      /\ \A p \in Packets : NoProofs(o)[p] \in {"unused", "gone"}
  BY DEF NoProofs
<1> DEFINE u == Unbound(o)
           n == NoProofs(o)
<1>2. Fit(u, places)
  BY UnboundFit
<1> HIDE DEF u, n
<1>3. /\ Completed(o) = [u EXCEPT !.proofs = n, !.flying = 0, !.queued = FALSE,
                                  !.link = "none", !.deposit = FALSE]
      /\ Stopped(o) = [u EXCEPT !.deposit = FALSE, !.flying = 0, !.proofs = n,
                                !.link = "none", !.queued = FALSE]
  BY DEF Completed, Stopped, u, n
<1>4. Completed(o) \in Owners /\ Stopped(o) \in Owners
  <2>1. u \in Owners /\ 0 \in 0..MaxPackets
    BY <1>2, DeliveryAssumption DEF Fit, Sound
  <2>2. n \in [Packets -> {"unused", "queued", "out", "refused", "proved", "over", "gone"}]
    BY <1>1 DEF n
  <2> DEFINE a == [u EXCEPT !.proofs = n, !.flying = 0]
             b == [a EXCEPT !.queued = FALSE, !.link = "none", !.deposit = FALSE]
  <2>3. a \in Owners
    BY <2>1, <2>2 DEF Owners
  <2>4. b \in Owners
    <3> HIDE DEF a
    <3> QED BY <2>3 DEF Owners
  <2>5. Completed(o) = b /\ Stopped(o) = b
    BY <1>3, <2>1 DEF Owners
  <2> QED BY <2>4, <2>5
<1>5. /\ Completed(o).queued = FALSE /\ Completed(o).link = "none" /\ Completed(o).flying = 0
      /\ Completed(o).proofs = n /\ Completed(o).deposit = FALSE
      /\ Completed(o).fallback = u.fallback /\ Completed(o).converted = u.converted
  BY <1>2, <1>3 DEF Fit, Sound, Owners
<1>6. /\ Stopped(o).queued = FALSE /\ Stopped(o).link = "none" /\ Stopped(o).flying = 0
      /\ Stopped(o).proofs = n /\ Stopped(o).deposit = FALSE
      /\ Stopped(o).fallback = u.fallback /\ Stopped(o).converted = u.converted
  BY <1>2, <1>3 DEF Fit, Sound, Owners
<1>7. \A p \in Packets : n[p] \in {"unused", "gone"}
  BY <1>1 DEF n
<1> QED BY <1>2, <1>4, <1>5, <1>6, <1>7 DEF Fit, Sound, Backed, Blank, Idle, HasProofs

LEMMA PollGood ==
  ASSUME NEW places, NEW o, Fit(o, places), NEW r \in PollProofs(o)
  PROVE  /\ Good(r, places)
         /\ Idle(o) => Idle(r.own)
         /\ Blank(o) => r.step = "none" /\ Blank(r.own)
<1> DEFINE refused == {p \in Packets : o.proofs[p] = "refused"}
           left == [p \in Packets |-> IF p \in refused THEN "gone" ELSE o.proofs[p]]
           dropped == [o EXCEPT !.proofs = left]
<1>1. left \in [Packets -> {"unused", "queued", "out", "refused", "proved", "over", "gone"}]
  BY DEF Fit, Sound, Owners
<1>2. \A p \in Packets : left[p] # "gone" => left[p] = o.proofs[p]
  OBVIOUS
<1> HIDE DEF left
<1>3. /\ Fit(dropped, places) /\ dropped.flying = o.flying /\ dropped.queued = o.queued
      /\ dropped.link = o.link /\ dropped.proofs = left
  BY <1>1, <1>2 DEF Fit, Sound, Backed, Owners
<1>4. Blank(o) => Blank(dropped)
  BY <1>2, <1>3 DEF Blank, Idle, HasProofs
<1> HIDE DEF dropped
<1>5. CASE \E p \in Packets : o.proofs[p] = "proved"
  <2>1. r = Outcome(Completed(o), "delivered") /\ ~Blank(o)
    BY <1>5 DEF PollProofs, Blank, HasProofs
  <2>2. Fit(Completed(o), places) /\ Idle(Completed(o)) /\ "recipient" \in places
    BY <1>5, CompletedFit DEF Blank, Fit, Backed
  <2> QED BY <2>1, <2>2 DEF Good, Outcome, Steps, Ends
<1>6. CASE o.flying \in refused
      /\ r \in {Outcome(q, "moving") : q \in Requeued([Refunded(dropped) EXCEPT !.flying = 0])}
  <2>1. Fit(Refunded(dropped), places) /\ Refunded(dropped).link = "none" /\ ~Idle(o)
    <3>1. o.flying # 0
      BY <1>6 DEF Packets
    <3> QED BY <1>3, <3>1, RefundedFit DEF Fit, Sound, Idle
  <2> DEFINE d == Refunded(dropped)
  <2>2. Fit(d, places) /\ d.link = "none"
    BY <2>1
  <2> HIDE DEF d
  <2>3. Loose([d EXCEPT !.flying = 0], places)
    <3> DEFINE e == [d EXCEPT !.flying = 0]
    <3>1. d \in Owners /\ 0 \in 0..MaxPackets
      BY <2>2, DeliveryAssumption DEF Fit, Sound
    <3>2. e \in Owners
      BY <3>1 DEF Owners
    <3>3. /\ e.flying = 0 /\ e.queued = d.queued /\ e.link = d.link
          /\ e.deposit = d.deposit /\ e.method = d.method /\ e.to = d.to
          /\ e.fallback = d.fallback /\ e.converted = d.converted /\ e.proofs = d.proofs
      BY <3>1 DEF Owners
    <3> HIDE DEF e
    <3> QED BY <2>2, <3>2, <3>3 DEF Loose, Fit, Sound, Backed, e
  <2>4. \A q \in Requeued([d EXCEPT !.flying = 0]) : Good(Outcome(q, "moving"), places)
    BY <2>3, RequeuedFit, OutcomeGood DEF Loose
  <2> QED BY <1>6, <2>1, <2>4 DEF d, Blank
<1>7. CASE r = Outcome(dropped, "none")
  BY <1>3, <1>4, <1>7, OutcomeGood DEF Outcome, Idle
<1> QED BY <1>5, <1>6, <1>7 DEF PollProofs, dropped, left

LEMMA RetryGood ==
  ASSUME NEW places, NEW o, Fit(o, places), NEW r \in RetryDue(o)
  PROVE  Good(r, places) /\ (Idle(o) => r = Outcome(o, "none"))
<1>1. CASE r = Outcome(o, "none")
  BY <1>1, OutcomeGood
<1>2. CASE o.flying # 0
  <2> DEFINE landed == [o EXCEPT !.flying = 0]
  <2>1. Fit(landed, places) /\ Idle(landed)
    <3>1. o \in Owners /\ 0 \in 0..MaxPackets
      BY DeliveryAssumption DEF Fit, Sound
    <3>2. landed \in Owners
      BY <3>1 DEF Owners
    <3>3. /\ landed.flying = 0 /\ landed.queued = o.queued /\ landed.link = o.link
          /\ landed.deposit = o.deposit /\ landed.method = o.method /\ landed.to = o.to
          /\ landed.fallback = o.fallback /\ landed.converted = o.converted
          /\ landed.proofs = o.proofs
      BY <3>1 DEF Owners
    <3> HIDE DEF landed
    <3> QED BY <1>2, <3>2, <3>3 DEF Fit, Sound, Backed, Idle
  <2>2. [o EXCEPT !.flying = 0, !.queued = TRUE] = [landed EXCEPT !.queued = TRUE]
    BY DEF Fit, Sound, Owners
  <2> HIDE DEF landed
  <2>3. Fit([landed EXCEPT !.queued = TRUE], places)
    BY <2>1, QueuedFit DEF Idle
  <2>4. r \in {Outcome(o, "none"), Outcome([landed EXCEPT !.queued = TRUE], "none"),
               Failed(landed)}
    BY <1>2, <2>2 DEF RetryDue, landed
  <2> QED BY <1>2, <2>1, <2>3, <2>4, OutcomeGood, FailedGood DEF Idle
<1> QED BY <1>1, <1>2 DEF RetryDue

LEMMA ConcludedGood ==
  ASSUME NEW places, NEW o, Fit(o, places), NEW r \in Concluded(o)
  PROVE  Good(r, places) /\ (Idle(o) => r = Outcome(o, "none"))
<1>0. o.link # "none" => ~Idle(o) /\ o.flying = 0 /\ (o.deposit => ~o.queued)
  BY DEF Idle, Fit, Sound
<1>1. CASE o.link = "complete"
  <2> DEFINE step == IF o.deposit THEN "propagated" ELSE "delivered"
  <2>1. r = Outcome([Completed(o) EXCEPT !.queued = FALSE], step)
    BY <1>0, <1>1 DEF Concluded, LinkComplete
  <2>2. Fit(Completed(o), places) /\ Idle(Completed(o))
    BY CompletedFit DEF Blank
  <2> DEFINE c == Completed(o)
  <2>3. Fit(c, places) /\ Idle(c)
    BY <2>2
  <2> HIDE DEF c
  <2>4. Fit([c EXCEPT !.queued = FALSE], places) /\ Idle([c EXCEPT !.queued = FALSE])
    BY <2>3, QueuedFit DEF Idle
  <2>5. IF o.deposit THEN "node" \in places ELSE "recipient" \in places
    BY <1>1 DEF Fit, Sound, Backed, Owners, Places
  <2> QED BY <1>0, <1>1, <2>1, <2>4, <2>5 DEF c, Good, Outcome, Steps, Ends
<1>2. CASE o.link = "rejected"
  <2> DEFINE u == Unbound(o)
  <2>1. Fit(u, places) /\ u.flying = 0 /\ u.queued = o.queued /\ u.deposit = o.deposit
    BY <1>0, <1>2, UnboundFit
  <2> HIDE DEF u
  <2> DEFINE free == [u EXCEPT !.link = "none", !.deposit = FALSE]
  <2>2. Loose(free, places) /\ free.queued = o.queued
    <3>1. u \in Owners /\ free \in Owners
      BY <2>1 DEF Fit, Sound, Owners
    <3>2. /\ free.link = "none" /\ free.deposit = FALSE /\ free.flying = 0
          /\ free.queued = o.queued /\ free.fallback = u.fallback
          /\ free.converted = u.converted /\ free.proofs = u.proofs
      BY <2>1, <3>1 DEF Owners
    <3> HIDE DEF free
    <3> QED BY <2>1, <3>1, <3>2 DEF Loose, Fit, Sound, Backed
  <2> HIDE DEF free
  <2>3. r = IF o.deposit THEN Outcome(free, "failed")
            ELSE Outcome([free EXCEPT !.queued = FALSE], "rejected")
    BY <1>2 DEF Concluded, LinkRejected, free, u
  <2>4. Fit([free EXCEPT !.queued = FALSE], places) /\ Idle([free EXCEPT !.queued = FALSE])
    BY <2>2, QueuedFit DEF Loose, Idle
  <2> QED BY <1>0, <1>2, <2>2, <2>3, <2>4, OutcomeGood DEF Loose, Idle
<1>3. CASE o.link = "failed"
  <2> DEFINE free == [o EXCEPT !.link = "none", !.deposit = FALSE]
  <2>1. Loose(free, places) /\ free.queued = o.queued
    <3>1. o \in Owners /\ free \in Owners
      BY DEF Fit, Sound, Owners
    <3>2. /\ free.link = "none" /\ free.deposit = FALSE /\ free.flying = 0
          /\ free.queued = o.queued /\ free.fallback = o.fallback
          /\ free.converted = o.converted /\ free.proofs = o.proofs
      BY <1>0, <1>3, <3>1 DEF Owners
    <3> HIDE DEF free
    <3> QED BY <3>1, <3>2 DEF Loose, Fit, Sound, Backed
  <2> HIDE DEF free
  <2>2. CASE o.deposit /\ r = Outcome(Unbound(free), "failed")
    BY <1>0, <1>3, <2>1, <2>2, UnboundFit, OutcomeGood DEF Loose, Idle
  <2>3. CASE r = Outcome([free EXCEPT !.queued = TRUE], "moving")
    BY <1>0, <1>3, <2>1, <2>3, QueuedFit, OutcomeGood DEF Loose
  <2>4. CASE r \in GiveUp([free EXCEPT !.queued = FALSE])
    BY <1>0, <1>3, <2>1, <2>4, QueuedFit, GiveUpGood DEF Loose
  <2> QED BY <1>3, <2>2, <2>3, <2>4 DEF Concluded, LinkFailed, free
<1>4. CASE r = Outcome(o, "none")
  BY <1>4, OutcomeGood
<1> QED BY <1>1, <1>2, <1>3, <1>4 DEF Concluded
-----------------------------------------------------------------------------
(* What holds of the state.                                                *)

OwnInv == \A m \in Messages : Fit(own[m], reached[m])

(* Before it is sent, a message has no owner, no task and no report.       *)
BlankInv ==
  \A m \in Messages : row[m] = "none" =>
    Blank(own[m]) /\ cancel[m] = "none" /\ m \notin proving

(* Whoever is about to store an end, or has stored it, left no owner; the  *)
(* watchdog stops the owners after it has stored the end.                  *)
EndInv ==
  \A m \in Messages :
    \/ row[m] \in Terminal /\ ~(m \in late /\ at = "stop")
    \/ cancel[m] \in {"live", "dead"}
    \/ m \in proving
    => Idle(own[m])

ReportInv ==
  \A i \in 1..Len(report) : LET m == report[i][1]  step == report[i][2] IN
    /\ row[m] # "none"
    /\ step \in Ends => Idle(own[m])
    /\ step = "delivered" => "recipient" \in reached[m]
    /\ step = "propagated" => "node" \in reached[m]

ReachedInv ==
  \A m \in Messages :
    /\ m \in proving \/ row[m] = "delivered" => "recipient" \in reached[m]
    /\ row[m] = "propagated" => "node" \in reached[m]

IInv == TypeOK /\ OwnInv /\ BlankInv /\ EndInv /\ ReportInv /\ ReachedInv

LEMMA AfterType ==
  ASSUME at \in Locked, at # "links"
  PROVE  Stages[After(at)] \in Locked
<1>1. Locked = {"proofs", "retry", "backchannel", "prepare", "outbound", "links"}
  BY DEF Locked, Stages
<1>2. \E i \in 2..(Len(Stages) + 1) : Stages[i - 1] = at
  <2>1. /\ Stages[2 - 1] = "proofs" /\ Stages[3 - 1] = "retry" /\ Stages[4 - 1] = "backchannel"
        /\ Stages[5 - 1] = "prepare" /\ Stages[6 - 1] = "outbound"
        /\ 2..(Len(Stages) + 1) = 2..7
    BY DEF Stages
  <2> QED BY <1>1, <2>1
<1>3. After(at) \in 2..(Len(Stages) + 1) /\ Stages[After(at) - 1] = at
  BY <1>2 DEF After
<1>4. Len(Stages) = 6 /\ Stages[6] = "links"
  BY DEF Stages
<1>5. After(at) \in 1..Len(Stages)
  BY <1>3, <1>4
<1> QED BY <1>5 DEF Locked

LEMMA VisitHolds ==
  ASSUME IInv, NEW m, NEW outcomes, at \in Locked, Visit(m, outcomes),
         \A r \in outcomes : /\ Good(r, reached[m])
                             /\ Idle(own[m]) => Idle(r.own)
                             /\ Blank(own[m]) => r.step = "none" /\ Blank(r.own)
  PROVE  IInv'
<1>1. TypeOK /\ OwnInv /\ BlankInv /\ EndInv /\ ReportInv /\ ReachedInv
  BY DEF IInv
<1>2. m \in Messages
  BY <1>1 DEF Visit, TypeOK
<1>3. PICK r \in outcomes : own' = [own EXCEPT ![m] = r.own] /\ report' = Reported(m, r.step)
  BY DEF Visit
<1>4. /\ Good(r, reached[m]) /\ (Idle(own[m]) => Idle(r.own))
      /\ Blank(own[m]) => r.step = "none" /\ Blank(r.own)
  BY <1>3
<1>5. UNCHANGED <<full, accepted, late, cancel, proving, row, clock, reached, told>>
  BY DEF Visit, taskv, uiv
<1>6. own'[m] = r.own /\ \A n \in Messages \ {m} : own'[n] = own[n]
  BY <1>1, <1>2, <1>3 DEF TypeOK
<1>7. OwnInv'
  BY <1>1, <1>4, <1>5, <1>6 DEF OwnInv, Good
<1>8. at' \in Locked \union {"persist"} /\ visit' \subseteq Messages
  <2>1. CASE visit = {m}
    BY <2>1, AfterType DEF Visit, Next1
  <2>2. CASE visit # {m}
    BY <1>1, <2>2 DEF Visit, Next1, TypeOK
  <2> QED BY <2>1, <2>2
<1>9. report' = report \/ (r.step # "none" /\ report' = Append(report, <<m, r.step>>))
  BY <1>3 DEF Reported
<1>10. r.step # "none" => r.step \in Ends \union {"moving"}
  BY <1>4 DEF Good, Steps
<1>11. TypeOK'
  <2>1. own' \in [Messages -> Owners]
    BY <1>1, <1>2, <1>3, <1>4 DEF TypeOK, Good, Fit, Sound
  <2>2. report' \in Seq(Messages \X (Ends \union {"moving"}))
    <3>1. report \in Seq(Messages \X (Ends \union {"moving"}))
      BY <1>1 DEF TypeOK
    <3>2. r.step # "none" => <<m, r.step>> \in Messages \X (Ends \union {"moving"})
      BY <1>2, <1>10
    <3> QED BY <1>9, <3>1, <3>2
  <2> QED BY <1>1, <1>5, <1>8, <2>1, <2>2 DEF TypeOK
<1>12. at # "stop" /\ at' # "stop"
  BY <1>8 DEF Locked, Stages
<1>13. BlankInv'
  BY <1>1, <1>4, <1>5, <1>6 DEF BlankInv
<1>14. EndInv'
  BY <1>1, <1>4, <1>5, <1>6, <1>12 DEF EndInv
<1>15. ReachedInv'
  BY <1>1, <1>5 DEF ReachedInv
<1>16. ReportInv'
  <2>1. ASSUME NEW i \in 1..Len(report), report[i] \in Messages \X (Ends \union {"moving"})
        PROVE  report[i][2] \in Ends => Idle(own'[report[i][1]])
    BY <1>1, <1>4, <1>6, <2>1 DEF ReportInv
  <2>2. \A i \in 1..Len(report) : report[i] \in Messages \X (Ends \union {"moving"})
    BY <1>1 DEF TypeOK
  <2>3. CASE report' = report
    BY <1>1, <1>5, <2>1, <2>2, <2>3 DEF ReportInv
  <2>4. CASE r.step # "none" /\ report' = Append(report, <<m, r.step>>)
    <3>1. report \in Seq(Messages \X (Ends \union {"moving"}))
      BY <1>1 DEF TypeOK
    <3>2. Len(report') = Len(report) + 1 /\ report'[Len(report) + 1] = <<m, r.step>>
          /\ \A i \in 1..Len(report) : report'[i] = report[i]
      BY <2>4, <3>1
    <3>3. row[m] # "none"
      BY <1>1, <1>2, <1>4, <2>4 DEF BlankInv
    <3> SUFFICES ASSUME NEW i \in 1..Len(report')
                 PROVE  /\ row'[report'[i][1]] # "none"
                        /\ report'[i][2] \in Ends => Idle(own'[report'[i][1]])
                        /\ report'[i][2] = "delivered" => "recipient" \in reached'[report'[i][1]]
                        /\ report'[i][2] = "propagated" => "node" \in reached'[report'[i][1]]
      BY DEF ReportInv
    <3>4. CASE i \in 1..Len(report)
      BY <1>1, <1>5, <2>1, <2>2, <3>2, <3>4 DEF ReportInv
    <3>5. CASE i = Len(report) + 1
      BY <1>4, <1>5, <1>6, <3>2, <3>3, <3>5 DEF Good
    <3>6. Len(report) \in Nat
      BY <3>1
    <3> QED BY <3>2, <3>4, <3>5, <3>6
  <2> QED BY <1>9, <2>3, <2>4
<1> QED BY <1>7, <1>11, <1>13, <1>14, <1>15, <1>16 DEF IInv

LEMMA TickingHolds ==
  ASSUME IInv, NEW m \in Messages, Ticking(m)
  PROVE  IInv'
<1> DEFINE o == own[m]
           places == reached[m]
<1>1. Fit(o, places)
  BY DEF IInv, OwnInv
<1> HIDE DEF o, places
<1>2. Locked = {"proofs", "retry", "backchannel", "prepare", "outbound", "links"}
  BY DEF Locked, Stages
<1>3. Good(Outcome(o, "none"), places) /\ Outcome(o, "none").own = o
      /\ Outcome(o, "none").step = "none"
  BY <1>1, OutcomeGood DEF Outcome
<1>4. CASE VisitProofs(m)
  BY <1>1, <1>2, <1>4, PollGood, VisitHolds DEF VisitProofs, o, places
<1>5. CASE VisitRetry(m)
  BY <1>1, <1>2, <1>3, <1>5, RetryGood, VisitHolds DEF VisitRetry, Blank, o, places
<1>6. CASE VisitLinks(m)
  BY <1>1, <1>2, <1>3, <1>6, ConcludedGood, VisitHolds DEF VisitLinks, Blank, o, places
<1>7. CASE VisitPrepare(m)
  BY <1>1, <1>2, <1>3, <1>7, PrepareGood, VisitHolds DEF VisitPrepare, Blank, Idle, o, places
<1>8. CASE VisitDue(m)
  BY <1>1, <1>2, <1>8, DeliverGood, VisitHolds DEF VisitDue, Due, Blank, Idle, o, places
<1>9. CASE VisitNotDue(m)
  BY <1>2, <1>3, <1>9, VisitHolds DEF VisitNotDue, o, places
<1> QED BY <1>4, <1>5, <1>6, <1>7, <1>8, <1>9 DEF Ticking
(* One owner changes, nothing is stored.                                   *)
LEMMA OwnerHolds ==
  ASSUME IInv, NEW m \in Messages, NEW o, own' = [own EXCEPT ![m] = o], Fit(o, reached'[m]),
         Idle(own[m]) => Idle(o), Blank(own[m]) => Blank(o),
         reached' \in [Messages -> SUBSET Places],
             \A n \in Messages : reached[n] \subseteq reached'[n],
         UNCHANGED <<loopv, taskv, row, clock, uiv>>
  PROVE  IInv'
<1> USE DEF loopv, taskv, uiv
<1>1. TypeOK /\ OwnInv /\ BlankInv /\ EndInv /\ ReportInv /\ ReachedInv
  BY DEF IInv
<1>2. own'[m] = o /\ \A n \in Messages \ {m} : own'[n] = own[n]
  BY <1>1 DEF TypeOK
<1>3. OwnInv'
  <2>1. ASSUME NEW n \in Messages \ {m} PROVE Fit(own[n], reached'[n])
    BY <1>1 DEF OwnInv, Fit, Backed
  <2> QED BY <1>2, <2>1 DEF OwnInv
<1>4. TypeOK'
  BY <1>1 DEF TypeOK, Fit, Sound
<1>5. BlankInv' /\ EndInv'
  BY <1>1, <1>2 DEF BlankInv, EndInv
<1>6. ReachedInv'
  BY <1>1 DEF ReachedInv
<1>7. ReportInv'
  <2>1. \A i \in 1..Len(report) : report[i][1] \in Messages
    BY <1>1 DEF TypeOK
  <2> QED BY <1>1, <1>2, <2>1 DEF ReportInv
<1> QED BY <1>3, <1>4, <1>5, <1>6, <1>7 DEF IInv

(* A proof of a packet that was sent changes.                              *)
LEMMA ProofsFit ==
  ASSUME NEW places, NEW more, NEW o, Fit(o, places), places \subseteq more, NEW p \in Packets,
         NEW to \in {"queued", "out", "refused", "proved", "over", "gone"},
         o.proofs[p] \notin {"unused", "gone"}, to = "proved" => "recipient" \in more
  PROVE  /\ Fit([o EXCEPT !.proofs[p] = to], more)
         /\ Idle(o) => Idle([o EXCEPT !.proofs[p] = to])
         /\ ~Blank(o)
<1> DEFINE f == [o.proofs EXCEPT ![p] = to]
<1>1. /\ f \in [Packets -> {"unused", "queued", "out", "refused", "proved", "over", "gone"}]
      /\ \A q \in Packets : f[q] = IF q = p THEN to ELSE o.proofs[q]
  BY DEF Fit, Sound, Owners
<1> HIDE DEF f
<1> DEFINE n == [o EXCEPT !.proofs = f]
<1>2. o \in Owners
  BY DEF Fit, Sound
<1>3. [o EXCEPT !.proofs[p] = to] = n
  BY <1>2 DEF f, Owners
<1>4. n \in Owners
  BY <1>1, <1>2 DEF Owners
<1>5. /\ n.flying = o.flying /\ n.queued = o.queued /\ n.link = o.link /\ n.to = o.to
      /\ n.deposit = o.deposit /\ n.method = o.method
      /\ n.fallback = o.fallback /\ n.converted = o.converted /\ n.proofs = f
  BY <1>2 DEF Owners
<1> HIDE DEF n
<1>6. Fit(n, more)
  BY <1>1, <1>4, <1>5 DEF Fit, Sound, Backed
<1> QED BY <1>3, <1>5, <1>6 DEF Idle, Blank, HasProofs

LEMMA CarryingHolds ==
  ASSUME IInv, NEW m \in Messages, Carrying(m) \/ Passing(m)
  PROVE  IInv'
<1>1. /\ TypeOK /\ Fit(own[m], reached[m]) /\ own[m] \in Owners
      /\ own \in [Messages -> Owners] /\ reached \in [Messages -> SUBSET Places]
  BY DEF IInv, OwnInv, TypeOK
<1>2. \A p \in Packets : \A to : [own EXCEPT ![m].proofs[p] = to] =
                                  [own EXCEPT ![m] = [own[m] EXCEPT !.proofs[p] = to]]
  OBVIOUS
<1>3. ASSUME NEW p \in Packets, PacketSent(m, p) PROVE IInv'
  <2>1. PICK to \in {"out", "refused"} : own' = [own EXCEPT ![m].proofs[p] = to]
    BY <1>3 DEF PacketSent
  <2>2. own[m].proofs[p] = "queued" /\ UNCHANGED <<loopv, taskv, row, clock, reached, uiv>>
    BY <1>3 DEF PacketSent
  <2> QED BY <1>1, <1>2, <2>1, <2>2, ProofsFit, OwnerHolds
<1>4. ASSUME NEW p \in Packets, PacketArrives(m, p) PROVE IInv'
  <2>1. /\ own[m].proofs[p] \in {"queued", "out", "over"}
        /\ reached' = [reached EXCEPT ![m] = reached[m] \union {"recipient"}]
        /\ UNCHANGED <<loopv, taskv, row, clock, uiv>>
    BY <1>4 DEF PacketArrives
  <2>2. /\ reached' \in [Messages -> SUBSET Places] /\ reached[m] \subseteq reached'[m]
        /\ \A n \in Messages : reached[n] \subseteq reached'[n]
        /\ "recipient" \in reached'[m]
    BY <1>1, <2>1 DEF Places
  <2>3. CASE own' = [own EXCEPT ![m].proofs[p] = "proved"]
    <3>1. Fit([own[m] EXCEPT !.proofs[p] = "proved"], reached'[m])
          /\ (Idle(own[m]) => Idle([own[m] EXCEPT !.proofs[p] = "proved"])) /\ ~Blank(own[m])
      <4>1. Fit(own[m], reached[m]) /\ own[m].proofs[p] \notin {"unused", "gone"}
        BY <1>1, <2>1
      <4> QED BY <2>2, <4>1, ProofsFit
    <3>2. own' = [own EXCEPT ![m] = [own[m] EXCEPT !.proofs[p] = "proved"]]
      BY <1>2, <2>3
    <3> QED BY <2>1, <2>2, <3>1, <3>2, OwnerHolds
  <2>4. CASE own' = own
    <3>1. own' = [own EXCEPT ![m] = own[m]]
      BY <1>1, <2>4
    <3>2. Fit(own[m], reached'[m])
      BY <1>1, <2>2 DEF Fit, Backed
    <3> QED BY <2>1, <2>2, <3>1, <3>2, OwnerHolds
  <2> QED BY <1>4, <2>3, <2>4 DEF PacketArrives
<1>5. ASSUME NEW p \in Packets, PacketEnds(m, p) PROVE IInv'
  <2>1. PICK to \in {"over", "gone"} : own' = [own EXCEPT ![m].proofs[p] = to]
    BY <1>5 DEF PacketEnds
  <2>2. /\ own[m].proofs[p] \in {"out", "over"}
        /\ UNCHANGED <<loopv, taskv, row, clock, reached, uiv>>
    BY <1>5 DEF PacketEnds
  <2> QED BY <1>1, <1>2, <2>1, <2>2, ProofsFit, OwnerHolds
<1>6. CASE LinkEnds(m)
  <2>1. PICK how \in {"complete", "rejected", "failed"}, arrived \in BOOLEAN :
          /\ how = "complete" => arrived
          /\ own' = [own EXCEPT ![m].link = how]
          /\ reached' = [reached EXCEPT ![m] =
                           IF arrived THEN @ \union {own[m].to} ELSE @]
    BY <1>6 DEF LinkEnds
  <2>2. own[m].link = "open" /\ UNCHANGED <<loopv, taskv, row, clock, uiv>>
    BY <1>6 DEF LinkEnds
  <2>3. /\ reached' \in [Messages -> SUBSET Places] /\ reached[m] \subseteq reached'[m]
        /\ \A n \in Messages : reached[n] \subseteq reached'[n]
        /\ how = "complete" => own[m].to \in reached'[m]
    BY <1>1, <2>1 DEF Owners
  <2> DEFINE n == [own[m] EXCEPT !.link = how]
  <2>4. own' = [own EXCEPT ![m] = n]
    BY <2>1
  <2>5. n \in Owners
    BY <1>1 DEF Owners
  <2>6. /\ n.flying = own[m].flying /\ n.queued = own[m].queued /\ n.link = how
        /\ n.to = own[m].to /\ n.deposit = own[m].deposit /\ n.method = own[m].method
        /\ n.fallback = own[m].fallback /\ n.converted = own[m].converted
        /\ n.proofs = own[m].proofs
    BY <1>1 DEF Owners
  <2> HIDE DEF n
  <2>7. Fit(n, reached'[m])
    BY <1>1, <2>2, <2>3, <2>5, <2>6 DEF Fit, Sound, Backed
  <2>8. ~Idle(own[m]) /\ ~Blank(own[m])
    BY <2>2 DEF Idle, Blank
  <2> QED BY <2>2, <2>3, <2>4, <2>7, <2>8, OwnerHolds
<1>7. CASE ClockRuns(m)
  BY <1>7 DEF ClockRuns, loopv, taskv, uiv, IInv, TypeOK, OwnInv, BlankInv, EndInv, ReportInv,
              ReachedInv
<1>8. CASE DiscoveryEnds(m)
  <2> DEFINE n == [own[m] EXCEPT !.discovery = "expired"]
  <2>1. own' = [own EXCEPT ![m] = n] /\ UNCHANGED <<loopv, taskv, row, clock, reached, uiv>>
    BY <1>8 DEF DiscoveryEnds
  <2>2. n \in Owners
    BY <1>1 DEF Owners
  <2>3. /\ n.flying = own[m].flying /\ n.queued = own[m].queued /\ n.link = own[m].link
        /\ n.to = own[m].to /\ n.deposit = own[m].deposit /\ n.method = own[m].method
        /\ n.fallback = own[m].fallback /\ n.converted = own[m].converted
        /\ n.proofs = own[m].proofs
    BY <1>1 DEF Owners
  <2> HIDE DEF n
  <2>4. Fit(n, reached[m])
    BY <1>1, <2>2, <2>3 DEF Fit, Sound, Backed
  <2>5. (Idle(own[m]) => Idle(n)) /\ (Blank(own[m]) => Blank(n))
    BY <2>3 DEF Idle, Blank, HasProofs
  <2> QED BY <1>1, <2>1, <2>4, <2>5, OwnerHolds
<1> QED BY <1>3, <1>4, <1>5, <1>6, <1>7, <1>8 DEF Carrying, Passing
LEMMA NothingOwner ==
  /\ Nothing \in Owners /\ ~Nothing.queued /\ Nothing.link = "none" /\ Nothing.flying = 0
  /\ ~Nothing.deposit /\ ~Nothing.fallback /\ Nothing.converted = 0
  /\ \A p \in Packets : Nothing.proofs[p] = "unused"
<1> DEFINE none == [p \in Packets |-> "unused"]
<1>1. none \in [Packets -> {"unused", "queued", "out", "refused", "proved", "over", "gone"}]
      /\ \A p \in Packets : none[p] = "unused"
  OBVIOUS
<1>2. Nothing = [method |-> "direct", tries |-> 0, queued |-> FALSE, discovery |-> "none",
                 link |-> "none", reused |-> FALSE, to |-> "recipient", deposit |-> FALSE,
                 flying |-> 0, proofs |-> none, fallback |-> FALSE, converted |-> 0]
  BY DEF Nothing
<1> HIDE DEF none
<1>3. Nothing \in Owners
  BY <1>1, <1>2, DeliveryAssumption DEF Owners, Places, Live
<1> QED BY <1>1, <1>2, <1>3

LEMMA NothingFit ==
  ASSUME NEW c \in 0..1, NEW places
  PROVE  /\ Fit([Nothing EXCEPT !.converted = c], places)
         /\ Blank([Nothing EXCEPT !.converted = c])
         /\ Fit(Nothing, places) /\ Blank(Nothing)
<1> DEFINE n == [Nothing EXCEPT !.converted = c]
<1>1. c \in 0..2
  OBVIOUS
<1>2. n \in Owners
  BY <1>1, NothingOwner DEF Owners
<1>3. /\ ~n.queued /\ n.link = "none" /\ n.flying = 0 /\ ~n.deposit /\ ~n.fallback
      /\ n.converted = c /\ n.proofs = Nothing.proofs
  BY NothingOwner DEF Owners
<1> HIDE DEF n
<1>4. Fit(n, places) /\ Blank(n)
  BY <1>2, <1>3, NothingOwner DEF Fit, Sound, Backed, Blank, Idle, HasProofs
<1>5. Fit(Nothing, places) /\ Blank(Nothing)
  BY NothingOwner DEF Fit, Sound, Backed, Blank, Idle, HasProofs
<1> QED BY <1>4, <1>5 DEF n

(* The commands of the user and the proof task.                            *)
LEMMA SendHolds ==
  ASSUME IInv, NEW m \in Messages, NEW how \in Live \union {"propagated"}, NEW auto \in BOOLEAN,
         Send(m, how, auto)
  PROVE  IInv'
<1> USE DEF loopv, taskv, uiv
<1>1. TypeOK /\ OwnInv /\ BlankInv /\ EndInv /\ ReportInv /\ ReachedInv
  BY DEF IInv
<1> DEFINE n == [Nothing EXCEPT !.method = how, !.queued = TRUE, !.fallback = auto]
<1>2. own' = [own EXCEPT ![m] = n]
  BY DEF Send
<1>3. Fit(n, reached[m])
  <2>1. n \in Owners
    BY NothingOwner DEF Owners, Live
  <2>2. /\ n.method = how /\ n.queued /\ n.link = "none" /\ n.flying = 0 /\ ~n.deposit
        /\ n.proofs = Nothing.proofs /\ n.fallback = auto /\ n.converted = 0
    BY NothingOwner DEF Owners
  <2> HIDE DEF n
  <2> QED BY <2>1, <2>2, NothingOwner DEF Fit, Sound, Backed
<1> HIDE DEF n
<1>4. row[m] = "none" /\ row' = [row EXCEPT ![m] = "open"]
      /\ UNCHANGED <<loopv, taskv, clock, reached, uiv>>
  BY DEF Send
<1>5. /\ own'[m] = n /\ \A k \in Messages \ {m} : own'[k] = own[k]
      /\ row'[m] = "open" /\ \A k \in Messages \ {m} : row'[k] = row[k]
  BY <1>1, <1>2, <1>4 DEF TypeOK
<1>6. cancel[m] = "none" /\ m \notin proving
  BY <1>1, <1>4 DEF BlankInv
<1>7. TypeOK'
  BY <1>1, <1>2, <1>3, <1>4 DEF TypeOK, Fit, Sound
<1>8. OwnInv'
  BY <1>1, <1>3, <1>4, <1>5 DEF OwnInv
<1>9. BlankInv' /\ EndInv' /\ ReachedInv'
  BY <1>1, <1>4, <1>5, <1>6 DEF BlankInv, EndInv, ReachedInv, Terminal
<1>10. ReportInv'
  <2>1. \A i \in 1..Len(report) : report[i][1] \in Messages /\ report[i][1] # m
    BY <1>1, <1>4 DEF TypeOK, ReportInv
  <2> QED BY <1>1, <1>4, <1>5, <2>1 DEF ReportInv
<1> QED BY <1>7, <1>8, <1>9, <1>10 DEF IInv

LEMMA ActingHolds ==
  ASSUME IInv, NEW m \in Messages, Acting(m)
  PROVE  IInv'
<1> USE DEF loopv, taskv, uiv
<1>1. TypeOK /\ OwnInv /\ BlankInv /\ EndInv /\ ReportInv /\ ReachedInv
  BY DEF IInv
<1>2. ASSUME NEW k \in Messages, NEW step \in Terminal
      PROVE  /\ Transition(k, step) \in Terminal \union {"none", "open"}
             /\ Transition(k, step) = "none" <=> row[k] = "none"
             /\ Transition(k, step) \in {row[k], step}
  BY <1>1 DEF Transition, TypeOK, Terminal
<1>3. \A i \in 1..Len(report) : report[i][1] \in Messages
  BY <1>1 DEF TypeOK
<1>4. CASE CancelOwners(m)
  <2>1. Fit(Stopped(own[m]), reached[m]) /\ Blank(Stopped(own[m]))
    BY <1>1, CompletedFit DEF OwnInv
  <2>2. own' = [own EXCEPT ![m] = Stopped(own[m])] /\ row[m] # "none"
        /\ UNCHANGED <<loopv, proving, row, clock, reached, uiv>>
    BY <1>4 DEF CancelOwners
  <2> DEFINE o == Stopped(own[m])
  <2>3. own'[m] = o /\ (\A k \in Messages \ {m} : own'[k] = own[k]) /\ Idle(o)
        /\ Fit(o, reached[m])
    BY <1>1, <2>1, <2>2 DEF TypeOK, Blank
  <2> HIDE DEF o
  <2>4. /\ cancel' \in [Messages -> {"none", "live", "dead", "done"}]
        /\ \A k \in Messages \ {m} : cancel'[k] = cancel[k]
    BY <1>1, <1>4 DEF CancelOwners, TypeOK
  <2>5. OwnInv'
    BY <1>1, <2>2, <2>3 DEF OwnInv
  <2>6. TypeOK'
    BY <1>1, <2>1, <2>2, <2>4 DEF TypeOK, Fit, Sound
  <2>7. BlankInv' /\ EndInv' /\ ReachedInv'
    BY <1>1, <2>2, <2>3, <2>4 DEF BlankInv, EndInv, ReachedInv
  <2>8. ReportInv'
    BY <1>1, <1>3, <2>2, <2>3 DEF ReportInv
  <2> QED BY <2>5, <2>6, <2>7, <2>8 DEF IInv
<1>5. CASE CancelRow(m)
  <2>1. row' = [row EXCEPT ![m] = Transition(m, "cancelled")]
        /\ cancel' = [cancel EXCEPT ![m] = "done"]
        /\ cancel[m] \in {"live", "dead"} /\ UNCHANGED <<own, loopv, proving, reached>>
    BY <1>5 DEF CancelRow
  <2>2. /\ row'[m] = Transition(m, "cancelled") /\ \A k \in Messages \ {m} : row'[k] = row[k]
        /\ cancel'[m] = "done" /\ \A k \in Messages \ {m} : cancel'[k] = cancel[k]
    BY <1>1, <2>1 DEF TypeOK
  <2>3. /\ row'[m] \in {row[m], "cancelled"} /\ row'[m] \in Terminal \union {"none", "open"}
        /\ row'[m] = "none" <=> row[m] = "none"
    BY <1>2, <2>2 DEF Terminal
  <2>4. Idle(own[m])
    BY <1>1, <2>1 DEF EndInv
  <2>5. TypeOK'
    <3>1. clock' \in [Messages -> {"off", "running", "due"}]
          /\ told' \in [Messages -> Terminal \union {"none"}]
      BY <1>1, <1>5 DEF CancelRow, TypeOK, Terminal
    <3> QED BY <1>1, <2>1, <2>2, <2>3, <3>1 DEF TypeOK
  <2>6. OwnInv' /\ BlankInv' /\ EndInv' /\ ReachedInv'
    BY <1>1, <2>1, <2>2, <2>3, <2>4 DEF OwnInv, BlankInv, EndInv, ReachedInv
  <2>7. ReportInv'
    BY <1>1, <1>3, <2>1, <2>2, <2>3 DEF ReportInv
  <2> QED BY <2>5, <2>6, <2>7 DEF IInv
<1>6. CASE ProofCompletes(m)
  <2> DEFINE o == Completed(own[m])
  <2>1. /\ own' = [own EXCEPT ![m] = o] /\ proving' = proving \union {m}
        /\ HasProofs(own[m]) /\ "recipient" \in reached[m]
        /\ UNCHANGED <<loopv, cancel, row, clock, reached, uiv>>
    BY <1>6 DEF ProofCompletes
  <2>2. own'[m] = o /\ (\A k \in Messages \ {m} : own'[k] = own[k]) /\ Idle(o)
        /\ Fit(o, reached[m])
    BY <1>1, <2>1, CompletedFit DEF TypeOK, OwnInv, Blank
  <2> HIDE DEF o
  <2>3. row[m] # "none"
    BY <1>1, <2>1 DEF BlankInv, Blank
  <2>4. TypeOK'
    BY <1>1, <2>1, <2>2 DEF TypeOK, Fit, Sound
  <2>5. OwnInv' /\ BlankInv' /\ EndInv' /\ ReachedInv'
    BY <1>1, <2>1, <2>2, <2>3 DEF OwnInv, BlankInv, EndInv, ReachedInv
  <2>6. ReportInv'
    BY <1>1, <1>3, <2>1, <2>2 DEF ReportInv
  <2> QED BY <2>4, <2>5, <2>6 DEF IInv
<1>7. CASE ProofStored(m)
  <2>1. /\ row' = [row EXCEPT ![m] = Transition(m, "delivered")] /\ m \in proving
        /\ proving' = proving \ {m} /\ UNCHANGED <<own, loopv, cancel, reached>>
    BY <1>7 DEF ProofStored
  <2>2. row'[m] = Transition(m, "delivered") /\ \A k \in Messages \ {m} : row'[k] = row[k]
    BY <1>1, <2>1 DEF TypeOK
  <2>3. /\ row'[m] \in {row[m], "delivered"} /\ row'[m] \in Terminal \union {"none", "open"}
        /\ row'[m] = "none" <=> row[m] = "none"
    BY <1>2, <2>2 DEF Terminal
  <2>4. Idle(own[m]) /\ "recipient" \in reached[m]
    BY <1>1, <2>1 DEF EndInv, ReachedInv
  <2>5. TypeOK'
    <3>1. clock' \in [Messages -> {"off", "running", "due"}]
          /\ told' \in [Messages -> Terminal \union {"none"}]
      BY <1>1, <1>7 DEF ProofStored, TypeOK, Terminal
    <3> QED BY <1>1, <2>1, <2>2, <2>3, <3>1 DEF TypeOK
  <2>6. OwnInv' /\ BlankInv' /\ EndInv' /\ ReachedInv'
    BY <1>1, <2>1, <2>2, <2>3, <2>4 DEF OwnInv, BlankInv, EndInv, ReachedInv
  <2>7. ReportInv'
    BY <1>1, <1>3, <2>1, <2>2, <2>3 DEF ReportInv
  <2> QED BY <2>5, <2>6, <2>7 DEF IInv
<1> QED BY <1>4, <1>5, <1>6, <1>7, SendHolds DEF Acting

-----------------------------------------------------------------------------
(* What the loop does with the steps of a tick; a restart.                 *)
LEMMA StoringHolds ==
  ASSUME IInv, Storing
  PROVE  IInv'
<1> USE DEF loopv, taskv, uiv
<1>1. TypeOK /\ OwnInv /\ BlankInv /\ EndInv /\ ReportInv /\ ReachedInv
  BY DEF IInv
<1>3. \A i \in 1..Len(report) : report[i] \in Messages \X (Ends \union {"moving"})
  BY <1>1 DEF TypeOK
<1>4. CASE Persist
  <2> DEFINE m == Head(report)[1]
             step == Head(report)[2]
  <2>1. /\ row' = [row EXCEPT ![m] = Transition(m, step)]
        /\ report' = Tail(report) /\ report # <<>> /\ at = "persist"
        /\ UNCHANGED <<own, at, full, visit, late, taskv, clock, reached, uiv>>
    BY <1>4 DEF Persist
  <2>2. Head(report) = report[1] /\ 1 \in 1..Len(report)
    BY <1>1, <2>1 DEF TypeOK
  <2>3. m \in Messages /\ step \in Ends \union {"moving"} /\ Head(report) = <<m, step>>
    BY <1>3, <2>2
  <2>4. /\ row[m] # "none" /\ (step \in Ends => Idle(own[m]))
        /\ step = "delivered" => "recipient" \in reached[m]
        /\ step = "propagated" => "node" \in reached[m]
    BY <1>1, <2>2 DEF ReportInv
  <2>5. accepted' \subseteq Messages \X (Ends \union {"moving"})
    BY <1>1, <1>4, <2>3 DEF Persist, TypeOK
  <2> HIDE DEF m, step
  <2>6. row'[m] = Transition(m, step) /\ \A k \in Messages \ {m} : row'[k] = row[k]
    BY <1>1, <2>1, <2>3 DEF TypeOK
  <2>7. /\ row'[m] \in Terminal \union {"none", "open"} /\ row'[m] # "none"
        /\ row'[m] = row[m] \/ (row'[m] = step /\ step \in Ends)
    BY <1>1, <2>3, <2>4, <2>6 DEF Transition, TypeOK, Terminal, Ends
  <2>8. /\ Tail(report) \in Seq(Messages \X (Ends \union {"moving"}))
        /\ Len(Tail(report)) = Len(report) - 1 /\ Len(report) \in Nat
        /\ \A i \in 1..Len(Tail(report)) : i + 1 \in 1..Len(report) /\ Tail(report)[i] = report[i + 1]
    BY <1>1, <2>1 DEF TypeOK
  <2>9. TypeOK'
    BY <1>1, <2>1, <2>3, <2>5, <2>6, <2>7, <2>8 DEF TypeOK
  <2>10. OwnInv' /\ BlankInv' /\ EndInv' /\ ReachedInv'
    BY <1>1, <2>1, <2>3, <2>4, <2>6, <2>7 DEF OwnInv, BlankInv, EndInv, ReachedInv
  <2>11. ReportInv'
    <3>1. \A k \in Messages : row[k] # "none" => row'[k] # "none"
      BY <2>3, <2>6, <2>7
    <3> QED BY <1>1, <1>3, <2>1, <2>8, <3>1 DEF ReportInv
  <2> QED BY <2>9, <2>10, <2>11 DEF IInv
<1>5. CASE Emit
  <2>1. clock' \in [Messages -> {"off", "running", "due"}]
    <3>1. PICK progress \in SUBSET {m \in Messages : row[m] # "none"} :
            clock' = [m \in Messages |->
              LET ended == \E step \in Ends : <<m, step>> \in accepted IN
              CASE clock[m] = "off"
                     /\ (m \in progress \/ (<<m, "moving">> \in accepted /\ ~ended))
                     -> "running"
                [] clock[m] # "off" /\ ended -> "off"
                [] OTHER -> clock[m]]
      BY <1>5 DEF Emit
    <3> QED BY <1>1, <3>1 DEF TypeOK
  <2>2. told' \in [Messages -> Terminal \union {"none"}]
    <3>1. ASSUME NEW m \in Messages
          PROVE  IF \E step \in Ends : <<m, step>> \in accepted
                 THEN (CHOOSE step \in Ends : <<m, step>> \in accepted) \in Ends
                 ELSE told[m] \in Terminal \union {"none"}
      BY <1>1 DEF TypeOK
    <3>2. Ends \subseteq Terminal
      BY DEF Ends, Terminal
    <3> QED BY <1>5, <3>1, <3>2 DEF Emit
  <2>3. at' \in {"watch", "idle"} /\ at = "persist" /\ accepted' = {} /\ visit' = {}
        /\ UNCHANGED <<own, full, report, late, taskv, row, reached>>
    BY <1>5 DEF Emit
  <2>4. TypeOK'
    BY <1>1, <2>1, <2>2, <2>3 DEF TypeOK
  <2>5. OwnInv' /\ BlankInv' /\ EndInv' /\ ReachedInv' /\ ReportInv'
    BY <1>1, <2>3 DEF OwnInv, BlankInv, EndInv, ReachedInv, ReportInv
  <2> QED BY <2>4, <2>5 DEF IInv
<1>6. CASE Watch
  <2>1. TypeOK'
    BY <1>1, <1>6 DEF Watch, TypeOK
  <2>2. OwnInv' /\ BlankInv' /\ EndInv' /\ ReachedInv' /\ ReportInv'
    BY <1>1, <1>6 DEF Watch, OwnInv, BlankInv, EndInv, ReachedInv, ReportInv
  <2> QED BY <2>1, <2>2 DEF IInv
<1>7. CASE Stamp
  <2>1. \A m \in Messages :
          /\ row'[m] \in {row[m], "timeout"} /\ (row'[m] = "none" <=> row[m] = "none")
          /\ row'[m] # row[m] => m \in late'
    BY <1>7 DEF Stamp, Transition
  <2>2. at = "stamp" /\ at' = "stop" /\ late' \subseteq late
        /\ UNCHANGED <<own, full, visit, report, accepted, taskv, clock, reached, uiv>>
    BY <1>7 DEF Stamp
  <2>3. TypeOK'
    BY <1>1, <1>7, <2>2 DEF Stamp, Transition, TypeOK, Terminal
  <2>4. OwnInv' /\ BlankInv' /\ EndInv' /\ ReachedInv'
    BY <1>1, <2>1, <2>2 DEF OwnInv, BlankInv, EndInv, ReachedInv
  <2>5. ReportInv'
    BY <1>1, <1>3, <2>1, <2>2 DEF ReportInv
  <2> QED BY <2>3, <2>4, <2>5 DEF IInv
<1>8. CASE StopLate
  <2>1. \A m \in Messages : own'[m] = IF m \in late THEN Stopped(own[m]) ELSE own[m]
    BY <1>8 DEF StopLate
  <2>2. \A m \in Messages : Fit(Stopped(own[m]), reached[m]) /\ Blank(Stopped(own[m]))
    BY <1>1, CompletedFit DEF OwnInv
  <2>3. \A m \in Messages : /\ Fit(own'[m], reached[m]) /\ (m \in late => Blank(own'[m]))
                            /\ m \notin late => own'[m] = own[m]
    BY <1>1, <2>1, <2>2 DEF OwnInv
  <2>4. late' = {} /\ at' = "idle"
        /\ UNCHANGED <<full, visit, report, accepted, taskv, row, clock, reached>>
    BY <1>8 DEF StopLate
  <2>5. TypeOK'
    <3>1. own' \in [Messages -> Owners]
      BY <1>8, <2>3 DEF StopLate, Fit, Sound
    <3>2. told' \in [Messages -> Terminal \union {"none"}]
      BY <1>1, <1>8 DEF StopLate, TypeOK, Terminal
    <3> QED BY <1>1, <2>4, <3>1, <3>2 DEF TypeOK
  <2>6. OwnInv' /\ BlankInv' /\ EndInv' /\ ReachedInv'
    BY <1>1, <2>3, <2>4 DEF OwnInv, BlankInv, EndInv, ReachedInv, Blank
  <2>7. ReportInv'
    BY <1>1, <1>3, <2>3, <2>4 DEF ReportInv, Blank
  <2> QED BY <2>5, <2>6, <2>7 DEF IInv
<1> QED BY <1>4, <1>5, <1>6, <1>7, <1>8 DEF Storing

LEMMA RestHolds ==
  ASSUME IInv, BeginTick \/ Wake \/ Restart
  PROVE  IInv'
<1> USE DEF loopv, taskv, uiv
<1>1. TypeOK /\ OwnInv /\ BlankInv /\ EndInv /\ ReportInv /\ ReachedInv
  BY DEF IInv
<1>2. CASE BeginTick \/ Wake
  <2>1. at' \in Locked /\ at' # "stop" /\ full' \in BOOLEAN /\ visit' \subseteq Messages
    <3>1. Locked = {"proofs", "retry", "backchannel", "prepare", "outbound", "links"}
          /\ Stages[1] = "proofs"
      BY DEF Locked, Stages
    <3> QED BY <1>2, <3>1 DEF BeginTick, Wake
  <2>2. at = "idle" /\ UNCHANGED <<own, report, accepted, late, taskv, row, clock, reached, uiv>>
    BY <1>2 DEF BeginTick, Wake
  <2>3. TypeOK'
    BY <1>1, <2>1, <2>2 DEF TypeOK
  <2>4. OwnInv' /\ BlankInv' /\ EndInv' /\ ReachedInv' /\ ReportInv'
    BY <1>1, <2>1, <2>2 DEF OwnInv, BlankInv, EndInv, ReachedInv, ReportInv
  <2> QED BY <2>3, <2>4 DEF IInv
<1>3. CASE Restart
  <2>1. \A m \in Messages : own[m].converted \in 0..1
    BY <1>1 DEF OwnInv, Fit, Sound
  <2>2. \A m \in Messages : Fit(own'[m], reached[m]) /\ Blank(own'[m])
    BY <1>3, <2>1, NothingFit DEF Restart
  <2>3. /\ at' = "idle" /\ full' = FALSE /\ visit' = {} /\ report' = <<>> /\ accepted' = {}
        /\ late' = {} /\ proving' = {} /\ reached' = reached
    BY <1>3 DEF Restart
  <2>4. \A m \in Messages :
          /\ row'[m] \in {row[m], "failed"} /\ (row'[m] = "none" <=> row[m] = "none")
          /\ cancel'[m] \in {"none", "done"} /\ (cancel[m] = "none" => cancel'[m] = "none")
    BY <1>3 DEF Restart, Transition
  <2>5. TypeOK'
    <3>1. own' \in [Messages -> Owners]
      BY <1>3, <2>2 DEF Restart, Fit, Sound
    <3>2. /\ row' \in [Messages -> Terminal \union {"none", "open"}]
          /\ cancel' \in [Messages -> {"none", "live", "dead", "done"}]
          /\ clock' \in [Messages -> {"off", "running", "due"}]
          /\ told' \in [Messages -> Terminal \union {"none"}]
      BY <1>1, <1>3 DEF Restart, Transition, TypeOK, Terminal
    <3>3. <<>> \in Seq(Messages \X (Ends \union {"moving"}))
      OBVIOUS
    <3> QED BY <1>1, <2>3, <3>1, <3>2, <3>3 DEF TypeOK
  <2>6. OwnInv' /\ BlankInv' /\ EndInv' /\ ReachedInv' /\ ReportInv'
    BY <1>1, <2>2, <2>3, <2>4 DEF OwnInv, BlankInv, EndInv, ReachedInv, ReportInv, Blank
  <2> QED BY <2>5, <2>6 DEF IInv
<1> QED BY <1>2, <1>3

-----------------------------------------------------------------------------
LEMMA InitHolds == Init => IInv
<1> SUFFICES ASSUME Init PROVE IInv
  OBVIOUS
<1>2. \A m \in Messages : Fit(own[m], reached[m]) /\ Blank(own[m])
  BY NothingFit DEF Init
<1>3. TypeOK
  <2>1. own \in [Messages -> Owners]
    BY <1>2 DEF Init, Fit, Sound
  <2>2. <<>> \in Seq(Messages \X (Ends \union {"moving"}))
    OBVIOUS
  <2> QED BY <2>1, <2>2 DEF Init, TypeOK
<1>4. OwnInv /\ BlankInv /\ EndInv /\ ReportInv /\ ReachedInv
  BY <1>2 DEF Init, OwnInv, BlankInv, EndInv, ReportInv, ReachedInv, Terminal
<1> QED BY <1>3, <1>4 DEF IInv

LEMMA StepHolds == IInv /\ [Next]_vars => IInv'
<1>1. ASSUME IInv, UNCHANGED vars PROVE IInv'
  BY <1>1 DEF vars, IInv, TypeOK, OwnInv, BlankInv, EndInv, ReportInv, ReachedInv
<1> QED BY <1>1, RestHolds, StoringHolds, TickingHolds, ActingHolds, CarryingHolds DEF Next

LEMMA AlwaysIInv == Spec => []IInv
BY InitHolds, StepHolds, PTL DEF Spec

(* Every variable, the owners of a message above all, keeps the values the *)
(* handlers can leave.                                                     *)
THEOREM DeliveryTypes == Spec => []TypeOK
<1>1. IInv => TypeOK
  BY DEF IInv
<1> QED BY <1>1, AlwaysIInv, PTL

(* update_message_state and the handlers that end a message: once its row  *)
(* says how it ended, nobody sends it any more.                            *)
THEOREM NobodySendsAfterTheEnd == Spec => []NothingAfterTheEnd
<1>1. IInv => NothingAfterTheEnd
  BY DEF IInv, EndInv, NothingAfterTheEnd, Idle
<1> QED BY <1>1, AlwaysIInv, PTL

(* handle_link_delivery_result, poll_opportunistic_proofs and the proof    *)
(* task: what is stored as delivered reached the recipient, what is stored *)
(* as propagated is on the node.                                           *)
THEOREM EndsAreTrue == Spec => []Attributed
<1>1. IInv => Attributed
  BY DEF IInv, ReachedInv, Attributed
<1> QED BY <1>1, AlwaysIInv, PTL

(* try_auto_propagation_fallback: a message goes to the node in place of   *)
(* its recipient once.                                                     *)
THEOREM FallsBackOnce == Spec => []FallbackOnce
<1>1. IInv => FallbackOnce
  BY DEF IInv, OwnInv, Fit, Sound, FallbackOnce
<1> QED BY <1>1, AlwaysIInv, PTL

-----------------------------------------------------------------------------
(* Delivery implements MessageSending.  No handler takes a way up again:   *)
(* the method only changes from a live one to the node, with the fallback  *)
(* that is then lost.                                                      *)
Shaped(o) ==
  DOMAIN o = {"method", "tries", "queued", "discovery", "link", "reused", "to", "deposit",
              "flying", "proofs", "fallback", "converted"}

Onward(o, r) ==
  /\ Shaped(r)
  /\ r.fallback => o.fallback
  /\ o.method = "propagated" => r.method = "propagated"
  /\ r.method = "propagated" => o.method = "propagated" \/ o.fallback

LEMMA OutcomeOwn == \A o, step : Outcome(o, step).own = o
BY DEF Outcome

LEMMA OnwardTransitive ==
  ASSUME NEW o, NEW r, NEW s, Onward(o, r), Onward(r, s)
  PROVE  Onward(o, s)
BY DEF Onward

LEMMA RequeuedOnward ==
  ASSUME NEW o, Shaped(o), NEW r \in Requeued(o)
  PROVE  Onward(o, r)
BY DEF Requeued, Shaped, Onward

LEMMA KeptOnward ==
  ASSUME NEW o, Shaped(o), NEW r \in Kept(o)
  PROVE  Onward(o, r)
BY DEF Kept, Requeued, Shaped, Onward

LEMMA PlainOnward ==
  ASSUME NEW o, Shaped(o)
  PROVE  /\ Onward(o, o)
         /\ Onward(o, Unbound(o)) /\ Onward(o, Refunded(o)) /\ Onward(o, Spent(o))
         /\ Onward(o, Stopped(o)) /\ Onward(o, Completed(o))
         /\ \A b \in BOOLEAN : Onward(o, [o EXCEPT !.queued = b])
         /\ o.fallback => Onward(o, ToNode(o))
BY DEF Unbound, Refunded, Spent, Stopped, Completed, Shaped, Onward, ToNode

LEMMA StartPropagationOnward ==
  ASSUME NEW o, Shaped(o), NEW r \in StartPropagation(o)
  PROVE  Onward(o, r.own)
<1>1. ASSUME NEW q, Onward(o, q), r \in Deferred(q) PROVE Onward(o, r.own)
  BY <1>1, RequeuedOnward, OnwardTransitive DEF Deferred, Outcome, Onward
<1>2. ASSUME NEW e, r \in Deposit(o, e) PROVE Onward(o, r.own)
  <2>1. r \in Deferred(Refunded(o)) \/ r.own = o
          \/ r.own = [o EXCEPT !.link = "open", !.to = "node", !.deposit = TRUE]
    BY <1>2 DEF Deposit, Outcome
  <2>2. Onward(o, [o EXCEPT !.link = "open", !.to = "node", !.deposit = TRUE])
    BY DEF Shaped, Onward
  <2> QED BY <1>1, <2>1, <2>2, PlainOnward
<1> QED BY <1>1, <1>2, PlainOnward DEF StartPropagation

LEMMA GiveUpOnward ==
  ASSUME NEW o, Shaped(o), NEW r \in GiveUp(o)
  PROVE  Onward(o, r.own)
<1>1. CASE r = Failed(o)
  BY <1>1, PlainOnward DEF Failed, Outcome
<1>2. CASE o.fallback /\ r \in StartPropagation(ToNode(o))
  <2>1. Onward(o, ToNode(o))
    BY <1>2, PlainOnward
  <2> QED BY <1>2, <2>1, StartPropagationOnward, OnwardTransitive DEF Onward
<1> QED BY <1>1, <1>2 DEF GiveUp

LEMMA StartLinkOnward ==
  ASSUME NEW o, Shaped(o), NEW r \in StartLink(o)
  PROVE  Onward(o, r.own)
<1>1. /\ Onward(o, [o EXCEPT !.link = "open", !.to = "recipient"])
      /\ Onward(o, [o EXCEPT !.queued = TRUE]) /\ Onward(o, [o EXCEPT !.queued = FALSE])
  BY PlainOnward DEF Shaped, Onward
<1>2. CASE r \in GiveUp([o EXCEPT !.queued = FALSE])
  BY <1>1, <1>2, GiveUpOnward, OnwardTransitive DEF Onward
<1>3. CASE r \notin GiveUp([o EXCEPT !.queued = FALSE])
  <2>1. r = Outcome([o EXCEPT !.link = "open", !.to = "recipient"], "moving")
          \/ r = Outcome([o EXCEPT !.queued = TRUE], "moving")
    BY <1>3 DEF StartLink
  <2> QED BY <1>1, <2>1, OutcomeOwn
<1> QED BY <1>2, <1>3

LEMMA BackchannelOnward ==
  ASSUME NEW o, Shaped(o), NEW r \in Backchannel(o)
  PROVE  Onward(o, r.own)
<1>1. Shaped(Spent(o)) /\ Onward(o, Spent(o))
  BY PlainOnward DEF Onward
<1> DEFINE q == Spent(o)
<1> HIDE DEF q
<1>2. Onward(q, [q EXCEPT !.link = "open", !.to = "recipient"])
  BY <1>1 DEF q, Shaped, Onward
<1>3. r.own = [q EXCEPT !.link = "open", !.to = "recipient"]
  BY DEF Backchannel, Outcome, q
<1> QED BY <1>1, <1>2, <1>3, OnwardTransitive DEF q

LEMMA PlanDirectOnward ==
  ASSUME NEW o, Shaped(o), NEW r \in PlanDirect(o)
  PROVE  Onward(o, r.own)
<1> DEFINE again == [o EXCEPT !.reused = TRUE]
<1>1. Onward(o, again) /\ Onward(o, Spent(o)) /\ Onward(o, o)
      /\ Onward(o, [o EXCEPT !.queued = FALSE])
  BY PlainOnward DEF Shaped, Onward
<1> HIDE DEF again
<1>2. ASSUME NEW q, Onward(o, q), NEW k \in Kept(q), r.own = k PROVE Onward(o, r.own)
  BY <1>2, KeptOnward, OnwardTransitive DEF Onward
<1>3. ASSUME NEW q, Onward(o, q), r \in Backchannel(q) \union StartLink(q)
      PROVE  Onward(o, r.own)
  BY <1>3, BackchannelOnward, StartLinkOnward, OnwardTransitive DEF Onward
<1>4. \/ \E k \in Kept(o) \union Kept(Spent(o)) : r.own = k
      \/ r \in Backchannel(again) \union StartLink(again) \union StartLink(Spent(o))
      \/ r.own = [o EXCEPT !.queued = FALSE]
  <2>1. CASE o.link # "none"
    <3>1. \E k \in Kept(o) : r = Outcome(k, "moving")
      BY <2>1 DEF PlanDirect
    <3> QED BY <3>1, OutcomeOwn
  <2>2. CASE o.link = "none"
    <3>1. \/ \E k \in Kept(o) \union Kept(Spent(o)), step \in {"none", "moving"} :
               r = Outcome(k, step)
          \/ r \in Backchannel(again) \union StartLink(again) \union StartLink(Spent(o))
          \/ r = Outcome([o EXCEPT !.queued = FALSE], "failed")
      BY <2>2 DEF PlanDirect, again
    <3> QED BY <3>1, OutcomeOwn
  <2> QED BY <2>1, <2>2
<1> QED BY <1>1, <1>2, <1>3, <1>4

LEMMA DispatchedOnward ==
  ASSUME NEW o, Shaped(o), NEW r \in Dispatched(o)
  PROVE  Onward(o, r.own)
<1> DEFINE q == Spent(o)
           Sent(p) == [q EXCEPT !.flying = p, !.proofs[p] = "queued"]
           free == {p \in Packets : /\ o.proofs[p] = "unused"
                                   /\ \A n \in 1..(p - 1) : o.proofs[n] # "unused"}
<1>1. Onward(o, q) /\ Shaped(q)
  BY PlainOnward DEF Onward
<1>2. Dispatched(o) = {Outcome(Sent(p), "moving") : p \in free}
                        \union {Outcome(k, "moving") : k \in Requeued(o)}
  BY DEF Dispatched
<1> HIDE DEF q
<1>3. \A p : Onward(q, Sent(p))
  BY <1>1 DEF Shaped, Onward
<1> HIDE DEF Sent, free
<1>4. (\E p : r = Outcome(Sent(p), "moving")) \/ \E k \in Requeued(o) : r = Outcome(k, "moving")
  BY <1>2
<1> QED BY <1>1, <1>3, <1>4, OutcomeOwn, RequeuedOnward, OnwardTransitive

LEMMA DeliverOnward ==
  ASSUME NEW o, Shaped(o), NEW r \in Deliver(o)
  PROVE  Onward(o, r.own)
<1> DEFINE taken == [o EXCEPT !.queued = FALSE]
<1>1. Onward(o, taken) /\ Shaped(taken)
  BY PlainOnward DEF Onward
<1> HIDE DEF taken
<1>2. Onward(taken, Spent(taken)) /\ Shaped(Spent(taken))
  BY <1>1, PlainOnward DEF Onward
<1>3. r = Failed(taken) \/ r \in GiveUp(taken) \/ r \in PlanDirect(o)
        \/ r \in DeliverOpportunistic(taken) \/ r \in StartPropagation(Spent(taken))
  BY DEF Deliver, taken
<1>4. CASE r = Failed(taken) \/ r \in GiveUp(taken)
  BY <1>1, <1>4, PlainOnward, GiveUpOnward, OnwardTransitive DEF Failed, Outcome
<1>5. CASE r \in PlanDirect(o)
  BY <1>5, PlanDirectOnward
<1>6. CASE r \in StartPropagation(Spent(taken))
  BY <1>1, <1>2, <1>6, StartPropagationOnward, OnwardTransitive
<1>7. CASE r \in DeliverOpportunistic(taken)
  <2>1. SUFFICES Onward(taken, r.own)
    BY <1>1, OnwardTransitive
  <2>2. CASE r \in PlanDirect(taken)
    BY <1>1, <2>2, PlanDirectOnward
  <2>3. CASE \E k \in Requeued(taken) \union Requeued(Spent(taken)) : r.own = k
    BY <1>1, <1>2, <2>3, RequeuedOnward, OnwardTransitive
  <2>4. CASE r = Failed(taken)
    BY <1>1, <2>4, PlainOnward DEF Failed, Outcome
  <2>5. CASE r \in Dispatched(taken)
    BY <1>1, <2>5, DispatchedOnward
  <2>6. \/ r \in PlanDirect(taken) \/ r = Failed(taken)
        \/ \E k \in Requeued(taken) \union Requeued(Spent(taken)), step \in {"none", "moving"} :
             r = Outcome(k, step)
        \/ r \in Dispatched(taken)
    <3>2. CASE r \in Escalated(taken) \union Unpacked(taken)
      BY <3>2 DEF Escalated, Unpacked
    <3> QED BY <1>7, <3>2 DEF DeliverOpportunistic
  <2> QED BY <2>2, <2>3, <2>4, <2>5, <2>6, OutcomeOwn
<1> QED BY <1>3, <1>4, <1>5, <1>6, <1>7

LEMMA PrepareOnward ==
  ASSUME NEW o, Shaped(o), NEW r \in Prepare(o)
  PROVE  Onward(o, r.own)
<1> DEFINE ready == [o EXCEPT !.discovery = "none"]
<1>1. Onward(o, ready)
  BY DEF Shaped, Onward
<1> HIDE DEF ready
<1>2. ASSUME NEW how, how = o.method \/ (how \in Live /\ o.method \in Live),
             r.own = [ready EXCEPT !.method = how]
      PROVE  Onward(o, r.own)
  <2>1. o.method = "propagated" <=> how = "propagated"
    BY <1>2 DEF Live
  <2>2. ready.method = o.method
    BY DEF ready, Shaped
  <2>3. Onward(ready, [ready EXCEPT !.method = how])
    BY <1>1, <2>1, <2>2 DEF Shaped, Onward
  <2> QED BY <1>1, <1>2, <2>3, OnwardTransitive
<1>3. CASE r \in GiveUp([ready EXCEPT !.queued = FALSE])
  <2>1. Onward(ready, [ready EXCEPT !.queued = FALSE])
    BY <1>1, PlainOnward DEF Onward
  <2> DEFINE q == [ready EXCEPT !.queued = FALSE]
  <2> HIDE DEF q
  <2>2. Onward(o, q) /\ Shaped(q) /\ r \in GiveUp(q)
    BY <1>1, <1>3, <2>1, OnwardTransitive DEF q, Onward
  <2> QED BY <2>2, GiveUpOnward, OnwardTransitive
<1>4. CASE r.own = o \/ r.own = [o EXCEPT !.discovery = "waiting"]
  BY <1>4 DEF Shaped, Onward
<1>5. CASE ~o.queued \/ o.method \notin Live \/ o.tries > MaxAttempts
  <2>1. r = Outcome(o, "none")
    BY <1>5 DEF Prepare
  <2> QED BY <1>4, <2>1, OutcomeOwn
<1>6. CASE o.method \in Live /\ o.queued /\ ~(o.tries > MaxAttempts)
  <2>1. ready.method = o.method
    BY DEF ready, Shaped
  <2>2. CASE o.link # "none"
    <3>1. \E how \in {"direct", o.method} : r.own = [ready EXCEPT !.method = how]
      <4>1. \E how \in {"direct", o.method} : r = Outcome([ready EXCEPT !.method = how], "none")
        <5>1. r = Outcome([ready EXCEPT !.method = IF o.fallback /\ o.tries = 0
                                                   THEN "direct" ELSE @], "none")
          BY <1>6, <2>2 DEF Prepare, ready
        <5> QED BY <2>1, <5>1
      <4> QED BY <4>1, OutcomeOwn
    <3> QED BY <1>2, <1>6, <3>1 DEF Live
  <2>3. CASE o.link = "none"
    <3>1. \/ \E how \in Live \union {o.method} : r.own = [ready EXCEPT !.method = how]
          \/ r.own = o \/ r.own = [o EXCEPT !.discovery = "waiting"]
          \/ r \in GiveUp([ready EXCEPT !.queued = FALSE])
      <4>1. \/ \E how \in Live \union {o.method} :
                 r = Outcome([ready EXCEPT !.method = how], "none")
            \/ r = Outcome(o, "none")
            \/ r = Outcome([o EXCEPT !.discovery = "waiting"], "moving")
            \/ r \in GiveUp([ready EXCEPT !.queued = FALSE])
        <5> DEFINE auto == o.fallback /\ o.tries = 0
        <5>1. r \in {Outcome([ready EXCEPT !.method = how], "none") :
                        how \in IF auto THEN Live ELSE {o.method}}
                \/ r \in CASE o.discovery = "none" ->
                               {Outcome([o EXCEPT !.discovery = "waiting"], "moving")}
                          [] o.discovery = "waiting" -> {Outcome(o, "none")}
                          [] OTHER -> GiveUp([ready EXCEPT !.queued = FALSE])
          BY <1>6, <2>3 DEF Prepare, ready
        <5> HIDE DEF auto
        <5> QED BY <5>1
      <4> QED BY <4>1, OutcomeOwn
    <3> QED BY <1>2, <1>3, <1>4, <1>6, <3>1
  <2> QED BY <2>2, <2>3
<1> QED BY <1>5, <1>6

LEMMA PollOnward ==
  ASSUME NEW o, Shaped(o), NEW r \in PollProofs(o)
  PROVE  Onward(o, r.own)
<1> DEFINE refused == {p \in Packets : o.proofs[p] = "refused"}
           dropped == [o EXCEPT !.proofs = [p \in Packets |->
                         IF p \in refused THEN "gone" ELSE @[p]]]
           freed == [Refunded(dropped) EXCEPT !.flying = 0]
<1>1. Onward(o, dropped) /\ Shaped(dropped)
  BY DEF Shaped, Onward
<1>2. r.own = Completed(o) \/ r.own = dropped \/ \E q \in Requeued(freed) : r.own = q
  BY DEF PollProofs, Outcome
<1> HIDE DEF dropped
<1>3. Onward(dropped, freed) /\ Shaped(freed)
  <2>1. Onward(dropped, Refunded(dropped)) /\ Shaped(Refunded(dropped))
    BY <1>1, PlainOnward DEF Onward
  <2> DEFINE q == Refunded(dropped)
  <2> HIDE DEF q
  <2>2. Onward(dropped, q) /\ Shaped(q)
    BY <2>1 DEF q
  <2>3. Onward(q, [q EXCEPT !.flying = 0]) /\ Shaped([q EXCEPT !.flying = 0])
    BY <2>2 DEF Shaped, Onward
  <2> QED BY <2>2, <2>3, OnwardTransitive DEF q
<1> HIDE DEF freed
<1> QED BY <1>1, <1>2, <1>3, PlainOnward, RequeuedOnward, OnwardTransitive

LEMMA RetryOnward ==
  ASSUME NEW o, Shaped(o), NEW r \in RetryDue(o)
  PROVE  Onward(o, r.own)
<1> DEFINE landed == [o EXCEPT !.flying = 0]
<1>1. Onward(o, landed) /\ Shaped(landed)
  BY DEF Shaped, Onward
<1>2. r.own = o \/ r.own = [o EXCEPT !.flying = 0, !.queued = TRUE] \/ r.own = Unbound(landed)
  BY DEF RetryDue, Failed, Outcome
<1>3. Onward(o, [o EXCEPT !.flying = 0, !.queued = TRUE])
  BY DEF Shaped, Onward
<1> HIDE DEF landed
<1> QED BY <1>1, <1>2, <1>3, PlainOnward, OnwardTransitive

LEMMA ConcludedOnward ==
  ASSUME NEW o, Shaped(o), NEW r \in Concluded(o)
  PROVE  Onward(o, r.own)
<1>1. CASE r \in LinkComplete(o)
  <2>1. Onward(o, Completed(o)) /\ Shaped(Completed(o))
    BY PlainOnward DEF Onward
  <2> DEFINE q == Completed(o)
             b == o.queued /\ o.deposit
  <2>2. r.own = [q EXCEPT !.queued = b]
    BY <1>1 DEF LinkComplete, Outcome
  <2> HIDE DEF q, b
  <2>3. Onward(o, q) /\ Shaped(q)
    BY <2>1 DEF q
  <2>4. Onward(q, [q EXCEPT !.queued = b])
    BY <2>3 DEF Shaped, Onward
  <2> QED BY <2>2, <2>3, <2>4, OnwardTransitive
<1>2. CASE r \in LinkRejected(o)
  <2> DEFINE u == Unbound(o)
             free == [u EXCEPT !.link = "none", !.deposit = FALSE]
  <2>1. r.own = free \/ r.own = [free EXCEPT !.queued = FALSE]
    BY <1>2 DEF LinkRejected, Outcome
  <2>2. Onward(o, u) /\ Shaped(u)
    BY PlainOnward DEF Onward
  <2> HIDE DEF u
  <2>3. Onward(u, free) /\ Onward(u, [free EXCEPT !.queued = FALSE])
    BY <2>2 DEF Shaped, Onward
  <2> QED BY <2>1, <2>2, <2>3, OnwardTransitive
<1>3. CASE r \in LinkFailed(o)
  <2> DEFINE free == [o EXCEPT !.link = "none", !.deposit = FALSE]
  <2>1. Onward(o, free) /\ Shaped(free)
    BY DEF Shaped, Onward
  <2>2. r.own = Unbound(free) \/ r.own = [free EXCEPT !.queued = TRUE]
          \/ r \in GiveUp([free EXCEPT !.queued = FALSE])
    BY <1>3 DEF LinkFailed, Outcome
  <2> HIDE DEF free
  <2>3. /\ Onward(free, Unbound(free)) /\ Onward(free, [free EXCEPT !.queued = TRUE])
        /\ Onward(free, [free EXCEPT !.queued = FALSE]) /\ Shaped([free EXCEPT !.queued = FALSE])
    BY <2>1, PlainOnward DEF Onward
  <2> QED BY <2>1, <2>2, <2>3, GiveUpOnward, OnwardTransitive
<1> QED BY <1>1, <1>2, <1>3, PlainOnward DEF Concluded, Outcome
-----------------------------------------------------------------------------
(* Every step of the system gives up ways and ends messages, sends one, or *)
(* lets one arrive.                                                        *)

Gives(o, r) == (Idle(o) => Idle(r)) /\ (Idle(r) \/ Onward(o, r))

(* The watchdog has stored the end and has yet to stop the owners.         *)
Hidden(m) == at = "stop" /\ m \in late

LateInv == \A m \in Messages : Hidden(m) => row[m] = "timeout"

Settles ==
  /\ reached' = reached
  /\ \A m \in Messages :
       /\ Gives(own[m], own'[m])
       /\ row'[m] = row[m] \/ (row[m] = "open" /\ row'[m] \in Terminal)
       /\ Hidden(m)' => Hidden(m) \/ (row[m] = "open" /\ row'[m] = "timeout")

Sends(m) ==
  /\ row[m] = "none" /\ row' = [row EXCEPT ![m] = "open"]
  /\ ~Idle(own'[m]) /\ \A n \in Messages \ {m} : own'[n] = own[n]
  /\ UNCHANGED <<at, late, reached>>

Arrives(m) ==
  /\ row[m] # "none" /\ \A n \in Messages : Doing(own'[n]) = Doing(own[n])
  /\ \E place \in Places :
       /\ place = "node" => Doing(own[m]) = "node"
       /\ reached' = [reached EXCEPT ![m] = @ \union {place}]
  /\ UNCHANGED <<at, late, row>>

LEMMA OwnersShaped ==
  ASSUME NEW o \in Owners PROVE Shaped(o)
BY DEF Owners, Shaped

LEMMA GivesItself ==
  ASSUME NEW o, Shaped(o) PROVE Gives(o, o)
BY PlainOnward DEF Gives

LEMMA OwnerSettles ==
  ASSUME IInv, NEW m \in Messages, NEW o, own' = [own EXCEPT ![m] = o], Gives(own[m], o),
         UNCHANGED <<at, late, row, reached>>
  PROVE  Settles
<1>1. own \in [Messages -> Owners]
  BY DEF IInv, TypeOK
<1>2. \A n \in Messages : own'[n] = IF n = m THEN o ELSE own[n]
  BY <1>1
<1>3. \A n \in Messages : Gives(own[n], own'[n])
  BY <1>1, <1>2, OwnersShaped, GivesItself
<1> QED BY <1>3 DEF Settles, Hidden

LEMMA VisitSettles ==
  ASSUME IInv, NEW m, NEW outcomes, at \in Locked, Visit(m, outcomes),
         \A r \in outcomes : Onward(own[m], r.own) /\ (Idle(own[m]) => Idle(r.own))
  PROVE  Settles
<1>1. TypeOK /\ m \in Messages
  BY DEF IInv, TypeOK, Visit
<1>2. PICK r \in outcomes : own' = [own EXCEPT ![m] = r.own]
  BY DEF Visit
<1>3. UNCHANGED <<late, row, reached>>
  BY DEF Visit
<1>4. at' # "stop"
  <2>1. at' \in Locked \union {"persist"}
    BY AfterType DEF Visit, Next1
  <2> QED BY <2>1 DEF Locked, Stages
<1>5. \A n \in Messages : own'[n] = IF n = m THEN r.own ELSE own[n]
  BY <1>1, <1>2 DEF TypeOK
<1>6. \A n \in Messages : Gives(own[n], own'[n])
  <2>1. ASSUME NEW n \in Messages \ {m} PROVE Gives(own[n], own'[n])
    BY <1>1, <1>5, OwnersShaped, GivesItself DEF TypeOK
  <2> QED BY <1>1, <1>2, <1>5, <2>1 DEF Gives
<1> QED BY <1>3, <1>4, <1>6 DEF Settles, Hidden

LEMMA TickingSettles ==
  ASSUME IInv, NEW m \in Messages, Ticking(m)
  PROVE  Settles
<1> DEFINE o == own[m]
           places == reached[m]
<1>1. Fit(o, places) /\ Shaped(o)
  BY OwnersShaped DEF IInv, OwnInv, Fit, Sound
<1> HIDE DEF o, places
<1>2. Locked = {"proofs", "retry", "backchannel", "prepare", "outbound", "links"}
  BY DEF Locked, Stages
<1>3. Onward(o, o)
  BY <1>1, PlainOnward
<1>4. CASE VisitProofs(m)
  BY <1>1, <1>2, <1>4, PollGood, PollOnward, VisitSettles DEF VisitProofs, o, places
<1>5. CASE VisitRetry(m)
  <2>1. \A r \in RetryDue(o) : Idle(o) => Idle(r.own)
    BY OutcomeOwn DEF RetryDue, Idle
  <2> QED BY <1>1, <1>2, <1>5, <2>1, RetryOnward, VisitSettles DEF VisitRetry, o
<1>6. CASE VisitLinks(m)
  <2>1. \A r \in Concluded(o) : Idle(o) => Idle(r.own)
    BY OutcomeOwn DEF Concluded, Idle
  <2> QED BY <1>1, <1>2, <1>6, <2>1, ConcludedOnward, VisitSettles DEF VisitLinks, o
<1>7. CASE VisitPrepare(m)
  <2>1. \A r \in Prepare(o) : Idle(o) => Idle(r.own)
    BY OutcomeOwn DEF Prepare, Idle
  <2> QED BY <1>1, <1>2, <1>7, <2>1, PrepareOnward, VisitSettles DEF VisitPrepare, o
<1>8. CASE VisitDue(m)
  BY <1>1, <1>2, <1>8, DeliverOnward, VisitSettles DEF VisitDue, Due, Idle, o
<1>9. CASE VisitNotDue(m)
  <2>1. \A r \in {Outcome(o, "none")} : r.own = o
    BY OutcomeOwn
  <2> QED BY <1>2, <1>3, <1>9, <2>1, VisitSettles DEF VisitNotDue, o
<1> QED BY <1>4, <1>5, <1>6, <1>7, <1>8, <1>9 DEF Ticking

(* Proofs of packets change, links end and discoveries expire without a    *)
(* change of ways.                                                         *)
LEMMA SameWays ==
  ASSUME NEW o \in Owners, NEW r, Shaped(r), r.method = o.method, r.fallback = o.fallback,
         r.queued = o.queued, r.flying = o.flying, (r.link = "none") <=> (o.link = "none")
  PROVE  Gives(o, r) /\ Doing(r) = Doing(o)
BY DEF Gives, Onward, Idle, Doing

LEMMA ProofsSameWays ==
  ASSUME NEW o \in Owners, NEW p \in Packets, NEW to
  PROVE  /\ Gives(o, [o EXCEPT !.proofs[p] = to])
         /\ Doing([o EXCEPT !.proofs[p] = to]) = Doing(o)
<1> DEFINE f == [o.proofs EXCEPT ![p] = to]
           r == [o EXCEPT !.proofs = f]
<1>1. [o EXCEPT !.proofs[p] = to] = r
  BY DEF Owners
<1> HIDE DEF f
<1>2. /\ Shaped(r) /\ r.method = o.method /\ r.fallback = o.fallback /\ r.queued = o.queued
      /\ r.flying = o.flying /\ r.link = o.link
  BY OwnersShaped DEF Shaped
<1> HIDE DEF r
<1> QED BY <1>1, <1>2, SameWays

LEMMA CarryingMaps ==
  ASSUME IInv, NEW m \in Messages, Carrying(m) \/ Passing(m)
  PROVE  Settles \/ Arrives(m)
<1> USE DEF loopv
<1>1. own[m] \in Owners /\ own \in [Messages -> Owners]
  BY DEF IInv, TypeOK
<1>2. \A p \in Packets : \A to : [own EXCEPT ![m].proofs[p] = to] =
                                  [own EXCEPT ![m] = [own[m] EXCEPT !.proofs[p] = to]]
  OBVIOUS
<1>3. ASSUME NEW p \in Packets, PacketSent(m, p) \/ PacketEnds(m, p) PROVE Settles
  <2>1. PICK to : own' = [own EXCEPT ![m].proofs[p] = to]
    BY <1>3 DEF PacketSent, PacketEnds
  <2>2. UNCHANGED <<at, late, row, reached>>
    BY <1>3 DEF PacketSent, PacketEnds
  <2> QED BY <1>1, <1>2, <2>1, <2>2, ProofsSameWays, OwnerSettles
<1>4. ASSUME NEW p \in Packets, PacketArrives(m, p) PROVE Arrives(m)
  <2>1. row[m] # "none"
    BY <1>4 DEF IInv, BlankInv, Blank, HasProofs, PacketArrives
  <2>2. \A n \in Messages : Doing(own'[n]) = Doing(own[n])
    <3>1. CASE own' = [own EXCEPT ![m].proofs[p] = "proved"]
      <4>1. own' = [own EXCEPT ![m] = [own[m] EXCEPT !.proofs[p] = "proved"]]
        BY <1>2, <3>1
      <4>2. Doing([own[m] EXCEPT !.proofs[p] = "proved"]) = Doing(own[m])
        BY <1>1, ProofsSameWays
      <4> QED BY <1>1, <4>1, <4>2
    <3> QED BY <1>4, <3>1 DEF PacketArrives
  <2> QED BY <1>4, <2>1, <2>2 DEF PacketArrives, Arrives, Places
<1>5. CASE LinkEnds(m)
  <2>1. PICK how \in {"complete", "rejected", "failed"}, arrived \in BOOLEAN :
          /\ own' = [own EXCEPT ![m].link = how]
          /\ reached' = [reached EXCEPT ![m] =
                           IF arrived THEN @ \union {own[m].to} ELSE @]
    BY <1>5 DEF LinkEnds
  <2>2. own[m].link = "open" /\ UNCHANGED <<at, late, row>>
    BY <1>5 DEF LinkEnds
  <2> DEFINE n == [own[m] EXCEPT !.link = how]
  <2>3. own' = [own EXCEPT ![m] = n]
    BY <2>1
  <2>4. /\ Shaped(n) /\ n.method = own[m].method /\ n.fallback = own[m].fallback
        /\ n.queued = own[m].queued /\ n.flying = own[m].flying /\ n.link = how
    BY <1>1, OwnersShaped DEF Shaped
  <2> HIDE DEF n
  <2>5. Gives(own[m], n) /\ Doing(n) = Doing(own[m])
    BY <1>1, <2>2, <2>4, SameWays
  <2>6. CASE arrived
    <3>1. row[m] # "none"
      BY <2>2 DEF IInv, BlankInv, Blank, Idle
    <3>2. own[m].to = "node" => Doing(own[m]) = "node"
      <4>1. own[m].to = "node" => own[m].method = "propagated"
        <5>1. Fit(own[m], reached[m])
          BY DEF IInv, OwnInv
        <5> QED BY <2>2, <5>1 DEF Fit, Sound
      <4> QED BY <2>2, <4>1 DEF Doing
    <3>3. \A k \in Messages : Doing(own'[k]) = Doing(own[k])
      BY <1>1, <2>3, <2>5
    <3>4. own[m].to \in Places
      BY <1>1 DEF Owners
    <3> QED BY <2>1, <2>2, <2>6, <3>1, <3>2, <3>3, <3>4 DEF Arrives
  <2>7. CASE ~arrived
    <3>1. reached' = reached
      BY <2>1, <2>7 DEF IInv, TypeOK
    <3> QED BY <2>2, <2>3, <2>5, <3>1, OwnerSettles
  <2> QED BY <2>6, <2>7
<1>6. CASE ClockRuns(m)
  <2>1. own' = own /\ UNCHANGED <<at, late, row, reached>>
    BY <1>6 DEF ClockRuns
  <2>2. own' = [own EXCEPT ![m] = own[m]]
    BY <1>1, <2>1
  <2>3. Gives(own[m], own[m])
    BY <1>1, OwnersShaped, GivesItself
  <2> QED BY <2>1, <2>2, <2>3, OwnerSettles
<1>7. CASE DiscoveryEnds(m)
  <2> DEFINE n == [own[m] EXCEPT !.discovery = "expired"]
  <2>1. own' = [own EXCEPT ![m] = n] /\ UNCHANGED <<at, late, row, reached>>
    BY <1>7 DEF DiscoveryEnds
  <2>2. /\ Shaped(n) /\ n.method = own[m].method /\ n.fallback = own[m].fallback
        /\ n.queued = own[m].queued /\ n.flying = own[m].flying /\ n.link = own[m].link
    BY <1>1, OwnersShaped DEF Shaped
  <2> HIDE DEF n
  <2> QED BY <1>1, <2>1, <2>2, SameWays, OwnerSettles
<1> QED BY <1>3, <1>4, <1>5, <1>6, <1>7 DEF Carrying, Passing

LEMMA ActingMaps ==
  ASSUME IInv, NEW m \in Messages, Acting(m)
  PROVE  Settles \/ Sends(m)
<1> USE DEF loopv, taskv, uiv
<1>1. TypeOK /\ own[m] \in Owners /\ Shaped(own[m])
  BY OwnersShaped DEF IInv, TypeOK
<1>2. ASSUME NEW step \in Terminal, row' = [row EXCEPT ![m] = Transition(m, step)],
             UNCHANGED <<own, at, late, reached>>
      PROVE  Settles
  <2>1. \A n \in Messages : row'[n] = row[n] \/ (row[n] = "open" /\ row'[n] \in Terminal)
    BY <1>1, <1>2 DEF TypeOK, Transition
  <2>2. \A n \in Messages : Gives(own[n], own'[n])
    BY <1>1, <1>2, OwnersShaped, GivesItself DEF TypeOK
  <2> QED BY <1>2, <2>1, <2>2 DEF Settles, Hidden
<1>3. ASSUME NEW how \in Live \union {"propagated"}, NEW auto \in BOOLEAN, Send(m, how, auto)
      PROVE  Sends(m)
  <2> DEFINE n == [Nothing EXCEPT !.method = how, !.queued = TRUE, !.fallback = auto]
  <2>1. own'[m] = n /\ \A k \in Messages \ {m} : own'[k] = own[k]
    BY <1>1, <1>3 DEF Send, TypeOK
  <2>2. n.queued
    BY NothingOwner DEF Owners
  <2> HIDE DEF n
  <2> QED BY <1>3, <2>1, <2>2 DEF Send, Sends, Idle
<1>4. CASE CancelOwners(m)
  <2>1. Idle(Stopped(own[m]))
    BY <1>1, CompletedFit DEF IInv, OwnInv, Blank
  <2> QED BY <1>1, <1>4, <2>1, OwnerSettles DEF CancelOwners, Gives
<1>5. CASE CancelRow(m)
  BY <1>2, <1>5 DEF CancelRow, Terminal
<1>6. CASE ProofCompletes(m)
  <2>1. Idle(Completed(own[m]))
    BY <1>1, CompletedFit DEF IInv, OwnInv, Blank
  <2> QED BY <1>1, <1>6, <2>1, OwnerSettles DEF ProofCompletes, Gives
<1>7. CASE ProofStored(m)
  BY <1>2, <1>7 DEF ProofStored, Terminal
<1> QED BY <1>3, <1>4, <1>5, <1>6, <1>7 DEF Acting

LEMMA RestSettles ==
  ASSUME IInv, BeginTick \/ Wake \/ Storing \/ Restart \/ UNCHANGED vars
  PROVE  Settles
<1> USE DEF loopv, taskv, uiv
<1>1. TypeOK
  BY DEF IInv
<1>2. \A m \in Messages : Gives(own[m], own[m])
  BY <1>1, OwnersShaped, GivesItself DEF TypeOK
<1>3. CASE BeginTick \/ Wake \/ Emit \/ Watch \/ UNCHANGED vars
  <2>1. /\ own' = own /\ row' = row /\ reached' = reached
        /\ at' # "stop" \/ (at' = at /\ late' = late)
    <3>1. Stages[1] = "proofs"
      BY DEF Stages
    <3> QED BY <1>3, <3>1 DEF BeginTick, Wake, Emit, Watch, vars
  <2> QED BY <1>2, <2>1 DEF Settles, Hidden
<1>4. CASE Persist
  <2>1. \A m \in Messages : row'[m] = row[m] \/ (row[m] = "open" /\ row'[m] \in Terminal)
    BY <1>1, <1>4 DEF Persist, Transition, TypeOK
  <2> QED BY <1>2, <1>4, <2>1 DEF Persist, Settles, Hidden
<1>5. CASE Stamp
  BY <1>1, <1>2, <1>5 DEF Stamp, Transition, Settles, Hidden, Terminal
<1>6. CASE StopLate
  <2>1. \A m \in Messages : Gives(own[m], own'[m])
    <3>1. \A m \in Messages : Idle(Stopped(own[m]))
      BY CompletedFit DEF IInv, OwnInv, Blank
    <3>2. \A m \in Messages : own'[m] = IF m \in late THEN Stopped(own[m]) ELSE own[m]
      BY <1>6 DEF StopLate
    <3> QED BY <1>2, <3>1, <3>2 DEF Gives
  <2> QED BY <1>6, <2>1 DEF StopLate, Settles, Hidden
<1>7. CASE Restart
  <2>1. \A m \in Messages : Gives(own[m], own'[m])
    <3>1. \A m \in Messages : own[m].converted \in 0..1
      BY DEF IInv, OwnInv, Fit, Sound
    <3>2. \A m \in Messages : own'[m] = [Nothing EXCEPT !.converted = own[m].converted]
      BY <1>7 DEF Restart
    <3> QED BY <3>1, <3>2, NothingFit DEF Gives, Blank
  <2>2. \A m \in Messages : row'[m] = row[m] \/ (row[m] = "open" /\ row'[m] \in Terminal)
    BY <1>7 DEF Restart, Transition
  <2> QED BY <1>7, <2>1, <2>2 DEF Restart, Settles, Hidden
<1> QED BY <1>3, <1>4, <1>5, <1>6, <1>7 DEF Storing

LEMMA EveryStepMaps ==
  ASSUME IInv, [Next]_vars
  PROVE  Settles \/ \E m \in Messages : Sends(m) \/ Arrives(m)
BY RestSettles, TickingSettles, CarryingMaps, ActingMaps DEF Next

LEMMA LateHolds ==
  ASSUME IInv, LateInv, [Next]_vars
  PROVE  LateInv'
<1>1. CASE Settles
  BY <1>1 DEF Settles, LateInv
<1>2. ASSUME NEW m \in Messages, Sends(m) \/ Arrives(m) PROVE LateInv'
  <2>1. \A n \in Messages : Hidden(n)' <=> Hidden(n)
    BY <1>2 DEF Sends, Arrives, Hidden
  <2>2. \A n \in Messages : row'[n] = row[n] \/ row[n] = "none"
    BY <1>2 DEF Sends, Arrives, IInv, TypeOK
  <2> QED BY <2>1, <2>2 DEF LateInv
<1> QED BY <1>1, <1>2, EveryStepMaps

LEMMA AlwaysLateInv == Spec => []LateInv
<1>1. Init => LateInv
  BY DEF Init, LateInv, Hidden
<1> QED BY <1>1, LateHolds, AlwaysIInv, PTL DEF Spec

-----------------------------------------------------------------------------
(* The same steps, seen through the mapping.                               *)

States == [m \in Messages |-> IF at = "stop" /\ m \in late THEN "open" ELSE row[m]]
Doings == [m \in Messages |-> Doing(own[m])]

LEMMA WaysLeft ==
  ASSUME NEW o, NEW r, Gives(o, r)
  PROVE  Doing(r) \in Sending!Left(Doing(o)) /\ Doing(r) \in Sending!Ways
<1>1. Doing(o) \in {"auto", "live", "node", "nothing"}
      /\ (Doing(o) = "nothing" <=> Idle(o)) /\ (Doing(r) = "nothing" <=> Idle(r))
      /\ Doing(r) \in {"auto", "live", "node", "nothing"}
  BY DEF Doing, Idle
<1>2. CASE Idle(r)
  BY <1>1, <1>2 DEF Sending!Left, Sending!Ways
<1>3. CASE ~Idle(r)
  <2>1. Onward(o, r) /\ ~Idle(o)
    BY <1>3 DEF Gives
  <2>2. /\ Doing(o) = "live" => Doing(r) = "live"
        /\ Doing(o) = "node" => Doing(r) = "node"
    BY <1>3, <2>1 DEF Onward, Doing, Idle
  <2> QED BY <1>1, <2>1, <2>2 DEF Sending!Left, Sending!Ways
<1> QED BY <1>2, <1>3

LEMMA SettlesImplements ==
  ASSUME IInv, IInv', LateInv, LateInv', Settles
  PROVE  Sending!Settle
<1>1. /\ row \in [Messages -> Terminal \union {"none", "open"}]
      /\ row' \in [Messages -> Terminal \union {"none", "open"}]
      /\ reached' = reached /\ Sending!Ended = Terminal
  BY DEF IInv, TypeOK, Settles, Sending!Ended, Terminal
<1>2. \A m \in Messages :
        /\ States[m] = IF Hidden(m) THEN "open" ELSE row[m]
        /\ States'[m] = IF Hidden(m)' THEN "open" ELSE row'[m]
        /\ Doings[m] = Doing(own[m]) /\ Doings'[m] = Doing(own'[m])
  <2> SUFFICES ASSUME NEW m \in Messages
               PROVE  /\ States[m] = IF Hidden(m) THEN "open" ELSE row[m]
                      /\ States'[m] = IF Hidden(m)' THEN "open" ELSE row'[m]
                      /\ Doings[m] = Doing(own[m]) /\ Doings'[m] = Doing(own'[m])
    OBVIOUS
  <2>1. States[m] = (IF Hidden(m) THEN "open" ELSE row[m]) /\ Doings[m] = Doing(own[m])
    BY DEF States, Doings, Hidden
  <2>2. States'[m] = (IF Hidden(m)' THEN "open" ELSE row'[m]) /\ Doings'[m] = Doing(own'[m])
    BY DEF States, Doings, Hidden
  <2> QED BY <2>1, <2>2
<1>3. States' \in [Messages -> Sending!Ended \union {"none", "open"}]
  BY <1>1, <1>2 DEF States
<1>4. ASSUME NEW m \in Messages
      PROVE  \/ States'[m] = States[m]
             \/ /\ States[m] = "open" /\ States'[m] \in Sending!Ended
                /\ Doings'[m] = "nothing"
                /\ States'[m] = "delivered" => "recipient" \in reached[m]
                /\ States'[m] = "propagated" => "node" \in reached[m]
  <2>1. row'[m] \in Terminal /\ ~Hidden(m)' =>
          /\ Doings'[m] = "nothing"
          /\ row'[m] = "delivered" => "recipient" \in reached[m]
          /\ row'[m] = "propagated" => "node" \in reached[m]
    <3>1. row'[m] \in Terminal /\ ~Hidden(m)' => Idle(own'[m])
      BY DEF IInv, EndInv, Hidden
    <3> QED BY <1>1, <1>2, <3>1 DEF IInv, ReachedInv, Idle, Doing
  <2>2. /\ row'[m] = row[m] \/ (row[m] = "open" /\ row'[m] \in Terminal)
        /\ Hidden(m)' => Hidden(m) \/ row[m] = "open"
        /\ Hidden(m) => row[m] = "timeout"
    BY DEF Settles, LateInv
  <2>3. "timeout" \in Terminal /\ "open" \notin Terminal
    BY DEF Terminal
  <2> QED BY <1>1, <1>2, <2>1, <2>2, <2>3
<1>5. Doings' \in [Messages -> Sending!Ways]
      /\ \A m \in Messages : Doings'[m] \in Sending!Left(Doings[m])
  <2>1. \A m \in Messages : Gives(own[m], own'[m])
    BY DEF Settles
  <2> QED BY <1>2, <2>1, WaysLeft DEF Doings
<1> QED BY <1>1, <1>3, <1>4, <1>5 DEF Sending!Settle, Sending!Ends, States, Doings

LEMMA SendsImplements ==
  ASSUME IInv, LateInv, NEW m \in Messages, Sends(m)
  PROVE  Sending!Send(m)
<1>1. ~Hidden(m) /\ \A n \in Messages : Hidden(n)' <=> Hidden(n)
  BY DEF LateInv, Hidden, Sends
<1>2. States[m] = "none" /\ States' = [States EXCEPT ![m] = "open"]
  <2>1. \A n \in Messages : row'[n] = IF n = m THEN "open" ELSE row[n]
    BY DEF Sends, IInv, TypeOK
  <2> QED BY <1>1, <2>1 DEF States, Hidden, Sends
<1>3. \E way \in Sending!Ways \ {"nothing"} : Doings' = [Doings EXCEPT ![m] = way]
  <2>1. Doing(own'[m]) \in Sending!Ways \ {"nothing"}
    <3>1. Sending!Ways = {"auto", "live", "node", "nothing"}
      BY DEF Sending!Ways, Sending!Left
    <3>2. ~Idle(own'[m])
      BY DEF Sends
    <3> QED BY <3>1, <3>2 DEF Idle, Doing
  <2>2. Doings' = [Doings EXCEPT ![m] = Doing(own'[m])]
    BY DEF Doings, Sends
  <2> QED BY <2>1, <2>2
<1> QED BY <1>2, <1>3 DEF Sending!Send, States, Doings, Sends

LEMMA ArrivesImplements ==
  ASSUME LateInv, NEW m \in Messages, Arrives(m)
  PROVE  Sending!Arrive(m)
<1>1. States' = States /\ Doings' = Doings
  BY DEF States, Doings, Arrives
<1>2. States[m] # "none" /\ Doings[m] = Doing(own[m])
  BY DEF States, Doings, Arrives
<1> QED BY <1>1, <1>2 DEF Sending!Arrive, States, Doings, Arrives, Places

(* lxmf.rs, the client loop and the commands implement MessageSending:     *)
(* whatever ticks, wakes, proofs, the watchdog, cancellations and restarts *)
(* interleave, a message is sent once, only gives ways up, goes to the     *)
(* node at most in place of its recipient and never back, and ends once,   *)
(* with nobody sending it and with what its end says having arrived.       *)
THEOREM SendingImplemented == Spec => KeepsPromise
<1>1. Init => Sending!Init
  BY DEF Init, Sending!Init, Doing, Nothing
<1>2. IInv /\ IInv' /\ LateInv /\ LateInv' /\ [Next]_vars => [Sending!Next]_(Sending!sending)
  <2> SUFFICES ASSUME IInv, IInv', LateInv, LateInv', [Next]_vars PROVE Sending!Next
    OBVIOUS
  <2> QED BY EveryStepMaps, SettlesImplements, SendsImplements, ArrivesImplements
          DEF Sending!Next
<1> QED BY <1>1, <1>2, AlwaysIInv, AlwaysLateInv, PTL DEF Spec, KeepsPromise, Sending!Spec

=============================================================================
