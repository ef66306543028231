----------------------- MODULE ActivityRecorderProofs -----------------------
(***************************************************************************)
(* What ActivityRecorder promises for every set of producers and           *)
(* deadlines, every capacity of the queues and any number of operations,   *)
(* time limits and panics.                                                 *)
(***************************************************************************)
EXTENDS ActivityRecorder, TLAPS

USE DEF Callers, Generations, Limits, Ages, Profiles

-----------------------------------------------------------------------------
(* Queues.                                                                 *)

Queued(q) == {q[i] : i \in 1..Len(q)}

(* No two of the queue are of one operation that waits.                    *)
Single(q) ==
  \A i, j \in 1..Len(q) : q[i].from = q[j].from /\ q[i].from # None => i = j

(* A queue without its head.                                               *)
LEMMA TailOf ==
  ASSUME NEW S, NEW q \in Seq(S), q # <<>>
  PROVE  /\ Tail(q) \in Seq(S) /\ Head(q) \in Queued(q) /\ Head(q) \in S
         /\ Queued(q) = {Head(q)} \union Queued(Tail(q))
         /\ Single(q) => Single(Tail(q))
                         /\ \A x \in Queued(Tail(q)) : x.from = Head(q).from => x.from = None
<1>1. /\ Len(q) \in Nat \ {0} /\ Tail(q) \in Seq(S) /\ Head(q) = q[1]
      /\ Len(Tail(q)) = Len(q) - 1
      /\ \A i \in 1..Len(Tail(q)) : Tail(q)[i] = q[i + 1]
  OBVIOUS
<1>2. Head(q) \in Queued(q) /\ Head(q) \in S
  BY <1>1 DEF Queued
<1>3. Queued(q) = {Head(q)} \union Queued(Tail(q))
  <2>1. Queued(Tail(q)) \subseteq Queued(q)
    BY <1>1 DEF Queued
  <2>2. ASSUME NEW i \in 1..Len(q)
        PROVE  q[i] \in {Head(q)} \union Queued(Tail(q))
    <3>1. CASE i = 1
      BY <3>1, <1>1
    <3>2. CASE i # 1
      <4>1. i - 1 \in 1..Len(Tail(q)) /\ Tail(q)[i - 1] = q[i]
        BY <3>2, <1>1
      <4> QED BY <4>1 DEF Queued
    <3> QED BY <3>1, <3>2
  <2> QED BY <1>2, <2>1, <2>2 DEF Queued
<1>4. ASSUME Single(q)
      PROVE  Single(Tail(q))
             /\ \A x \in Queued(Tail(q)) : x.from = Head(q).from => x.from = None
  <2>1. ASSUME NEW i \in 1..Len(Tail(q)), NEW j \in 1..Len(Tail(q)),
               Tail(q)[i].from = Tail(q)[j].from, Tail(q)[i].from # None
        PROVE  i = j
    <3>1. i + 1 \in 1..Len(q) /\ j + 1 \in 1..Len(q)
      BY <1>1
    <3>2. i + 1 = j + 1
      BY <1>1, <1>4, <2>1, <3>1 DEF Single
    <3> QED BY <3>2
  <2>2. ASSUME NEW i \in 1..Len(Tail(q)), Tail(q)[i].from = Head(q).from,
               Tail(q)[i].from # None
        PROVE  FALSE
    <3>1. i + 1 \in 1..Len(q) /\ 1 \in 1..Len(q) /\ i + 1 # 1
      BY <1>1
    <3> QED BY <1>1, <1>4, <2>2, <3>1 DEF Single
  <2> QED BY <2>1, <2>2 DEF Single, Queued
<1> QED BY <1>1, <1>2, <1>3, <1>4

LEMMA AppendOf ==
  ASSUME NEW S, NEW q \in Seq(S), NEW x \in S
  PROVE  /\ Append(q, x) \in Seq(S)
         /\ Queued(Append(q, x)) = Queued(q) \union {x}
         /\ Single(q) /\ (\A y \in Queued(q) : y.from = x.from => y.from = None)
              => Single(Append(q, x))
<1> DEFINE r == Append(q, x)
<1>1. /\ r \in Seq(S) /\ Len(q) \in Nat /\ Len(r) = Len(q) + 1 /\ r[Len(q) + 1] = x
      /\ \A i \in 1..Len(q) : r[i] = q[i]
  OBVIOUS
<1> HIDE DEF r
<1>2. Queued(r) = Queued(q) \union {x}
  <2>1. ASSUME NEW i \in 1..Len(r)
        PROVE  r[i] \in Queued(q) \union {x}
    <3>1. i \in 1..Len(q) \/ i = Len(q) + 1
      BY <1>1
    <3> QED BY <1>1, <3>1 DEF Queued
  <2>2. ASSUME NEW i \in 1..Len(q)
        PROVE  q[i] \in Queued(r)
    <3>1. i \in 1..Len(r) /\ r[i] = q[i]
      BY <1>1
    <3> QED BY <3>1 DEF Queued
  <2>3. x \in Queued(r)
    <3>1. Len(q) + 1 \in 1..Len(r)
      BY <1>1
    <3> QED BY <1>1, <3>1 DEF Queued
  <2> QED BY <2>1, <2>2, <2>3 DEF Queued
<1>3. ASSUME Single(q), \A y \in Queued(q) : y.from = x.from => y.from = None
      PROVE  Single(r)
  <2>1. ASSUME NEW i \in 1..Len(r), NEW j \in 1..Len(r), r[i].from = r[j].from,
               r[i].from # None
        PROVE  i = j
    <3>1. /\ i \in 1..Len(q) \/ i = Len(q) + 1
          /\ j \in 1..Len(q) \/ j = Len(q) + 1
      BY <1>1
    <3>2. \A k \in 1..Len(q) : q[k] \in Queued(q)
      BY DEF Queued
    <3> QED BY <1>1, <1>3, <2>1, <3>1, <3>2 DEF Single
  <2> QED BY <2>1 DEF Single
<1> QED BY <1>1, <1>2, <1>3 DEF r

LEMMA EmptyOf ==
  ASSUME NEW S
  PROVE  <<>> \in Seq(S) /\ Queued(<<>>) = {} /\ Single(<<>>)
BY DEF Queued, Single
-----------------------------------------------------------------------------
(* Types.                                                                  *)

LEMMA Bounds ==
  /\ MaxGeneration \in Nat /\ MaxEpoch \in Nat \ {0} /\ 0 \in Generations /\ 0 \in 0..MaxEpoch
  /\ 1 \in 1..MaxEpoch /\ None \notin Callers
BY RecorderAssumption

LEMMA Blanks ==
  /\ NoCall \in Calls /\ NoItem \in Items /\ NoSession \in Sessions /\ NoLease \in Leases
  /\ NoQuery \in Queries
  /\ NoCall.op = "none" /\ NoCall.at = "idle" /\ NoCall.gen = 0
  /\ NoItem.kind = "none" /\ NoItem.from = None /\ NoItem.gen = 0
  /\ NoSession.state = "off" /\ NoSession.gen = 0 /\ NoSession.held = {} /\ NoSession.ring = {}
  /\ NoLease.at = "idle" /\ NoLease.gen = 0 /\ NoLease.age = "fresh"
  /\ NoQuery.at = "idle" /\ NoQuery.shown = {}
BY Bounds
   DEF NoCall, NoItem, Item, NoSession, NoLease, NoQuery, Calls, Items, Sessions, Leases, Queries

LEMMA GateTypes ==
  ASSUME gate \in Gates
  PROVE  /\ Shut \in Gates /\ Shut.closed /\ Shut.of = gate.of
         /\ Shut.gen = IF gate.gen < MaxGeneration THEN gate.gen + 1 ELSE gate.gen
         /\ gate.gen < MaxGeneration =>
              Advanced \in Gates /\ Advanced.gen = gate.gen + 1 /\ Advanced.of = gate.of
              /\ Advanced.closed = gate.closed
         /\ \A g \in Generations, pr \in Profiles, d \in Limits :
              Opened(g, pr, d) \in Gates /\ Opened(g, pr, d).gen = gate.gen
<1>1. gate.gen \in Generations /\ gate.of \in Generations /\ gate.closed \in BOOLEAN
  BY DEF Gates
<1>2. /\ Shut \in Gates /\ Shut.closed /\ Shut.of = gate.of
      /\ Shut.gen = IF gate.gen < MaxGeneration THEN gate.gen + 1 ELSE gate.gen
  <2>1. CASE gate.gen < MaxGeneration
    <3>1. gate.gen + 1 \in Generations
      BY <1>1, <2>1, Bounds
    <3>2. Shut = [gate EXCEPT !.closed = TRUE, !.gen = gate.gen + 1]
      BY <2>1 DEF Shut, Gates
    <3> QED BY <2>1, <3>1, <3>2 DEF Gates
  <2>2. CASE ~(gate.gen < MaxGeneration)
    BY <1>1, <2>2 DEF Gates, Shut
  <2> QED BY <2>1, <2>2
<1>3. gate.gen < MaxGeneration =>
        Advanced \in Gates /\ Advanced.gen = gate.gen + 1 /\ Advanced.of = gate.of
        /\ Advanced.closed = gate.closed
  BY <1>1, Bounds DEF Gates, Advanced
<1>4. \A g \in Generations, pr \in Profiles, d \in Limits :
        Opened(g, pr, d) \in Gates /\ Opened(g, pr, d).gen = gate.gen
  BY <1>1 DEF Gates, Opened
<1> QED BY <1>2, <1>3, <1>4

(* A call that goes on at another step.                                    *)
LEMMA CallTypes ==
  ASSUME call \in [Callers -> Calls], NEW c \in Callers
  PROVE  /\ \A at \in {"idle", "shut", "lock", "quiesce", "advance", "replay", "read", "send",
                       "ack", "open", "publish", "end"} :
              [call EXCEPT ![c].at = at] \in [Callers -> Calls]
         /\ \A k \in Calls : [call EXCEPT ![c] = k] \in [Callers -> Calls]
<1>1. call[c] \in Calls
  OBVIOUS
<1>2. \A at \in {"idle", "shut", "lock", "quiesce", "advance", "replay", "read", "send",
                 "ack", "open", "publish", "end"} : [call[c] EXCEPT !.at = at] \in Calls
  BY <1>1 DEF Calls
<1> QED BY <1>1, <1>2

LEMMA ProducerTypes ==
  ASSUME producer \in [Producers -> Leases], NEW p \in Producers
  PROVE  /\ \A at \in {"idle", "read", "counted", "leased", "closing", "sending"} :
              [producer EXCEPT ![p].at = at] \in [Producers -> Leases]
         /\ \A l \in Leases : [producer EXCEPT ![p] = l] \in [Producers -> Leases]
<1>1. producer[p] \in Leases
  OBVIOUS
<1>2. \A at \in {"idle", "read", "counted", "leased", "closing", "sending"} :
        [producer[p] EXCEPT !.at = at] \in Leases
  BY <1>1 DEF Leases
<1> QED BY <1>1, <1>2

(* Producers some of which are old.                                        *)
LEMMA OlderTypes ==
  ASSUME producer \in [Producers -> Leases], NEW ats,
         producer' = [p \in Producers |-> IF producer[p].at \in ats
                                          THEN [producer[p] EXCEPT !.age = "old"] ELSE producer[p]]
  PROVE  producer' \in [Producers -> Leases]
<1>1. ASSUME NEW p \in Producers
      PROVE  [producer[p] EXCEPT !.age = "old"] \in Leases /\ producer[p] \in Leases
  BY DEF Leases
<1> QED BY <1>1

LEMMA BoundaryTypes ==
  ASSUME producer \in [Producers -> Leases], NEW from, PastBoundary(from)
  PROVE  producer' \in [Producers -> Leases]
<1>1. CASE from = None
  BY <1>1 DEF PastBoundary
<1>2. CASE from # None
  <2>1. producer' = [p \in Producers |-> IF producer[p].at \in {"sending"}
                                         THEN [producer[p] EXCEPT !.age = "old"] ELSE producer[p]]
    BY <1>2 DEF PastBoundary
  <2> QED BY <2>1, OlderTypes
<1> QED BY <1>1, <1>2

LEMMA OldTypes ==
  ASSUME NEW from
  PROVE  /\ query \in Queries => OldQuery(from) \in Queries /\ OldQuery(from).at = query.at
         /\ session \in Sessions => OldSession(from) \in Sessions
         /\ ingress \in Seq(Items) => OldItems(from) \in Seq(Items)
<1>1. \A s \in SUBSET Ages : Old(s) \in SUBSET Ages
  BY DEF Old
<1>2. query \in Queries => OldQuery(from) \in Queries /\ OldQuery(from).at = query.at
  BY <1>1 DEF OldQuery, Queries
<1>3. session \in Sessions => OldSession(from) \in Sessions
  BY <1>1 DEF OldSession, Sessions
<1>4. ASSUME ingress \in Seq(Items)
      PROVE  OldItems(from) \in Seq(Items)
  <2>1. CASE from = None
    BY <1>4, <2>1 DEF OldItems
  <2>2. CASE from # None
    <3>1. \A x \in Items : [x EXCEPT !.age = "old"] \in Items
      BY DEF Items
    <3>2. \A i \in 1..Len(ingress) : ingress[i] \in Items
      BY <1>4
    <3>3. OldItems(from) = [i \in 1..Len(ingress) |-> [ingress[i] EXCEPT !.age = "old"]]
      BY <2>2 DEF OldItems
    <3>4. Len(ingress) \in Nat
      BY <1>4
    <3> QED BY <3>1, <3>2, <3>3, <3>4
  <2> QED BY <2>1, <2>2
<1> QED BY <1>2, <1>3, <1>4

LEMMA OrphanTypes ==
  ASSUME NEW q \in Seq(Items), NEW c
  PROVE  [i \in 1..Len(q) |-> Orphaned(q[i], c)] \in Seq(Items)
<1>1. \A x \in Items : Orphaned(x, c) \in Items
  BY DEF Items, Orphaned
<1>2. \A i \in 1..Len(q) : q[i] \in Items
  OBVIOUS
<1>3. Len(q) \in Nat
  OBVIOUS
<1> QED BY <1>1, <1>2, <1>3

LEMMA AnswerTypes ==
  ASSUME call \in [Callers -> Calls], failed \in BOOLEAN, worker \in Workers
  PROVE  /\ \A from \in Callers \union {None}, g \in Generations, pr \in Profiles, d \in Limits :
              Opens(from, g, pr, d) => call' \in [Callers -> Calls] /\ failed' \in BOOLEAN
         /\ \A from \in Callers \union {None} :
              Ends(from) => call' \in [Callers -> Calls] /\ failed' \in BOOLEAN
         /\ \A callers : Refuses(callers) => call' \in [Callers -> Calls] /\ failed' \in BOOLEAN
<1>1. ASSUME NEW from \in Callers \union {None}, NEW g \in Generations, NEW pr \in Profiles,
             NEW d \in Limits, Opens(from, g, pr, d)
      PROVE  call' \in [Callers -> Calls] /\ failed' \in BOOLEAN
  <2>1. CASE from = None
    BY <1>1, <2>1 DEF Opens
  <2>2. CASE from # None
    <3> DEFINE k == [op |-> call[from].op, at |-> "open", gen |-> g, profile |-> pr,
                     deadline |-> d, epoch |-> worker.epoch]
    <3>1. from \in Callers /\ call[from] \in Calls /\ worker.epoch \in 0..MaxEpoch
      BY <2>2, Bounds DEF Workers
    <3>2. k \in Calls
      BY <3>1 DEF Calls
    <3>3. call' = [call EXCEPT ![from] = k]
      BY <1>1, <2>2, <3>1 DEF Opens
    <3> HIDE DEF k
    <3> QED BY <1>1, <3>1, <3>2, <3>3 DEF Opens
  <2> QED BY <2>1, <2>2
<1>2. ASSUME NEW from \in Callers \union {None}, Ends(from)
      PROVE  call' \in [Callers -> Calls] /\ failed' \in BOOLEAN
  BY <1>2, CallTypes DEF Ends
<1>3. ASSUME NEW callers, Refuses(callers)
      PROVE  call' \in [Callers -> Calls] /\ failed' \in BOOLEAN
  BY <1>3, Blanks DEF Refuses
<1> QED BY <1>1, <1>2, <1>3

LEMMA BeginsTypes ==
  ASSUME TypeOK, NEW c \in Callers,
         NEW op \in {"start", "stop", "resume", "clear", "profile", "expire", "reset"},
         NEW at \in {"shut", "lock"}, NEW pr \in Profiles, NEW d \in Limits,
         Begins(c, op, at, pr, d)
  PROVE  call' \in [Callers -> Calls]
<1> DEFINE k == [NoCall EXCEPT !.op = op, !.at = at, !.profile = pr, !.deadline = d]
<1>1. k \in Calls
  BY Bounds DEF NoCall, Calls
<1>2. call' = [call EXCEPT ![c] = k] /\ call \in [Callers -> Calls]
  BY DEF Begins, TypeOK
<1> HIDE DEF k
<1> QED BY <1>1, <1>2

LEMMA ProducersTyped ==
  ASSUME TypeOK, NEW p \in Producers, Enter(p) \/ Records(p)
  PROVE  TypeOK'
<1> USE DEF gatev, workv, queues, callv
<1>1. /\ producer \in [Producers -> Leases] /\ producer[p] \in Leases /\ gate \in Gates
      /\ ingress \in Seq(Items)
  BY DEF TypeOK
<1>2. CASE Enter(p)
  <2>1. PICK age \in Ages :
          producer' = [producer EXCEPT ![p] = [NoLease EXCEPT !.at = "read", !.gen = gate.gen,
                                                              !.age = age]]
    BY <1>2 DEF Enter
  <2>2. [NoLease EXCEPT !.at = "read", !.gen = gate.gen, !.age = age] \in Leases
    BY <1>1 DEF NoLease, Leases, Gates
  <2>3. producer' \in [Producers -> Leases]
    BY <1>1, <2>1, <2>2
  <2> QED BY <1>2, <2>3 DEF Enter, TypeOK
<1>3. \A at \in {"counted", "closing", "sending"} :
        At(p, at) => producer' \in [Producers -> Leases]
  <2> SUFFICES ASSUME NEW at \in {"counted", "closing", "sending"}, At(p, at)
               PROVE  producer' \in [Producers -> Leases]
    OBVIOUS
  <2>1. producer' = [producer EXCEPT ![p].at = at]
    BY DEF At
  <2> QED BY <1>1, <2>1, ProducerTypes
<1>4. Leaves(p) => producer' \in [Producers -> Leases]
  BY <1>1, ProducerTypes, Blanks DEF Leaves
<1>5. CASE Count(p)
  BY <1>3, <1>4, <1>5 DEF Count, TypeOK
<1>6. CASE Confirm(p)
  <2>1. CASE gate.gen # producer[p].gen
    BY <1>4, <1>6, <2>1 DEF Confirm, TypeOK
  <2>2. CASE gate.gen = producer[p].gen
    <3> DEFINE l == [producer[p] EXCEPT !.at = "leased", !.profile = gate.profile,
                                        !.deadline = gate.deadline]
    <3>1. l \in Leases
      BY <1>1 DEF Leases, Gates
    <3>2. producer' = [producer EXCEPT ![p] = l]
      BY <1>1, <1>6, <2>2 DEF Confirm
    <3> HIDE DEF l
    <3> QED BY <1>1, <1>6, <3>1, <3>2 DEF Confirm, TypeOK
  <2> QED BY <2>1, <2>2
<1>7. CASE CloseExpired(p)
  <2>1. gate' \in Gates
    BY <1>1, <1>7 DEF CloseExpired, Gates
  <2> QED BY <1>3, <1>7, <2>1 DEF CloseExpired, TypeOK
<1>8. CASE Validate(p)
  BY <1>3, <1>8 DEF Validate, TypeOK
<1>9. CASE SendDraft(p)
  <2> DEFINE x == [Item("draft", producer[p].gen, producer[p].profile, None, None)
                     EXCEPT !.age = producer[p].age]
  <2>1. x \in Items
    BY <1>1 DEF Item, Items, Leases
  <2>2. ingress' = Append(ingress, x)
    BY <1>9 DEF SendDraft
  <2> HIDE DEF x
  <2>3. ingress' \in Seq(Items)
    BY <1>1, <2>1, <2>2, AppendOf
  <2> QED BY <1>4, <1>9, <2>3 DEF SendDraft, TypeOK
<1>10. CASE DropLease(p)
  BY <1>4, <1>10 DEF DropLease, TypeOK
<1> QED BY <1>2, <1>5, <1>6, <1>7, <1>8, <1>9, <1>10 DEF Records

LEMMA RequestsTyped ==
  ASSUME TypeOK,
         \/ Request \/ RequestTrace \/ RequestReset
         \/ \E c \in Callers : Expire(c)
  PROVE  TypeOK'
<1> USE DEF gatev, workv, queues
<1>1. CASE Request
  <2>1. PICK op \in {"start", "stop", "resume", "clear", "profile"} :
          Begins("user", op, "lock", "Normal", None) /\ UNCHANGED <<past, producer>>
    BY <1>1 DEF Request
  <2> QED BY <2>1, BeginsTypes DEF Begins, TypeOK
<1>2. CASE RequestTrace
  <2>1. PICK d \in Limits :
          /\ Begins("user", "profile", "lock", "Trace", d)
          /\ past' = past \ {d} /\ UNCHANGED producer
    BY <1>2 DEF RequestTrace
  <2> QED BY <2>1, BeginsTypes DEF Begins, TypeOK
<1>3. CASE RequestReset
  <2>1. producer' \in [Producers -> Leases]
    <3>1. producer \in [Producers -> Leases]
      BY DEF TypeOK
    <3>2. CASE UNCHANGED producer
      BY <3>1, <3>2
    <3>3. CASE producer' = [p \in Producers |-> IF producer[p].at \in {"read", "counted", "leased"}
                              THEN [producer[p] EXCEPT !.age = "old"] ELSE producer[p]]
      BY <3>1, <3>3, OlderTypes
    <3> QED BY <1>3, <3>2, <3>3 DEF RequestReset
  <2>2. call' \in [Callers -> Calls]
    BY <1>3, BeginsTypes DEF RequestReset
  <2> QED BY <1>3, <2>1, <2>2 DEF RequestReset, Begins, TypeOK
<1>4. ASSUME NEW c \in Callers, Expire(c)
      PROVE  TypeOK'
  BY <1>4, BeginsTypes DEF Expire, Begins, TypeOK
<1> QED BY <1>1, <1>2, <1>3, <1>4

LEMMA CallsTyped ==
  ASSUME TypeOK, NEW c \in Callers, TakeLock(c) \/ Operate(c) \/ TimesOut(c)
  PROVE  TypeOK'
<1> USE DEF gatev, workv, queues
<1>1. /\ call \in [Callers -> Calls] /\ call[c] \in Calls /\ gate \in Gates /\ failed \in BOOLEAN
      /\ ingress \in Seq(Items) /\ urgent \in Seq(Items) /\ hand \in Items
  BY DEF TypeOK
<1>2. /\ Returns(c) => call' \in [Callers -> Calls] /\ failed' \in BOOLEAN
      /\ Fails(c) => call' \in [Callers -> Calls] /\ failed' \in BOOLEAN
  <2>1. [call EXCEPT ![c] = NoCall] \in [Callers -> Calls]
    BY <1>1, CallTypes, Blanks
  <2> QED BY <1>1, <2>1 DEF Returns, Fails
<1>3. \A at \in {"quiesce", "advance", "replay", "read", "send"} :
        Goes(c, at) => call' \in [Callers -> Calls] /\ failed' \in BOOLEAN
  <2> SUFFICES ASSUME NEW at \in {"quiesce", "advance", "replay", "read", "send"}, Goes(c, at)
               PROVE  call' \in [Callers -> Calls] /\ failed' \in BOOLEAN
    OBVIOUS
  <2> QED BY <1>1, CallTypes DEF Goes
<1>4. Awaits(c) => call' \in [Callers -> Calls] /\ failed' \in BOOLEAN
  <2> SUFFICES ASSUME Awaits(c)
               PROVE  call' \in [Callers -> Calls] /\ failed' \in BOOLEAN
    OBVIOUS
  <2> DEFINE k == [NoCall EXCEPT !.op = call[c].op, !.at = "ack"]
  <2>1. k \in Calls
    BY <1>1, Bounds DEF NoCall, Calls
  <2>2. call' = [call EXCEPT ![c] = k]
    BY DEF Awaits
  <2> HIDE DEF k
  <2> QED BY <1>1, <2>1, <2>2 DEF Awaits
<1>5. CASE ShutGate(c)
  <2>1. CASE gate.gen < MaxGeneration
    <3> DEFINE k == [call[c] EXCEPT !.at = "lock", !.gen = gate.gen + 1]
    <3>1. k \in Calls
      <4>1. gate.gen + 1 \in Generations
        BY <1>1, <2>1, Bounds DEF Gates
      <4> QED BY <1>1, <4>1 DEF Calls
    <3>2. call' = [call EXCEPT ![c] = k]
      BY <1>1, <1>5, <2>1 DEF ShutGate
    <3> HIDE DEF k
    <3>3. call' \in [Callers -> Calls]
      BY <1>1, <3>1, <3>2
    <3> QED BY <1>1, <1>5, <2>1, <3>3, GateTypes DEF ShutGate, TypeOK
  <2>2. CASE ~(gate.gen < MaxGeneration)
    BY <1>1, <1>2, <1>5, <2>2, GateTypes DEF ShutGate, TypeOK
  <2> QED BY <2>1, <2>2
<1>6. CASE TakeLock(c)
  <2>1. gate' \in Gates
    BY <1>1, <1>6 DEF TakeLock, Gates
  <2> QED BY <1>2, <1>3, <1>6, <2>1 DEF TakeLock, TypeOK
<1>7. CASE Quiesce(c)
  <2>1. call' \in [Callers -> Calls] /\ failed' \in BOOLEAN
    BY <1>2, <1>3, <1>7 DEF Quiesce
  <2> QED BY <1>7, <2>1 DEF Quiesce, TypeOK
<1>8. CASE AdvanceFor(c)
  <2>1. CASE CanAdvance
    <3> DEFINE k == [call[c] EXCEPT !.at = "send", !.gen = gate.gen + 1]
    <3>1. k \in Calls
      <4>1. gate.gen + 1 \in Generations
        BY <1>1, <2>1, Bounds DEF Gates, CanAdvance
      <4> QED BY <1>1, <4>1 DEF Calls
    <3>2. call' = [call EXCEPT ![c] = k]
      BY <1>1, <1>8, <2>1 DEF AdvanceFor
    <3> HIDE DEF k
    <3>3. call' \in [Callers -> Calls]
      BY <1>1, <3>1, <3>2
    <3> QED BY <1>1, <1>8, <2>1, <3>3, GateTypes DEF AdvanceFor, CanAdvance, TypeOK
  <2>2. CASE ~CanAdvance
    BY <1>1, <1>2, <1>8, <2>2 DEF AdvanceFor, TypeOK
  <2> QED BY <2>1, <2>2
<1>9. CASE TakeReplayLock(c)
  BY <1>3, <1>9 DEF TakeReplayLock, TypeOK
<1>10. CASE ReadGeneration(c)
  <2> DEFINE d == IF call[c].op = "clear" /\ stored # None /\ stored.gen = gate.gen
                  THEN stored.deadline ELSE call[c].deadline
             k == [call[c] EXCEPT !.at = "send", !.gen = gate.gen, !.deadline = d]
  <2>1. d \in Limits
    BY <1>1 DEF Calls, TypeOK
  <2>2. call' = [call EXCEPT ![c] = k]
    BY <1>1, <1>10 DEF ReadGeneration
  <2> HIDE DEF d
  <2>3. k \in Calls
    BY <1>1, <2>1 DEF Calls, Gates
  <2> HIDE DEF k
  <2>4. call' \in [Callers -> Calls]
    BY <1>1, <2>2, <2>3
  <2> QED BY <1>10, <2>4 DEF ReadGeneration, TypeOK
<1>11. CASE SendOrdered(c)
  <2>1. Barrier(c) \in Items
    BY <1>1, <1>11 DEF SendOrdered, Barrier, Item, Items, Calls
  <2>2. ingress' \in Seq(Items)
    BY <1>1, <1>11, <2>1, AppendOf DEF SendOrdered
  <2> QED BY <1>2, <1>4, <1>11, <2>2 DEF SendOrdered, TypeOK
<1>12. CASE SendUrgent(c)
  <2>1. Item(call[c].op, call[c].gen, "Normal", None, c) \in Items
    BY <1>1, <1>12 DEF SendUrgent, Item, Items, Calls
  <2>2. urgent' \in Seq(Items)
    BY <1>1, <1>12, <2>1, AppendOf DEF SendUrgent
  <2> QED BY <1>2, <1>4, <1>12, <2>2 DEF SendUrgent, TypeOK
<1>13. CASE Open(c)
  <2>1. Opened(call[c].gen, call[c].profile, call[c].deadline) \in Gates
    BY <1>1, GateTypes DEF Calls
  <2>2. [call EXCEPT ![c].at = "publish"] \in [Callers -> Calls]
    BY <1>1, CallTypes
  <2> QED BY <1>1, <1>2, <1>13, <2>1, <2>2 DEF Open, TypeOK
<1>14. CASE PublishDeadline(c)
  <2>1. stored' \in [gen : Generations, deadline : Deadlines] \union {None}
    BY <1>1, <1>14 DEF PublishDeadline, Calls
  <2> QED BY <1>2, <1>14, <2>1 DEF PublishDeadline, TypeOK
<1>15. CASE EndClosed(c)
  BY <1>2, <1>15 DEF EndClosed, TypeOK
<1>16. CASE TimesOut(c)
  <2>1. ingress' \in Seq(Items) /\ urgent' \in Seq(Items)
    BY <1>1, <1>16, OrphanTypes DEF TimesOut
  <2>2. hand' \in Items
    BY <1>1, <1>16 DEF TimesOut, Orphaned, Items
  <2>3. timeouts' \in Nat /\ lingering' \in BOOLEAN
    BY <1>16 DEF TimesOut, TypeOK
  <2> QED BY <1>2, <1>16, <2>1, <2>2, <2>3 DEF TimesOut, TypeOK
<1> QED BY <1>5, <1>6, <1>7, <1>8, <1>9, <1>10, <1>11, <1>12, <1>13, <1>14, <1>15, <1>16
        DEF Operate

LEMMA WorkTyped ==
  ASSUME TypeOK, Work \/ WorkerTicks \/ WorkerPanics
  PROVE  TypeOK'
<1> USE DEF gatev, workv, queues, callv
<1>1. /\ call \in [Callers -> Calls] /\ gate \in Gates /\ failed \in BOOLEAN /\ worker \in Workers
      /\ ingress \in Seq(Items) /\ urgent \in Seq(Items) /\ hand \in Items
      /\ session \in Sessions /\ query \in Queries /\ producer \in [Producers -> Leases]
  BY DEF TypeOK
<1>2. /\ \A kind : Unboxes(kind) => Head(urgent) \in Items /\ urgent' \in Seq(Items)
      /\ \A kinds : Takes(kinds) => Head(ingress) \in Items /\ ingress' \in Seq(Items)
  <2>1. ASSUME NEW kind, Unboxes(kind)
        PROVE  Head(urgent) \in Items /\ urgent' \in Seq(Items)
    <3>1. urgent # <<>> /\ urgent' = Tail(urgent)
      BY <2>1 DEF Unboxes
    <3> QED BY <1>1, <3>1, TailOf
  <2>2. ASSUME NEW kinds, Takes(kinds)
        PROVE  Head(ingress) \in Items /\ ingress' \in Seq(Items)
    <3>1. ingress # <<>> /\ ingress' = Tail(ingress)
      BY <2>2 DEF Takes
    <3> QED BY <1>1, <3>1, TailOf
  <2> QED BY <2>1, <2>2
<1>3. \A x \in Items : x.from \in Callers \union {None} /\ x.gen \in Generations
                       /\ x.profile \in Profiles /\ x.deadline \in Limits
  BY DEF Items
<1>4. Flushed \in Sessions
  BY <1>1 DEF Flushed, Sessions
<1>5. None \in Limits /\ "Normal" \in Profiles
  OBVIOUS
<1>6. CASE WorkerStarts
  <2>1. session' \in Sessions
    BY <1>1, <1>2, <1>3, <1>6, Blanks DEF WorkerStarts, NoSession, Sessions
  <2>2. call' \in [Callers -> Calls] /\ failed' \in BOOLEAN
    BY <1>1, <1>2, <1>3, <1>5, <1>6, AnswerTypes DEF WorkerStarts
  <2>3. urgent' \in Seq(Items)
    BY <1>2, <1>6 DEF WorkerStarts
  <2> QED BY <1>6, <2>1, <2>2, <2>3 DEF WorkerStarts, TypeOK
<1>7. CASE WorkerResumes
  <2>1. session' \in Sessions
    BY <1>1, <1>2, <1>3, <1>7 DEF WorkerResumes, Sessions
  <2>2. call' \in [Callers -> Calls] /\ failed' \in BOOLEAN
    BY <1>1, <1>2, <1>3, <1>5, <1>7, AnswerTypes DEF WorkerResumes
  <2>3. urgent' \in Seq(Items)
    BY <1>2, <1>7 DEF WorkerResumes
  <2> QED BY <1>7, <2>1, <2>2, <2>3 DEF WorkerResumes, TypeOK
<1>8. CASE WorkerResets
  <2>1. urgent' \in Seq(Items)
    BY <1>2, <1>8 DEF WorkerResets
  <2>2. CASE gate.gen = Head(urgent).gen /\ gate.closed
    <3>1. query' \in Queries
      BY <1>8, <2>2, OldTypes, Blanks, <1>1 DEF WorkerResets
    <3>2. producer' \in [Producers -> Leases]
      BY <1>1, <1>8, <2>2, BoundaryTypes DEF WorkerResets
    <3>3. call' \in [Callers -> Calls]
      <4> DEFINE u == Head(urgent)
                 unheard == {ingress[i].from : i \in 1..Len(ingress)}
      <4>1. call' = [c \in Callers |-> IF c = u.from THEN [call[c] EXCEPT !.at = "end"]
                                       ELSE IF c \in unheard THEN NoCall ELSE call[c]]
        BY <1>8, <2>2 DEF WorkerResets
      <4> HIDE DEF u, unheard
      <4>2. \A c \in Callers : [call[c] EXCEPT !.at = "end"] \in Calls
        BY <1>1 DEF Calls
      <4> QED BY <1>1, <4>1, <4>2, Blanks
    <3>4. failed' \in BOOLEAN /\ <<>> \in Seq(Items)
      BY <1>1, <1>8, <2>2, EmptyOf DEF WorkerResets
    <3> QED BY <1>8, <2>1, <2>2, <3>1, <3>2, <3>3, <3>4, Blanks DEF WorkerResets, TypeOK
  <2>3. CASE ~(gate.gen = Head(urgent).gen /\ gate.closed)
    <3>1. call' \in [Callers -> Calls] /\ failed' \in BOOLEAN
      BY <1>1, <1>8, <2>3, AnswerTypes DEF WorkerResets
    <3> QED BY <1>8, <2>1, <2>3, <3>1 DEF WorkerResets, TypeOK
  <2> QED BY <2>2, <2>3
<1>9. CASE WorkerRecords
  <2>1. \A age \in Ages : Coalesced(age) \subseteq Sessions
    <3> SUFFICES ASSUME NEW age \in Ages, NEW s \in Coalesced(age)
                 PROVE  s \in Sessions
      OBVIOUS
    <3>1. /\ session.held \union {age} \in SUBSET Ages /\ {age} \in SUBSET Ages
          /\ session.ring \union session.held \in SUBSET Ages
          /\ session.ring \union session.held \union {age} \in SUBSET Ages
      BY <1>1 DEF Sessions
    <3>2. \/ s = [session EXCEPT !.held = session.held \union {age}]
          \/ s = [session EXCEPT !.held = {age}, !.ring = session.ring \union session.held]
          \/ s = [session EXCEPT !.held = {}, !.ring = session.ring \union session.held \union {age}]
      BY <1>1 DEF Coalesced, Sessions
    <3> QED BY <1>1, <3>1, <3>2 DEF Sessions
  <2>2. Head(ingress).age \in Ages
    BY <1>2, <1>9 DEF WorkerRecords, Items
  <2>3. session' \in Sessions
    BY <1>1, <1>9, <2>1, <2>2 DEF WorkerRecords
  <2> QED BY <1>2, <1>9, <2>3 DEF WorkerRecords, TypeOK
<1>10. CASE WorkerRefuses
  <2>1. call' \in [Callers -> Calls] /\ failed' \in BOOLEAN
    BY <1>1, <1>10, AnswerTypes DEF WorkerRefuses
  <2> QED BY <1>2, <1>10, <2>1 DEF WorkerRefuses, TypeOK
<1>11. CASE WorkerStops
  <2>1. session' \in Sessions
    BY <1>4, <1>11 DEF WorkerStops, Sessions
  <2>2. call' \in [Callers -> Calls] /\ failed' \in BOOLEAN
    BY <1>1, <1>2, <1>3, <1>11, AnswerTypes DEF WorkerStops
  <2> QED BY <1>2, <1>11, <2>1, <2>2 DEF WorkerStops, TypeOK
<1>12. CASE WorkerChecks
  <2>1. worker' \in Workers
    BY <1>1, <1>12 DEF WorkerChecks, Workers
  <2> QED BY <1>1, <1>2, <1>4, <1>12, <2>1 DEF WorkerChecks, TypeOK
<1>13. ASSUME NEW kind, WorkerAdvances(kind)
       PROVE  worker' \in Workers /\ hand' \in Items
  BY <1>1, <1>13, Blanks DEF WorkerAdvances, Workers
<1>14. CanAdvance => Advanced \in Gates /\ gate.gen + 1 \in Generations
  <2>1. gate.gen \in Generations /\ (CanAdvance => gate.gen < MaxGeneration)
    BY <1>1 DEF CanAdvance, Gates
  <2>2. gate.gen < MaxGeneration => Advanced \in Gates
    BY <1>1, GateTypes
  <2> QED BY <2>1, <2>2, Bounds
<1>15. CASE WorkerClears
  <2>1. worker' \in Workers /\ hand' \in Items
    BY <1>13, <1>15 DEF WorkerClears
  <2>2. CASE CanAdvance
    <3>1. session' \in Sessions
      <4>1. OldSession(hand.from) \in Sessions
        BY <1>1, OldTypes
      <4>2. Discarded(OldSession(hand.from)) \in Sessions
        BY <4>1 DEF Discarded, Sessions
      <4> QED BY <1>14, <1>15, <2>2, <4>2 DEF WorkerClears, Sessions
    <3>2. /\ ingress' \in Seq(Items) /\ query' \in Queries
          /\ producer' \in [Producers -> Leases]
      BY <1>1, <1>15, <2>2, OldTypes, BoundaryTypes DEF WorkerClears
    <3>3. call' \in [Callers -> Calls] /\ failed' \in BOOLEAN
      <4>1. session.profile \in Profiles
        BY <1>1 DEF Sessions
      <4>2. \/ Opens(hand.from, gate.gen + 1, session.profile, hand.deadline)
            \/ Ends(hand.from)
        BY <1>15, <2>2 DEF WorkerClears
      <4> QED BY <1>1, <1>3, <1>14, <2>2, <4>1, <4>2, AnswerTypes
    <3>4. gate' \in Gates
      BY <1>14, <1>15, <2>2 DEF WorkerClears
    <3> QED BY <1>15, <2>1, <3>1, <3>2, <3>3, <3>4 DEF WorkerClears, TypeOK
  <2>3. CASE ~CanAdvance
    <3>1. call' \in [Callers -> Calls] /\ failed' \in BOOLEAN
      BY <1>1, <1>15, <2>3, AnswerTypes DEF WorkerClears
    <3> QED BY <1>15, <2>1, <2>3, <3>1 DEF WorkerClears, TypeOK
  <2> QED BY <2>2, <2>3
<1>16. CASE WorkerChangesProfile
  <2>1. worker' \in Workers /\ hand' \in Items
    BY <1>13, <1>16 DEF WorkerChangesProfile
  <2>2. CASE CanAdvance
    <3>1. session' \in Sessions
      BY <1>1, <1>3, <1>14, <1>16, <2>2 DEF WorkerChangesProfile, Sessions
    <3>2. call' \in [Callers -> Calls] /\ failed' \in BOOLEAN
      <4>1. Opens(hand.from, gate.gen + 1, hand.profile, hand.deadline)
        BY <1>16, <2>2 DEF WorkerChangesProfile
      <4> QED BY <1>1, <1>3, <1>14, <2>2, <4>1, AnswerTypes
    <3>3. gate' \in Gates
      BY <1>14, <1>16, <2>2 DEF WorkerChangesProfile
    <3> QED BY <1>16, <2>1, <3>1, <3>2, <3>3 DEF WorkerChangesProfile, TypeOK
  <2>3. CASE ~CanAdvance
    <3>1. call' \in [Callers -> Calls] /\ failed' \in BOOLEAN
      BY <1>1, <1>16, <2>3, AnswerTypes DEF WorkerChangesProfile
    <3> QED BY <1>16, <2>1, <2>3, <3>1 DEF WorkerChangesProfile, TypeOK
  <2> QED BY <2>2, <2>3
<1>17. CASE WorkerTicks
  BY <1>4, <1>17 DEF WorkerTicks, TypeOK
<1>18. CASE WorkerPanics
  <2>1. ingress' \in Seq(Items) /\ urgent' \in Seq(Items)
    <3>1. /\ urgent # <<>> => Tail(urgent) \in Seq(Items)
          /\ ingress # <<>> => Tail(ingress) \in Seq(Items)
      BY <1>1, TailOf
    <3> QED BY <1>1, <1>18, <3>1 DEF WorkerPanics
  <2>2. call' \in [Callers -> Calls] /\ failed' \in BOOLEAN
    BY <1>1, <1>18, AnswerTypes DEF WorkerPanics
  <2>3. worker' \in Workers
    BY <1>1, <1>18 DEF WorkerPanics, Workers
  <2> QED BY <1>18, <2>1, <2>2, <2>3, Blanks DEF WorkerPanics, TypeOK
<1>19. RejectAll => /\ ingress' \in Seq(Items) /\ urgent' \in Seq(Items) /\ query' \in Queries
                    /\ call' \in [Callers -> Calls] /\ failed' \in BOOLEAN
  BY <1>1, EmptyOf, Blanks, AnswerTypes DEF RejectAll
<1>20. CASE SupervisorShuts
  <2>1. worker' \in Workers
    BY <1>1, <1>20 DEF SupervisorShuts, Workers
  <2>2. gate' \in Gates
    BY <1>1, <1>20, GateTypes DEF SupervisorShuts
  <2>3. stored' \in [gen : Generations, deadline : Deadlines] \union {None}
    BY <1>20 DEF SupervisorShuts, TypeOK
  <2>4. /\ ingress' \in Seq(Items) /\ urgent' \in Seq(Items) /\ query' \in Queries
        /\ call' \in [Callers -> Calls] /\ failed' \in BOOLEAN
    BY <1>1, <1>19, <1>20 DEF SupervisorShuts
  <2> QED BY <1>20, <2>1, <2>2, <2>3, <2>4 DEF SupervisorShuts, TypeOK
<1>21. CASE SupervisorRecovers
  <2>1. worker' \in Workers
    <3>1. worker.epoch \in 1..MaxEpoch
      BY <1>1 DEF Workers
    <3>2. worker.epoch < MaxEpoch => worker.epoch + 1 \in 1..MaxEpoch
      BY <3>1, Bounds
    <3> QED BY <1>1, <1>21, <3>2 DEF SupervisorRecovers, Workers
  <2> QED BY <1>19, <1>21, <2>1 DEF SupervisorRecovers, TypeOK
<1> QED BY <1>6, <1>7, <1>8, <1>9, <1>10, <1>11, <1>12, <1>15, <1>16, <1>17, <1>18, <1>20, <1>21
        DEF Work

LEMMA Typed == TypeOK /\ [Next]_vars => TypeOK'
<1> SUFFICES ASSUME TypeOK, [Next]_vars
             PROVE  TypeOK'
  OBVIOUS
<1> USE DEF gatev, workv, queues, callv
<1>1. CASE UNCHANGED vars
  BY <1>1 DEF vars, TypeOK
<1>2. CASE LingersNoMore
  BY <1>2 DEF LingersNoMore, TypeOK
<1>3. CASE AskReplay
  BY <1>3 DEF AskReplay, NoQuery, Queries, TypeOK
<1>4. CASE WorkerAnswers
  BY <1>4 DEF WorkerAnswers, Queries, Sessions, TypeOK
<1>5. CASE EndReplay
  BY <1>5, Blanks DEF EndReplay, TypeOK
<1>6. ASSUME NEW d \in Deadlines, TimePasses(d)
      PROVE  TypeOK'
  BY <1>6 DEF TimePasses, TypeOK
<1> QED BY <1>1, <1>2, <1>3, <1>4, <1>5, <1>6, ProducersTyped, RequestsTyped, CallsTyped, WorkTyped
        DEF Next

LEMMA InitTyped == Init => TypeOK
<1> SUFFICES ASSUME Init
             PROVE  TypeOK
  OBVIOUS
<1>1. gate \in Gates /\ worker \in Workers
  BY Bounds DEF Init, Gates, Workers
<1>2. ingress \in Seq(Items) /\ urgent \in Seq(Items)
  BY EmptyOf DEF Init
<1>3. call \in [Callers -> Calls] /\ producer \in [Producers -> Leases]
  BY Blanks DEF Init
<1> QED BY <1>1, <1>2, <1>3, Blanks DEF Init, TypeOK
-----------------------------------------------------------------------------
(* The gate and its leases.                                                *)

Told == gate.of <= gate.gen /\ (~gate.closed => gate.of = gate.gen)

LeaseInv ==
  \A p \in Producers : producer[p].at # "idle" => producer[p].gen <= gate.of

(* What a step does to the gate: an open is for the generation there is,   *)
(* and finds no lease.                                                     *)
LEMMA GateSteps ==
  ASSUME TypeOK, [Next]_vars
  PROVE  \/ /\ gate'.closed \/ gate'.closed = gate.closed
            /\ gate'.gen = gate.gen \/ (gate'.closed /\ gate'.gen = gate.gen + 1)
            /\ gate'.profile = gate.profile /\ gate'.deadline = gate.deadline /\ gate'.of = gate.of
         \/ \E c \in Callers :
              /\ Open(c) /\ Leased = {} /\ UNCHANGED producer
              /\ ~gate'.closed /\ gate'.gen = gate.gen /\ gate'.of = gate.gen
              /\ gate'.profile = call[c].profile /\ gate'.deadline = call[c].deadline
<1> DEFINE Kept == /\ gate'.closed \/ gate'.closed = gate.closed
                   /\ gate'.gen = gate.gen \/ (gate'.closed /\ gate'.gen = gate.gen + 1)
                   /\ gate'.profile = gate.profile /\ gate'.deadline = gate.deadline
                   /\ gate'.of = gate.of
<1> USE DEF gatev, workv, queues, callv
<1>1. gate \in Gates
  BY DEF TypeOK
<1>2. gate' = gate => Kept
  OBVIOUS
<1>3. gate' = [gate EXCEPT !.closed = TRUE] => Kept
  BY <1>1 DEF Gates
<1>4. gate' = Shut => Kept
  BY <1>1 DEF Gates, Shut
<1>5. gate.closed /\ gate' = Advanced => Kept
  BY <1>1 DEF Gates, Advanced
<1> HIDE DEF Kept
<1>6. ASSUME NEW p \in Producers, Enter(p) \/ Records(p)
      PROVE  Kept
  BY <1>2, <1>3, <1>6 DEF Enter, Records, Count, Confirm, CloseExpired, Validate, SendDraft, DropLease
<1>7. Request \/ RequestTrace \/ RequestReset => Kept
  BY <1>2 DEF Request, RequestTrace, RequestReset, Begins
<1>8. ASSUME NEW c \in Callers, Expire(c) \/ TakeLock(c) \/ TimesOut(c)
      PROVE  Kept
  BY <1>2, <1>3, <1>8 DEF Expire, Begins, TakeLock, TimesOut
<1>9. ASSUME NEW c \in Callers, Operate(c)
      PROVE  Kept \/ (/\ Open(c) /\ Leased = {} /\ UNCHANGED producer
                      /\ ~gate'.closed /\ gate'.gen = gate.gen /\ gate'.of = gate.gen
                      /\ gate'.profile = call[c].profile /\ gate'.deadline = call[c].deadline)
  <2>1. CASE ShutGate(c)
    BY <1>4, <2>1 DEF ShutGate
  <2>2. CASE AdvanceFor(c)
    BY <1>2, <1>5, <2>2 DEF AdvanceFor, CanAdvance
  <2>3. CASE Open(c)
    BY <1>1, <1>2, <2>3 DEF Open, CanOpen, Opened
  <2>4. CASE Quiesce(c) \/ TakeReplayLock(c) \/ ReadGeneration(c) \/ SendOrdered(c)
             \/ SendUrgent(c) \/ PublishDeadline(c) \/ EndClosed(c)
    BY <1>2, <2>4 DEF Quiesce, TakeReplayLock, ReadGeneration, SendOrdered, SendUrgent,
                      PublishDeadline, EndClosed
  <2> QED BY <1>9, <2>1, <2>2, <2>3, <2>4 DEF Operate
<1>10. Work \/ WorkerTicks \/ WorkerPanics => Kept
  <2>1. WorkerClears \/ WorkerChangesProfile => Kept
    BY <1>2, <1>5 DEF WorkerClears, WorkerChangesProfile, CanAdvance
  <2>2. SupervisorShuts => Kept
    BY <1>4 DEF SupervisorShuts
  <2>3. WorkerStarts \/ WorkerResumes \/ WorkerResets \/ WorkerRecords \/ WorkerRefuses
          \/ WorkerStops \/ WorkerChecks \/ SupervisorRecovers \/ WorkerTicks \/ WorkerPanics => Kept
    BY <1>2 DEF WorkerStarts, WorkerResumes, WorkerResets, WorkerRecords, WorkerRefuses,
                WorkerStops, WorkerChecks, SupervisorRecovers, WorkerTicks, WorkerPanics
  <2> QED BY <2>1, <2>2, <2>3 DEF Work
<1>11. LingersNoMore \/ AskReplay \/ WorkerAnswers \/ EndReplay \/ (\E d \in Deadlines : TimePasses(d))
         \/ UNCHANGED vars => Kept
  BY <1>2 DEF LingersNoMore, AskReplay, WorkerAnswers, EndReplay, TimePasses, vars
<1>12. Kept \/ \E c \in Callers :
              /\ Open(c) /\ Leased = {} /\ UNCHANGED producer
              /\ ~gate'.closed /\ gate'.gen = gate.gen /\ gate'.of = gate.gen
              /\ gate'.profile = call[c].profile /\ gate'.deadline = call[c].deadline
  BY <1>6, <1>7, <1>8, <1>9, <1>10, <1>11 DEF Next
<1> QED BY <1>12 DEF Kept

(* What a step does to the producers: they get older, give up, or take one *)
(* of their steps.                                                         *)
LEMMA ProducerSteps ==
  ASSUME TypeOK, [Next]_vars, NEW p \in Producers
  PROVE  \/ /\ producer'[p].at = producer[p].at /\ producer'[p].gen = producer[p].gen
            /\ producer'[p].profile = producer[p].profile
            /\ producer'[p].deadline = producer[p].deadline
         \/ producer'[p].at = "idle"
         \/ Enter(p) \/ Records(p)
<1> DEFINE Same == /\ producer'[p].at = producer[p].at /\ producer'[p].gen = producer[p].gen
                   /\ producer'[p].profile = producer[p].profile
                   /\ producer'[p].deadline = producer[p].deadline
<1> USE DEF gatev, workv, queues, callv
<1>1. producer \in [Producers -> Leases] /\ producer[p] \in Leases
  BY DEF TypeOK
<1>2. UNCHANGED producer => Same
  OBVIOUS
<1>3. ASSUME NEW ats, producer' = [q \in Producers |-> IF producer[q].at \in ats
                                      THEN [producer[q] EXCEPT !.age = "old"] ELSE producer[q]]
      PROVE  Same
  BY <1>1, <1>3 DEF Leases
<1>4. ASSUME NEW from, PastBoundary(from)
      PROVE  Same
  <2>1. CASE from = None
    BY <1>2, <1>4, <2>1 DEF PastBoundary
  <2>2. CASE from # None
    <3>1. producer' = [q \in Producers |-> IF producer[q].at \in {"sending"}
                                      THEN [producer[q] EXCEPT !.age = "old"] ELSE producer[q]]
      BY <1>4, <2>2 DEF PastBoundary
    <3> HIDE DEF Same
    <3> QED BY <1>3, <3>1
  <2> QED BY <2>1, <2>2
<1> HIDE DEF Same
<1>5. ASSUME NEW q \in Producers, Enter(q) \/ Records(q), q # p
      PROVE  Same
  <2>1. producer'[p] = producer[p]
    BY <1>1, <1>5 DEF Enter, Records, Count, Confirm, CloseExpired, Validate, SendDraft, DropLease,
                      At, Leaves
  <2> QED BY <2>1 DEF Same
<1>6. RequestReset => Same
  BY <1>2, <1>3 DEF RequestReset
<1>7. Request \/ RequestTrace => Same
  BY <1>2 DEF Request, RequestTrace
<1>8. ASSUME NEW c \in Callers, Expire(c) \/ TakeLock(c) \/ TimesOut(c) \/ Operate(c)
      PROVE  Same
  BY <1>2, <1>8 DEF Expire, TakeLock, TimesOut, Operate, ShutGate, AdvanceFor, Open, Quiesce,
                    TakeReplayLock, ReadGeneration, SendOrdered, SendUrgent, PublishDeadline,
                    EndClosed
<1>9. WorkerClears \/ WorkerResets => Same
  BY <1>2, <1>4 DEF WorkerClears, WorkerResets
<1>10. WorkerStarts \/ WorkerResumes \/ WorkerRecords \/ WorkerRefuses \/ WorkerChangesProfile
          \/ WorkerStops \/ WorkerChecks \/ SupervisorRecovers \/ WorkerTicks \/ WorkerPanics
          \/ SupervisorShuts => Same
  BY <1>2 DEF WorkerStarts, WorkerResumes, WorkerRecords, WorkerRefuses, WorkerChangesProfile,
              WorkerStops, WorkerChecks, SupervisorRecovers, WorkerTicks, WorkerPanics,
              SupervisorShuts
<1>11. LingersNoMore \/ AskReplay \/ WorkerAnswers \/ EndReplay \/ (\E d \in Deadlines : TimePasses(d))
         \/ UNCHANGED vars => Same
  BY <1>2 DEF LingersNoMore, AskReplay, WorkerAnswers, EndReplay, TimePasses, vars
<1>12. Same \/ Enter(p) \/ Records(p)
  BY <1>5, <1>6, <1>7, <1>8, <1>9, <1>10, <1>11 DEF Next, Work
<1> QED BY <1>12 DEF Same

LEMMA LeasesKept ==
  ASSUME TypeOK, Told, LeaseInv, LeaseOfItsGeneration, [Next]_vars
  PROVE  Told' /\ LeaseInv' /\ LeaseOfItsGeneration'
<1>1. /\ gate.gen \in Nat /\ gate.of \in Nat /\ producer \in [Producers -> Leases]
      /\ \A p \in Producers : producer[p].gen \in Nat
  BY Bounds DEF TypeOK, Gates, Leases
<1>2. CASE /\ gate'.closed \/ gate'.closed = gate.closed
           /\ gate'.gen = gate.gen \/ (gate'.closed /\ gate'.gen = gate.gen + 1)
           /\ gate'.profile = gate.profile /\ gate'.deadline = gate.deadline /\ gate'.of = gate.of
  <2>1. Told'
    BY <1>1, <1>2 DEF Told
  <2>2. ASSUME NEW p \in Producers
        PROVE  /\ producer'[p].at # "idle" => producer'[p].gen <= gate'.of
               /\ producer'[p].at \in {"leased", "sending"} =>
                    /\ gate'.of = producer'[p].gen
                    /\ gate'.profile = producer'[p].profile
                    /\ gate'.deadline = producer'[p].deadline
    <3>1. CASE /\ producer'[p].at = producer[p].at /\ producer'[p].gen = producer[p].gen
               /\ producer'[p].profile = producer[p].profile
               /\ producer'[p].deadline = producer[p].deadline
      BY <1>2, <3>1 DEF LeaseInv, LeaseOfItsGeneration
    <3>2. CASE producer'[p].at = "idle"
      BY <3>2
    <3>3. CASE Enter(p)
      <4>1. PICK age \in Ages :
              producer' = [producer EXCEPT ![p] = [NoLease EXCEPT !.at = "read", !.gen = gate.gen,
                                                                  !.age = age]]
        BY <3>3 DEF Enter
      <4>2. producer'[p].at = "read" /\ producer'[p].gen = gate.gen
        BY <1>1, <4>1 DEF NoLease
      <4> QED BY <1>1, <1>2, <3>3, <4>2 DEF Enter, Told
    <3>4. CASE Confirm(p)
      <4>1. CASE gate.gen # producer[p].gen
        BY <1>1, <3>4, <4>1, Blanks DEF Confirm, Leaves
      <4>2. CASE gate.gen = producer[p].gen
        <5>1. producer[p].at = "counted" /\ producer[p] \in Leases
          BY <1>1, <3>4 DEF Confirm
        <5>2. /\ producer'[p].gen = producer[p].gen
              /\ producer'[p].profile = gate.profile /\ producer'[p].deadline = gate.deadline
          BY <1>1, <3>4, <4>2, <5>1 DEF Confirm, Leases
        <5> QED BY <1>1, <1>2, <4>2, <5>1, <5>2 DEF LeaseInv, Told
      <4> QED BY <4>1, <4>2
    <3>5. CASE Count(p) \/ CloseExpired(p) \/ Validate(p) \/ SendDraft(p) \/ DropLease(p)
      <4>1. producer[p] \in Leases
        BY <1>1
      <4>2. Leaves(p) => producer'[p].at = "idle"
        BY <1>1, Blanks DEF Leaves
      <4>3. \A at : At(p, at) => /\ producer'[p].at = at /\ producer'[p].gen = producer[p].gen
                                 /\ producer'[p].profile = producer[p].profile
                                 /\ producer'[p].deadline = producer[p].deadline
        BY <1>1, <4>1 DEF At, Leases
      <4>4. \/ producer'[p].at = "idle"
            \/ /\ producer'[p].gen = producer[p].gen /\ producer'[p].profile = producer[p].profile
               /\ producer'[p].deadline = producer[p].deadline /\ producer[p].at # "idle"
               /\ \/ producer'[p].at \in {"counted", "closing"}
                  \/ producer[p].at = "leased" /\ producer'[p].at = "sending"
        BY <3>5, <4>2, <4>3 DEF Count, CloseExpired, Validate, SendDraft, DropLease
      <4> QED BY <1>2, <4>4 DEF LeaseInv, LeaseOfItsGeneration
    <3> QED BY <3>1, <3>2, <3>3, <3>4, <3>5, ProducerSteps DEF Records
  <2> QED BY <2>1, <2>2 DEF LeaseInv, LeaseOfItsGeneration
<1>3. ASSUME NEW c \in Callers, Leased = {}, UNCHANGED producer,
             ~gate'.closed, gate'.gen = gate.gen, gate'.of = gate.gen
      PROVE  Told' /\ LeaseInv' /\ LeaseOfItsGeneration'
  <2>1. Told'
    BY <1>1, <1>3 DEF Told
  <2>2. LeaseInv'
    BY <1>1, <1>3 DEF LeaseInv, Told
  <2>3. LeaseOfItsGeneration'
    BY <1>3 DEF LeaseOfItsGeneration, Leased
  <2> QED BY <2>1, <2>2, <2>3
<1> QED BY <1>2, <1>3, GateSteps
-----------------------------------------------------------------------------
(* What a step does to the queues.                                         *)

LEMMA Orphans ==
  ASSUME NEW q \in Seq(Items), NEW c \in Callers, NEW r,
         r = [i \in 1..Len(q) |-> Orphaned(q[i], c)]
  PROVE  Queued(r) = {Orphaned(x, c) : x \in Queued(q)} /\ (Single(q) => Single(r))
<1>1. /\ Len(q) \in Nat /\ Len(r) = Len(q)
      /\ \A i \in 1..Len(q) : r[i] = Orphaned(q[i], c) /\ q[i] \in Items
  OBVIOUS
<1>2. Queued(r) = {Orphaned(x, c) : x \in Queued(q)}
  BY <1>1 DEF Queued
<1>3. \A x \in Items : Orphaned(x, c).from # None => Orphaned(x, c).from = x.from
  BY DEF Orphaned, Items
<1>4. Single(q) => Single(r)
  BY <1>1, <1>3 DEF Single
<1> QED BY <1>2, <1>4

Aged(x) == [x EXCEPT !.age = "old"]

LEMMA Aging ==
  ASSUME ingress \in Seq(Items), NEW from
  PROVE  /\ Queued(OldItems(from)) = IF from = None THEN Queued(ingress)
                                     ELSE {Aged(x) : x \in Queued(ingress)}
         /\ Single(ingress) => Single(OldItems(from))
<1>1. CASE from = None
  BY <1>1 DEF OldItems
<1>2. CASE from # None
  <2> DEFINE r == OldItems(from)
  <2>1. r = [i \in 1..Len(ingress) |-> [ingress[i] EXCEPT !.age = "old"]]
    BY <1>2 DEF OldItems
  <2> HIDE DEF r
  <2>2. /\ Len(ingress) \in Nat /\ Len(r) = Len(ingress)
        /\ \A i \in 1..Len(ingress) : r[i] = Aged(ingress[i]) /\ ingress[i] \in Items
    BY <2>1 DEF Aged
  <2>3. Queued(r) = {Aged(x) : x \in Queued(ingress)}
    BY <2>2 DEF Queued
  <2>4. \A x \in Items : Aged(x).from = x.from
    BY DEF Aged, Items
  <2>5. Single(ingress) => Single(r)
    BY <2>2, <2>4 DEF Single
  <2> QED BY <1>2, <2>3, <2>5 DEF r
<1> QED BY <1>1, <1>2

(* The head leaves a queue.                                                *)
LEMMA Taken ==
  ASSUME TypeOK, NEW kinds, Takes(kinds)
  PROVE  /\ Head(ingress) \in Queued(ingress) /\ Head(ingress) \in Items
         /\ Head(ingress).kind \in kinds /\ worker.at = "ready" /\ urgent = <<>>
         /\ Queued(ingress) = {Head(ingress)} \union Queued(ingress')
         /\ Single(ingress) => /\ Single(ingress')
                               /\ \A x \in Queued(ingress') :
                                    x.from = Head(ingress).from => x.from = None
<1>1. ingress \in Seq(Items) /\ ingress # <<>> /\ ingress' = Tail(ingress)
  BY DEF TypeOK, Takes
<1>2. Head(ingress).kind \in kinds /\ worker.at = "ready" /\ urgent = <<>>
  BY DEF Takes
<1> QED BY <1>1, <1>2, TailOf

LEMMA Unboxed ==
  ASSUME TypeOK, NEW kind, Unboxes(kind)
  PROVE  /\ Head(urgent) \in Queued(urgent) /\ Head(urgent) \in Items
         /\ Head(urgent).kind = kind /\ worker.at = "ready"
         /\ Queued(urgent) = {Head(urgent)} \union Queued(urgent')
         /\ Single(urgent) => /\ Single(urgent')
                              /\ \A x \in Queued(urgent') :
                                   x.from = Head(urgent).from => x.from = None
<1>1. urgent \in Seq(Items) /\ urgent # <<>> /\ urgent' = Tail(urgent)
  BY DEF TypeOK, Unboxes
<1>2. Head(urgent).kind = kind /\ worker.at = "ready"
  BY DEF Unboxes
<1> QED BY <1>1, <1>2, TailOf

LEMMA Typing ==
  ASSUME TypeOK
  PROVE  /\ Queued(ingress) \subseteq Items /\ Queued(urgent) \subseteq Items /\ hand \in Items
         /\ call \in [Callers -> Calls] /\ gate \in Gates /\ gate.gen \in Nat /\ gate.of \in Nat
         /\ session \in Sessions /\ session.gen \in Nat
         /\ \A x \in Items : x.gen \in Nat
         /\ \A c \in Callers : call[c].gen \in Nat
         /\ producer \in [Producers -> Leases] /\ \A p \in Producers : producer[p].gen \in Nat
<1>1. ingress \in Seq(Items) /\ urgent \in Seq(Items)
  BY DEF TypeOK
<1>2. Queued(ingress) \subseteq Items /\ Queued(urgent) \subseteq Items
  BY <1>1 DEF Queued
<1>3. /\ hand \in Items /\ call \in [Callers -> Calls] /\ gate \in Gates /\ session \in Sessions
      /\ producer \in [Producers -> Leases]
  BY DEF TypeOK
<1>4. gate.gen \in Nat /\ gate.of \in Nat /\ session.gen \in Nat
  BY <1>3, Bounds DEF Gates, Sessions
<1>5. \A x \in Items : x.gen \in Nat
  BY Bounds DEF Items
<1>6. \A c \in Callers : call[c].gen \in Nat
  BY <1>3, Bounds DEF Calls
<1>7. \A p \in Producers : producer[p].gen \in Nat
  BY <1>3, Bounds DEF Leases
<1> QED BY <1>2, <1>3, <1>4, <1>5, <1>6, <1>7

(* x is y, which may have got older and may have lost whom it answers.     *)
Like(x, y) ==
  /\ x.kind = y.kind /\ x.gen = y.gen /\ x.profile = y.profile /\ x.deadline = y.deadline
  /\ x.from \in {y.from, None} /\ x.age \in {y.age, "old"}

LEMMA Likeness ==
  ASSUME NEW x \in Items
  PROVE  /\ Like(x, x) /\ Like(Aged(x), x) /\ Aged(x).from = x.from
         /\ \A c \in Callers : Like(Orphaned(x, c), x)
                               /\ Orphaned(x, c).from = IF x.from = c THEN None ELSE x.from
BY DEF Like, Aged, Orphaned, Items

LEMMA Ageless ==
  ASSUME NEW x \in Items, NEW c \in Callers
  PROVE  Orphaned(x, c).age = x.age
BY DEF Orphaned, Items

Stays(old, new) == \A x \in new : \E y \in old : Like(x, y)

(* None of them got older.                                                 *)
Youth(old, new) == \A x \in new : \E y \in old : Like(x, y) /\ x.age = y.age

(* A clear goes through.                                                   *)
Cleared == WorkerClears /\ CanAdvance

(* None of them lost whom it answers.                                      *)
Faith(old, new) == \A x \in new : \E y \in old : Like(x, y) /\ x.from = y.from

TimedOut == \E c \in Callers : TimesOut(c)

LEMMA IngressSteps ==
  ASSUME TypeOK, [Next]_vars
  PROVE  \/ /\ Stays(Queued(ingress), Queued(ingress')) /\ (Single(ingress) => Single(ingress'))
            /\ Youth(Queued(ingress), Queued(ingress')) \/ Cleared
            /\ Faith(Queued(ingress), Queued(ingress')) \/ TimedOut
         \/ \E p \in Producers :
              SendDraft(p) /\ \E x \in Items :
                /\ x.kind = "draft" /\ x.from = None /\ x.gen = producer[p].gen
                /\ x.age = producer[p].age
                /\ Queued(ingress') = Queued(ingress) \union {x}
                /\ (Single(ingress) => Single(ingress'))
         \/ \E c \in Callers :
              /\ SendOrdered(c) /\ Awaits(c)
              /\ Queued(ingress') = Queued(ingress) \union {Barrier(c)}
              /\ Single(ingress) /\ (\A y \in Queued(ingress) : y.from # c) => Single(ingress')
<1> DEFINE Young == Youth(Queued(ingress), Queued(ingress'))
           Goal1 == /\ Stays(Queued(ingress), Queued(ingress')) /\ (Single(ingress) => Single(ingress'))
                    /\ Young \/ Cleared
                    /\ Faith(Queued(ingress), Queued(ingress')) \/ TimedOut
<1> USE DEF gatev, workv, queues, callv
<1>1. Queued(ingress) \subseteq Items /\ ingress \in Seq(Items)
  BY Typing DEF TypeOK
<1>2. UNCHANGED ingress => Goal1
  BY <1>1, Likeness DEF Stays, Youth, Faith
<1>3. ASSUME NEW kinds, Takes(kinds)
      PROVE  Goal1
  BY <1>1, <1>3, Taken, Likeness DEF Stays, Youth, Faith
<1>4. ingress' = <<>> => Goal1
  BY EmptyOf DEF Stays, Youth, Faith
<1>5. ASSUME NEW from, ingress' = OldItems(from), Cleared
      PROVE  Goal1
  BY <1>1, <1>5, Aging, Likeness DEF Stays, Faith
<1>6. ASSUME NEW c \in Callers, TimesOut(c)
      PROVE  Goal1
  <2>1. ingress' = [i \in 1..Len(ingress) |-> Orphaned(ingress[i], c)]
    BY <1>6 DEF TimesOut
  <2>2. Queued(ingress') = {Orphaned(x, c) : x \in Queued(ingress)} /\ (Single(ingress) => Single(ingress'))
    BY <1>1, <2>1, Orphans
  <2>3. Youth(Queued(ingress), Queued(ingress'))
    BY <1>1, <2>2, Likeness, Ageless DEF Youth
  <2> QED BY <1>1, <1>6, <2>2, <2>3, Likeness DEF Stays, TimedOut
<1>7. WorkerPanics => Goal1
  <2>1. ingress # <<>> /\ ingress' = Tail(ingress) => Goal1
    <3>1. ingress # <<>> => /\ Queued(ingress) = {Head(ingress)} \union Queued(Tail(ingress))
                            /\ Single(ingress) => Single(Tail(ingress))
      BY <1>1, TailOf
    <3> QED BY <1>1, <3>1, Likeness DEF Stays, Youth, Faith
  <2> HIDE DEF Goal1
  <2> QED BY <1>2, <2>1 DEF WorkerPanics
<1> HIDE DEF Goal1
<1>8. ASSUME NEW p \in Producers, SendDraft(p)
      PROVE  \E x \in Items :
                /\ x.kind = "draft" /\ x.from = None /\ x.gen = producer[p].gen
                /\ x.age = producer[p].age
                /\ Queued(ingress') = Queued(ingress) \union {x}
                /\ (Single(ingress) => Single(ingress'))
  <2> DEFINE x == [Item("draft", producer[p].gen, producer[p].profile, None, None)
                      EXCEPT !.age = producer[p].age]
  <2>1. producer[p] \in Leases
    BY Typing
  <2>2. x \in Items /\ x.kind = "draft" /\ x.from = None /\ x.gen = producer[p].gen
        /\ x.age = producer[p].age
    BY <2>1 DEF Leases, Items, Item
  <2>3. ingress' = Append(ingress, x)
    BY <1>8 DEF SendDraft
  <2> HIDE DEF x
  <2>4. Queued(ingress') = Queued(ingress) \union {x} /\ (Single(ingress) => Single(ingress'))
    BY <1>1, <2>2, <2>3, AppendOf
  <2> QED BY <2>2, <2>4
<1>9. ASSUME NEW c \in Callers, SendOrdered(c)
      PROVE  Goal1 \/ (/\ Awaits(c) /\ Queued(ingress') = Queued(ingress) \union {Barrier(c)}
                       /\ Single(ingress) /\ (\A y \in Queued(ingress) : y.from # c) => Single(ingress'))
  <2>1. CASE UNCHANGED ingress
    BY <1>2, <2>1
  <2>2. CASE Awaits(c) /\ ingress' = Append(ingress, Barrier(c))
    <3>1. call[c] \in Calls
      BY Typing
    <3>2. Barrier(c) \in Items /\ Barrier(c).from = c
      BY <1>9, <3>1 DEF SendOrdered, Barrier, Item, Items, Calls
    <3> QED BY <1>1, <2>2, <3>2, AppendOf
  <2> QED BY <1>9, <2>1, <2>2 DEF SendOrdered
<1>10. ASSUME NEW p \in Producers, Enter(p) \/ Records(p)
       PROVE  Goal1 \/ SendDraft(p)
  BY <1>2, <1>10 DEF Enter, Records, Count, Confirm, CloseExpired, Validate, DropLease
<1>11. Request \/ RequestTrace \/ RequestReset => Goal1
  BY <1>2 DEF Request, RequestTrace, RequestReset, Begins
<1>12. ASSUME NEW c \in Callers, Expire(c) \/ TakeLock(c) \/ Operate(c)
       PROVE  Goal1 \/ SendOrdered(c)
  BY <1>2, <1>12 DEF Expire, Begins, TakeLock, Operate, ShutGate, AdvanceFor, Open, Quiesce,
                     TakeReplayLock, ReadGeneration, SendUrgent, PublishDeadline, EndClosed
<1>13. RejectAll => Goal1
  BY <1>4 DEF RejectAll
<1>14. WorkerStarts \/ WorkerResumes \/ WorkerChangesProfile \/ WorkerTicks => Goal1
  BY <1>2 DEF WorkerStarts, WorkerResumes, WorkerChangesProfile, WorkerTicks
<1>15. WorkerResets \/ WorkerClears => Goal1
  BY <1>2, <1>4, <1>5 DEF WorkerResets, WorkerClears, Cleared
<1>16. WorkerRecords \/ WorkerRefuses \/ WorkerStops \/ WorkerChecks => Goal1
  BY <1>3 DEF WorkerRecords, WorkerRefuses, WorkerStops, WorkerChecks
<1>17. SupervisorRecovers \/ SupervisorShuts => Goal1
  BY <1>2, <1>13 DEF SupervisorRecovers, SupervisorShuts
<1>18. LingersNoMore \/ AskReplay \/ WorkerAnswers \/ EndReplay \/ (\E d \in Deadlines : TimePasses(d))
         \/ UNCHANGED vars => Goal1
  BY <1>2 DEF LingersNoMore, AskReplay, WorkerAnswers, EndReplay, TimePasses, vars
<1>19. Goal1 \/ (\E p \in Producers : SendDraft(p)) \/ (\E c \in Callers : SendOrdered(c) /\ ~Goal1)
  BY <1>6, <1>7, <1>10, <1>11, <1>12, <1>14, <1>15, <1>16, <1>17, <1>18 DEF Next, Work
<1>20. CASE \E p \in Producers : SendDraft(p)
  BY <1>8, <1>20
<1>21. CASE \E c \in Callers : SendOrdered(c) /\ ~Goal1
  BY <1>9, <1>21
<1>22. CASE Goal1
  BY <1>22 DEF Goal1
<1> QED BY <1>19, <1>20, <1>21, <1>22

(* What becomes of the queue of urgent commands.                           *)
LEMMA UrgentShapes ==
  ASSUME TypeOK, [Next]_vars
  PROVE  \/ urgent' \in {urgent, <<>>}
         \/ urgent # <<>> /\ urgent' = Tail(urgent)
         \/ \E c \in Callers : /\ TimesOut(c)
                              /\ urgent' = [i \in 1..Len(urgent) |-> Orphaned(urgent[i], c)]
         \/ \E c \in Callers :
              /\ SendUrgent(c) /\ Awaits(c)
              /\ urgent' = Append(urgent, Item(call[c].op, call[c].gen, "Normal", None, c))
<1> DEFINE Same == urgent' = urgent
           Out  == urgent # <<>> /\ urgent' = Tail(urgent)
           None1 == urgent' = <<>>
           Sent(c) == /\ SendUrgent(c) /\ Awaits(c)
                      /\ urgent' = Append(urgent, Item(call[c].op, call[c].gen, "Normal", None, c))
           Late(c) == /\ TimesOut(c)
                      /\ urgent' = [i \in 1..Len(urgent) |-> Orphaned(urgent[i], c)]
<1> USE DEF gatev, workv, queues, callv
<1>1. ASSUME NEW p \in Producers, Enter(p) \/ Records(p)
      PROVE  Same
  BY <1>1 DEF Enter, Records, Count, Confirm, CloseExpired, Validate, DropLease, SendDraft
<1>2. Request \/ RequestTrace \/ RequestReset => Same
  BY DEF Request, RequestTrace, RequestReset, Begins
<1>3. ASSUME NEW c \in Callers, Expire(c) \/ TakeLock(c) \/ Operate(c)
      PROVE  Same \/ SendUrgent(c)
  BY <1>3 DEF Expire, Begins, TakeLock, Operate, ShutGate, AdvanceFor, Open, Quiesce,
              TakeReplayLock, ReadGeneration, SendOrdered, PublishDeadline, EndClosed
<1>4. ASSUME NEW c \in Callers
      PROVE  (SendUrgent(c) => Same \/ Sent(c)) /\ (TimesOut(c) => Late(c))
  BY DEF SendUrgent, TimesOut
<1>5. WorkerStarts \/ WorkerResumes \/ WorkerResets => Out
  BY DEF WorkerStarts, WorkerResumes, WorkerResets, Unboxes
<1>6. WorkerRecords \/ WorkerRefuses \/ WorkerStops \/ WorkerChecks \/ WorkerClears
         \/ WorkerChangesProfile \/ WorkerTicks => Same
  BY DEF WorkerRecords, WorkerRefuses, WorkerStops, WorkerChecks, WorkerClears,
         WorkerChangesProfile, WorkerTicks
<1>7. WorkerPanics => Same \/ Out
  BY DEF WorkerPanics
<1>8. SupervisorRecovers \/ SupervisorShuts => Same \/ None1
  BY DEF SupervisorRecovers, SupervisorShuts, RejectAll
<1>9. LingersNoMore \/ AskReplay \/ WorkerAnswers \/ EndReplay \/ (\E d \in Deadlines : TimePasses(d))
         \/ UNCHANGED vars => Same
  BY DEF LingersNoMore, AskReplay, WorkerAnswers, EndReplay, TimePasses, vars
<1> HIDE DEF Same, Out, None1, Sent, Late
<1>10. Same \/ Out \/ None1 \/ (\E c \in Callers : Sent(c)) \/ (\E c \in Callers : Late(c))
  BY <1>1, <1>2, <1>3, <1>4, <1>5, <1>6, <1>7, <1>8, <1>9 DEF Next, Work
<1> QED BY <1>10 DEF Same, Out, None1, Sent, Late

LEMMA UrgentSteps ==
  ASSUME TypeOK, [Next]_vars
  PROVE  \/ /\ Stays(Queued(urgent), Queued(urgent')) /\ (Single(urgent) => Single(urgent'))
            /\ Faith(Queued(urgent), Queued(urgent')) \/ TimedOut
         \/ \E c \in Callers, x \in Items :
              /\ SendUrgent(c) /\ Awaits(c) /\ Queued(urgent') = Queued(urgent) \union {x}
              /\ x.kind = call[c].op /\ x.gen = call[c].gen /\ x.from = c
              /\ Single(urgent) /\ (\A y \in Queued(urgent) : y.from # c) => Single(urgent')
<1>1. Queued(urgent) \subseteq Items /\ urgent \in Seq(Items) /\ call \in [Callers -> Calls]
  BY Typing DEF TypeOK
<1>2. CASE urgent' \in {urgent, <<>>}
  BY <1>1, <1>2, EmptyOf, Likeness DEF Stays, Faith
<1>3. CASE urgent # <<>> /\ urgent' = Tail(urgent)
  <2>1. /\ Queued(urgent) = {Head(urgent)} \union Queued(Tail(urgent))
        /\ Single(urgent) => Single(Tail(urgent))
    BY <1>1, <1>3, TailOf
  <2> QED BY <1>1, <1>3, <2>1, Likeness DEF Stays, Faith
<1>4. ASSUME NEW c \in Callers, TimesOut(c),
             urgent' = [i \in 1..Len(urgent) |-> Orphaned(urgent[i], c)]
      PROVE  /\ Stays(Queued(urgent), Queued(urgent')) /\ (Single(urgent) => Single(urgent'))
             /\ TimedOut
  <2>1. Queued(urgent') = {Orphaned(x, c) : x \in Queued(urgent)} /\ (Single(urgent) => Single(urgent'))
    BY <1>1, <1>4, Orphans
  <2> QED BY <1>1, <1>4, <2>1, Likeness DEF Stays, TimedOut
<1>5. ASSUME NEW c \in Callers, SendUrgent(c), Awaits(c),
             urgent' = Append(urgent, Item(call[c].op, call[c].gen, "Normal", None, c))
      PROVE  \E x \in Items :
              /\ Queued(urgent') = Queued(urgent) \union {x}
              /\ x.kind = call[c].op /\ x.gen = call[c].gen /\ x.from = c
              /\ Single(urgent) /\ (\A y \in Queued(urgent) : y.from # c) => Single(urgent')
  <2> DEFINE x == Item(call[c].op, call[c].gen, "Normal", None, c)
  <2>1. x \in Items /\ x.from = c /\ x.kind = call[c].op /\ x.gen = call[c].gen
    BY <1>1, <1>5 DEF SendUrgent, Item, Items, Calls
  <2>2. urgent' = Append(urgent, x)
    BY <1>5
  <2> HIDE DEF x
  <2>3. /\ Queued(urgent') = Queued(urgent) \union {x}
        /\ Single(urgent) /\ (\A y \in Queued(urgent) : y.from # c) => Single(urgent')
    BY <1>1, <2>1, <2>2, AppendOf
  <2> QED BY <2>1, <2>3
<1> QED BY <1>2, <1>3, <1>4, <1>5, UrgentShapes

LEMMA HandSteps ==
  ASSUME TypeOK, [Next]_vars
  PROVE  \/ /\ Like(hand', hand) /\ (worker'.at = "advance" <=> worker.at = "advance")
            /\ hand'.from = hand.from \/ TimedOut
         \/ hand' = NoItem /\ worker'.at # "advance"
         \/ /\ WorkerChecks /\ hand' = Head(ingress) /\ hand' \in Queued(ingress)
            /\ hand'.kind \in {"clear", "profile"} /\ worker'.at = "advance"
<1> DEFINE Same == /\ Like(hand', hand) /\ (worker'.at = "advance" <=> worker.at = "advance")
                   /\ hand'.from = hand.from \/ TimedOut
<1> USE DEF gatev, workv, queues, callv
<1>1. hand \in Items /\ worker \in Workers
  BY Typing DEF TypeOK
<1>2. hand' = hand /\ worker' = worker => Same
  BY <1>1, Likeness
<1>3. ASSUME NEW p \in Producers, Enter(p) \/ Records(p)
      PROVE  Same
  BY <1>2, <1>3 DEF Enter, Records, Count, Confirm, CloseExpired, Validate, DropLease, SendDraft
<1>4. Request \/ RequestTrace \/ RequestReset => Same
  BY <1>2 DEF Request, RequestTrace, RequestReset, Begins
<1>5. ASSUME NEW c \in Callers, Expire(c) \/ TakeLock(c) \/ Operate(c)
      PROVE  Same
  BY <1>2, <1>5 DEF Expire, Begins, TakeLock, Operate, ShutGate, AdvanceFor, Open, Quiesce,
                    TakeReplayLock, ReadGeneration, SendOrdered, SendUrgent, PublishDeadline, EndClosed
<1>6. ASSUME NEW c \in Callers, TimesOut(c)
      PROVE  Same
  BY <1>1, <1>6, Likeness DEF TimesOut, TimedOut
<1>7. WorkerStarts \/ WorkerResumes \/ WorkerResets \/ WorkerRecords \/ WorkerRefuses
        \/ WorkerStops \/ WorkerTicks => Same
  BY <1>2 DEF WorkerStarts, WorkerResumes, WorkerResets, WorkerRecords, WorkerRefuses,
              WorkerStops, WorkerTicks
<1>8. LingersNoMore \/ AskReplay \/ WorkerAnswers \/ EndReplay \/ (\E d \in Deadlines : TimePasses(d))
        \/ UNCHANGED vars => Same
  BY <1>2 DEF LingersNoMore, AskReplay, WorkerAnswers, EndReplay, TimePasses, vars
<1>9. ASSUME WorkerChecks
      PROVE  /\ hand' = Head(ingress) /\ hand' \in Queued(ingress)
             /\ hand'.kind \in {"clear", "profile"} /\ worker'.at = "advance"
  BY <1>1, <1>9, Taken DEF WorkerChecks, Workers
<1>10. WorkerClears \/ WorkerChangesProfile \/ WorkerPanics => hand' = NoItem /\ worker'.at # "advance"
  BY <1>1 DEF WorkerClears, WorkerChangesProfile, WorkerPanics, WorkerAdvances, Workers
<1>11. SupervisorShuts \/ SupervisorRecovers => Same
  BY <1>1, Likeness DEF SupervisorShuts, SupervisorRecovers, Workers
<1> HIDE DEF Same
<1>12. Same \/ WorkerChecks \/ (hand' = NoItem /\ worker'.at # "advance")
  BY <1>3, <1>4, <1>5, <1>6, <1>7, <1>8, <1>10, <1>11 DEF Next, Work
<1> QED BY <1>9, <1>12 DEF Same
-----------------------------------------------------------------------------
(* Who waits for what.                                                     *)

Ordered == {"stop", "clear", "profile"}
Starts  == {"start", "resume"}

Waits == Queued(ingress) \union Queued(urgent) \union {hand}

Answers(x, c) ==
  /\ call[c].at = "ack"
  /\ x.kind = IF call[c].op = "expire" THEN "profile" ELSE call[c].op

QueueInv ==
  /\ \A x \in Queued(ingress) :
       /\ x.kind \in Ordered \union {"draft"} /\ x.gen <= gate.gen
       /\ x.kind = "draft" => x.from = None
  /\ \A x \in Queued(urgent) : x.kind \in Starts \union {"reset"} /\ x.gen <= gate.gen
  /\ hand.kind \in {"none", "clear", "profile"} /\ hand.gen <= gate.gen
  /\ hand.kind # "none" <=> worker.at = "advance"
  /\ hand.kind = "none" => hand.from = None

WaitInv ==
  /\ \A x \in Waits : x.from # None => Answers(x, x.from)
  /\ Single(ingress) /\ Single(urgent)
  /\ hand.from # None => \A x \in Queued(ingress) : x.from # hand.from

CallInv ==
  /\ \A c \in Callers :
       /\ call[c].gen <= gate.gen
       /\ call[c].at = "idle" <=> call[c].op = "none"
       /\ call[c].at = "shut" => call[c].op = "reset"
       /\ call[c].at = "advance" => call[c].op \in Starts
       /\ call[c].at = "replay" => call[c].op \in {"clear", "reset"}
       /\ call[c].at = "read" => call[c].op \in Ordered \union {"expire"}
       /\ call[c].at \in {"open", "publish"} => call[c].op # "reset"
  /\ \A c, d \in Holding : c = d
  /\ \A c \in Holding :
       (call[c].op # "reset" /\ call[c].at # "publish") \/ call[c].at = "end" => gate.closed

GateGrows == gate.gen <= gate'.gen

LEMMA Grows == ASSUME TypeOK, [Next]_vars PROVE GateGrows
BY GateSteps, Typing DEF GateGrows

LEMMA QueuesKept ==
  ASSUME TypeOK, Told, LeaseInv, QueueInv, CallInv, [Next]_vars
  PROVE  QueueInv'
<1>1. /\ gate.gen \in Nat /\ gate'.gen \in Nat /\ gate.gen <= gate'.gen /\ gate.of <= gate.gen
      /\ gate.of \in Nat /\ Queued(ingress) \subseteq Items /\ Queued(urgent) \subseteq Items
      /\ \A x \in Items : x.gen \in Nat
  <2>1. TypeOK'
    BY Typed
  <2>2. gate'.gen \in Nat
    BY <2>1, Bounds DEF TypeOK, Gates
  <2> QED BY <2>2, Typing, Grows DEF GateGrows, Told
<1>2. ASSUME NEW x \in Queued(ingress')
      PROVE  /\ x.kind \in Ordered \union {"draft"} /\ x.gen <= gate'.gen
             /\ x.kind = "draft" => x.from = None
  <2>1. CASE \E y \in Queued(ingress) : Like(x, y)
    BY <1>1, <2>1 DEF Like, QueueInv
  <2>2. ASSUME NEW p \in Producers, SendDraft(p), x.kind = "draft", x.from = None,
               x.gen = producer[p].gen
        PROVE  x.kind = "draft" /\ x.from = None /\ x.gen <= gate'.gen
    <3>1. producer[p].gen <= gate.of /\ producer[p].gen \in Nat
      BY <2>2, Typing DEF SendDraft, LeaseInv
    <3> QED BY <1>1, <2>2, <3>1
  <2>3. ASSUME NEW c \in Callers, SendOrdered(c), x = Barrier(c)
        PROVE  x.kind \in Ordered /\ x.gen <= gate'.gen
    <3>1. call[c].gen \in Nat /\ call[c].gen <= gate.gen
      BY Typing DEF CallInv
    <3>2. x.gen = call[c].gen
      BY <2>3 DEF Barrier, Item
    <3> QED BY <1>1, <2>3, <3>1, <3>2 DEF SendOrdered, Barrier, Item, Ordered
  <2>4. x \in Queued(ingress) => \E y \in Queued(ingress) : Like(x, y)
    BY <1>1, Likeness
  <2>5. CASE Stays(Queued(ingress), Queued(ingress'))
    BY <2>1, <2>5 DEF Stays
  <2>6. ASSUME NEW p \in Producers, SendDraft(p), NEW y \in Items,
               y.kind = "draft", y.from = None, y.gen = producer[p].gen,
               Queued(ingress') = Queued(ingress) \union {y}
        PROVE  /\ x.kind \in Ordered \union {"draft"} /\ x.gen <= gate'.gen
               /\ x.kind = "draft" => x.from = None
    BY <2>1, <2>2, <2>4, <2>6
  <2>7. ASSUME NEW c \in Callers, SendOrdered(c),
               Queued(ingress') = Queued(ingress) \union {Barrier(c)}
        PROVE  /\ x.kind \in Ordered \union {"draft"} /\ x.gen <= gate'.gen
               /\ x.kind = "draft" => x.from = None
    <3>1. "draft" \notin Ordered
      BY DEF Ordered
    <3> QED BY <2>1, <2>3, <2>4, <2>7, <3>1
  <2> QED BY <2>5, <2>6, <2>7, IngressSteps
<1>3. ASSUME NEW x \in Queued(urgent')
      PROVE  x.kind \in Starts \union {"reset"} /\ x.gen <= gate'.gen
  <2>1. CASE \E y \in Queued(urgent) : Like(x, y)
    BY <1>1, <2>1 DEF Like, QueueInv
  <2>2. ASSUME NEW c \in Callers, SendUrgent(c), x.kind = call[c].op, x.gen = call[c].gen
        PROVE  x.kind \in Starts \union {"reset"} /\ x.gen <= gate'.gen
    BY <1>1, <2>2, Typing DEF SendUrgent, Starts, CallInv
  <2>3. x \in Queued(urgent) => \E y \in Queued(urgent) : Like(x, y)
    BY <1>1, Likeness
  <2>4. CASE Stays(Queued(urgent), Queued(urgent'))
    BY <2>1, <2>4 DEF Stays
  <2>5. ASSUME NEW c \in Callers, NEW y \in Items, SendUrgent(c), y.kind = call[c].op,
               y.gen = call[c].gen, Queued(urgent') = Queued(urgent) \union {y}
        PROVE  x.kind \in Starts \union {"reset"} /\ x.gen <= gate'.gen
    BY <2>1, <2>2, <2>3, <2>5
  <2> QED BY <2>4, <2>5, UrgentSteps
<1>4. /\ hand'.kind \in {"none", "clear", "profile"} /\ hand'.gen <= gate'.gen
      /\ hand'.kind # "none" <=> worker'.at = "advance"
      /\ hand'.kind = "none" => hand'.from = None
  <2>1. hand.gen \in Nat
    BY Typing
  <2> QED BY <1>1, <2>1, HandSteps, Blanks DEF Like, QueueInv
<1> QED BY <1>2, <1>3, <1>4 DEF QueueInv

(* How an operation goes on.                                               *)
Moves(c) ==
  \/ call'[c] = call[c]
  \/ call'[c] = NoCall
  \/ /\ call[c].at = "idle" /\ call'[c].gen = 0
     /\ \/ call'[c].at = "lock" /\ call'[c].op \in Starts \union Ordered \union {"expire"}
        \/ call'[c].at = "shut" /\ call'[c].op = "reset"
  \/ /\ call'[c].op = call[c].op /\ call'[c].profile = call[c].profile
     /\ \/ /\ ShutGate(c) /\ call[c].at = "shut" /\ call'[c].at = "lock"
           /\ call'[c].gen = gate.gen + 1 /\ gate'.gen = gate.gen + 1 /\ gate'.closed
        \/ /\ TakeLock(c) /\ call[c].at = "lock" /\ call'[c].at = "quiesce" /\ Holding = {}
           /\ call'[c].gen = call[c].gen /\ (call[c].op # "reset" => gate'.closed)
        \/ /\ call[c].at = "quiesce" /\ call'[c].gen = call[c].gen
           /\ \/ call'[c].at = "advance" /\ call[c].op \in Starts
              \/ call'[c].at = "replay" /\ call[c].op \in {"clear", "reset"}
              \/ call'[c].at = "read" /\ call[c].op \notin {"none", "clear", "reset"} \union Starts
        \/ /\ AdvanceFor(c) /\ call[c].at = "advance" /\ call'[c].at = "send"
           /\ call'[c].gen = gate.gen + 1 /\ gate'.gen = gate.gen + 1
        \/ /\ call[c].at = "replay" /\ call'[c].gen = call[c].gen /\ query.at = "idle"
           /\ call'[c].at = IF call[c].op = "clear" THEN "read" ELSE "send"
        \/ /\ call[c].at = "read" /\ call'[c].at = "send" /\ call'[c].gen = gate.gen
  \/ /\ (SendOrdered(c) \/ SendUrgent(c))
     /\ call[c].at = "send" /\ call'[c].at = "ack" /\ call'[c].op = call[c].op /\ call'[c].gen = 0
  \/ /\ call[c].at = "ack" /\ call'[c].at = "open" /\ call'[c].op = call[c].op
     /\ call[c].op # "reset"
     /\ \/ /\ (WorkerStarts \/ WorkerResumes)
           /\ Head(urgent).from = c /\ call'[c].gen = Head(urgent).gen
        \/ /\ (WorkerClears \/ WorkerChangesProfile)
           /\ hand.from = c /\ call'[c].gen = gate.gen + 1 /\ gate'.gen = gate.gen + 1
  \/ /\ call[c].at = "ack" /\ call'[c].at = "end" /\ call'[c].op = call[c].op
     /\ call'[c].gen = call[c].gen /\ gate.closed
  \/ /\ Open(c) /\ call[c].at = "open" /\ call'[c].at = "publish"
     /\ call'[c].op = call[c].op /\ call'[c].gen = call[c].gen

LEMMA OperationMoves ==
  ASSUME TypeOK, QueueInv, WaitInv, CallInv, NEW c \in Callers,
         Expire(c) \/ TakeLock(c) \/ Operate(c) \/ TimesOut(c)
  PROVE  Moves(c) /\ \A d \in Callers : d # c => call'[d] = call[d]
<1>1. call \in [Callers -> Calls] /\ call[c] \in Calls
  BY Typing
<1>2. Returns(c) \/ Fails(c) => call'[c] = NoCall /\ \A d \in Callers : d # c => call'[d] = call[d]
  BY <1>1 DEF Returns, Fails
<1>3. ASSUME NEW at, Goes(c, at)
      PROVE  /\ call'[c].at = at /\ call'[c].op = call[c].op /\ call'[c].gen = call[c].gen
             /\ call'[c].profile = call[c].profile
             /\ \A d \in Callers : d # c => call'[d] = call[d]
  BY <1>1, <1>3 DEF Goes, Calls
<1>4. Awaits(c) => /\ call'[c].at = "ack" /\ call'[c].op = call[c].op /\ call'[c].gen = 0
                   /\ \A d \in Callers : d # c => call'[d] = call[d]
  BY <1>1 DEF Awaits, NoCall
<1>5. CASE Expire(c)
  BY <1>1, <1>5 DEF Expire, Begins, NoCall, Moves
<1>6. CASE TakeLock(c)
  <2>1. call[c].op # "reset" /\ gate' = [gate EXCEPT !.closed = TRUE] => gate'.closed
    BY Typing DEF Gates
  <2> QED BY <1>2, <1>3, <1>6, <2>1 DEF TakeLock, Moves
<1>7. CASE TimesOut(c)
  BY <1>2, <1>7 DEF TimesOut, Moves
<1>8. CASE ShutGate(c)
  <2>1. CASE gate.gen < MaxGeneration
    <3>1. gate'.gen = gate.gen + 1 /\ gate'.closed
      BY <1>8, <2>1, GateTypes, Typing DEF ShutGate
    <3>2. call' = [call EXCEPT ![c].at = "lock", ![c].gen = gate.gen + 1] /\ call[c].at = "shut"
      BY <1>8, <2>1 DEF ShutGate
    <3>3. /\ call'[c].at = "lock" /\ call'[c].gen = gate.gen + 1 /\ call'[c].op = call[c].op
          /\ call'[c].profile = call[c].profile
          /\ \A d \in Callers : d # c => call'[d] = call[d]
      BY <1>1, <3>2 DEF Calls
    <3> QED BY <1>8, <3>1, <3>2, <3>3 DEF Moves
  <2>2. CASE ~(gate.gen < MaxGeneration)
    BY <1>2, <1>8, <2>2 DEF ShutGate, Moves
  <2> QED BY <2>1, <2>2
<1>9. CASE Quiesce(c)
  <2>1. call[c].op # "none"
    BY <1>9 DEF Quiesce, CallInv
  <2> QED BY <1>1, <1>2, <1>3, <1>9, <2>1 DEF Quiesce, Moves, Starts
<1>10. CASE AdvanceFor(c)
  <2>1. CASE CanAdvance
    <3>1. gate'.gen = gate.gen + 1
      BY <1>10, <2>1, GateTypes, Typing DEF AdvanceFor, CanAdvance
    <3>2. call' = [call EXCEPT ![c].at = "send", ![c].gen = gate.gen + 1] /\ call[c].at = "advance"
      BY <1>10, <2>1 DEF AdvanceFor
    <3>3. /\ call'[c].at = "send" /\ call'[c].gen = gate.gen + 1 /\ call'[c].op = call[c].op
          /\ call'[c].profile = call[c].profile
          /\ \A d \in Callers : d # c => call'[d] = call[d]
      BY <1>1, <3>2 DEF Calls
    <3> QED BY <1>10, <3>1, <3>2, <3>3 DEF Moves
  <2>2. CASE ~CanAdvance
    BY <1>2, <1>10, <2>2 DEF AdvanceFor, Moves
  <2> QED BY <2>1, <2>2
<1>11. CASE TakeReplayLock(c)
  BY <1>3, <1>11 DEF TakeReplayLock, Moves
<1>12. CASE ReadGeneration(c)
  <2>1. PICK lim : call' = [call EXCEPT ![c].at = "send", ![c].gen = gate.gen, ![c].deadline = lim]
    BY <1>1, <1>12 DEF ReadGeneration
  <2>2. /\ call'[c].at = "send" /\ call'[c].gen = gate.gen /\ call'[c].op = call[c].op
        /\ call'[c].profile = call[c].profile
        /\ \A d \in Callers : d # c => call'[d] = call[d]
    BY <1>1, <2>1 DEF Calls
  <2> QED BY <1>12, <2>2 DEF ReadGeneration, Moves
<1>13. CASE SendOrdered(c)
  BY <1>2, <1>4, <1>13 DEF SendOrdered, Moves
<1>14. CASE SendUrgent(c)
  BY <1>2, <1>4, <1>14 DEF SendUrgent, Moves
<1>15. CASE Open(c)
  <2>1. CASE call' = [call EXCEPT ![c].at = "publish"]
    <3>1. /\ call'[c].at = "publish" /\ call'[c].gen = call[c].gen /\ call'[c].op = call[c].op
          /\ \A d \in Callers : d # c => call'[d] = call[d]
      BY <1>1, <2>1 DEF Calls
    <3> QED BY <1>15, <3>1 DEF Open, Moves
  <2>2. CASE Fails(c)
    BY <1>2, <2>2 DEF Moves
  <2> QED BY <1>15, <2>1, <2>2 DEF Open
<1>16. CASE PublishDeadline(c)
  BY <1>2, <1>16 DEF PublishDeadline, Moves
<1>17. CASE EndClosed(c)
  BY <1>2, <1>17 DEF EndClosed, Moves
<1> QED BY <1>5, <1>6, <1>7, <1>8, <1>9, <1>10, <1>11, <1>12, <1>13, <1>14, <1>15, <1>16, <1>17
        DEF Operate

(* What the worker answers, it answers to somebody who waits.              *)
LEMMA WorkMoves ==
  ASSUME TypeOK, QueueInv, WaitInv, CallInv, NEW c \in Callers,
         Work \/ WorkerTicks \/ WorkerPanics
  PROVE  Moves(c)
<1> USE DEF gatev, workv, queues, callv
<1>1. call \in [Callers -> Calls] /\ call[c] \in Calls
  BY Typing
<1>2. UNCHANGED call => Moves(c)
  BY DEF Moves
<1>3. \A callers : Refuses(callers) => Moves(c)
  BY DEF Refuses, Moves
<1>4. ASSUME NEW x \in Waits, x.from = c
      PROVE  call[c].at = "ack" /\ x.kind = IF call[c].op = "expire" THEN "profile" ELSE call[c].op
  BY <1>4, Bounds DEF WaitInv, Answers
<1>5. ASSUME NEW from, NEW g, NEW pr, NEW d, Opens(from, g, pr, d)
      PROVE  IF from # c THEN call'[c] = call[c]
             ELSE call'[c].at = "open" /\ call'[c].op = call[c].op /\ call'[c].gen = g
  BY <1>1, <1>5, Bounds DEF Opens
<1>6. ASSUME NEW from, Ends(from)
      PROVE  IF from # c THEN call'[c] = call[c]
             ELSE call'[c].at = "end" /\ call'[c].op = call[c].op /\ call'[c].gen = call[c].gen
  BY <1>1, <1>6, Bounds DEF Ends, Calls
<1>7. CASE WorkerStarts
  <2>1. Unboxes("start")
    BY <1>7 DEF WorkerStarts
  <2>2. Head(urgent) \in Waits /\ Head(urgent).kind = "start"
    BY <2>1, Unboxed DEF Waits
  <2>3. CASE Opens(Head(urgent).from, Head(urgent).gen, "Normal", None)
    BY <1>4, <1>5, <1>7, <2>2, <2>3 DEF Moves
  <2> QED BY <1>3, <1>7, <2>3 DEF WorkerStarts
<1>8. CASE WorkerResumes
  <2>1. Unboxes("resume")
    BY <1>8 DEF WorkerResumes
  <2>2. Head(urgent) \in Waits /\ Head(urgent).kind = "resume"
    BY <2>1, Unboxed DEF Waits
  <2>3. CASE Opens(Head(urgent).from, Head(urgent).gen, "Normal", None)
    BY <1>4, <1>5, <1>8, <2>2, <2>3 DEF Moves
  <2> QED BY <1>3, <1>8, <2>3 DEF WorkerResumes
<1>9. CASE WorkerResets
  <2>1. Unboxes("reset")
    BY <1>9 DEF WorkerResets
  <2>2. Head(urgent) \in Waits
    BY <2>1, Unboxed DEF Waits
  <2>3. CASE gate.gen = Head(urgent).gen /\ gate.closed
    <3> DEFINE u == Head(urgent)
               unheard == {ingress[i].from : i \in 1..Len(ingress)}
    <3>1. call' = [d \in Callers |-> IF d = u.from THEN [call[d] EXCEPT !.at = "end"]
                                     ELSE IF d \in unheard THEN NoCall ELSE call[d]]
      BY <1>9, <2>3 DEF WorkerResets
    <3> HIDE DEF unheard
    <3>2. CASE u.from = c
      BY <1>1, <1>4, <2>2, <2>3, <3>1, <3>2 DEF Calls, Moves
    <3>3. CASE u.from # c
      BY <3>1, <3>3 DEF Moves
    <3> QED BY <3>2, <3>3
  <2> QED BY <1>3, <1>9, <2>3 DEF WorkerResets
<1>10. CASE WorkerStops
  <2>1. Takes({"stop"}) /\ Ends(Head(ingress).from)
    BY <1>10 DEF WorkerStops
  <2>2. Head(ingress) \in Waits /\ Head(ingress).kind = "stop"
    BY <2>1, Taken DEF Waits
  <2>3. Head(ingress).from = c => gate.closed
    <3>1. Head(ingress).from = c => call[c].at = "ack" /\ call[c].op # "reset"
      BY <1>4, <2>2
    <3> QED BY <3>1 DEF CallInv, Holding
  <2> QED BY <1>4, <1>6, <2>1, <2>2, <2>3 DEF Moves
<1>11. CASE WorkerClears
  <2>1. hand \in Waits /\ hand.kind = "clear"
    BY <1>11 DEF WorkerClears, WorkerAdvances, Waits
  <2>2. CASE CanAdvance
    <3>1. gate'.gen = gate.gen + 1 /\ gate.closed
      BY <1>11, <2>2, GateTypes, Typing DEF WorkerClears, CanAdvance
    <3>2. CASE Opens(hand.from, gate.gen + 1, session.profile, hand.deadline)
      <4>1. CASE hand.from = c
        BY <1>4, <1>5, <1>11, <2>1, <3>1, <3>2, <4>1 DEF Moves
      <4> QED BY <1>5, <3>2, <4>1 DEF Moves
    <3>3. CASE Ends(hand.from)
      BY <1>4, <1>6, <2>1, <3>1, <3>3 DEF Moves
    <3> QED BY <1>11, <2>2, <3>2, <3>3 DEF WorkerClears
  <2> QED BY <1>3, <1>11, <2>2 DEF WorkerClears
<1>12. CASE WorkerChangesProfile
  <2>1. hand \in Waits /\ hand.kind = "profile"
    BY <1>12 DEF WorkerChangesProfile, WorkerAdvances, Waits
  <2>2. CASE CanAdvance
    <3>1. gate'.gen = gate.gen + 1
      BY <1>12, <2>2, GateTypes, Typing DEF WorkerChangesProfile, CanAdvance
    <3>2. Opens(hand.from, gate.gen + 1, hand.profile, hand.deadline)
      BY <1>12, <2>2 DEF WorkerChangesProfile
    <3>3. CASE hand.from = c
      BY <1>4, <1>5, <1>12, <2>1, <3>1, <3>2, <3>3 DEF Moves
    <3> QED BY <1>5, <3>2, <3>3 DEF Moves
  <2> QED BY <1>3, <1>12, <2>2 DEF WorkerChangesProfile
<1>13. CASE WorkerRecords \/ WorkerChecks \/ WorkerTicks
  BY <1>2, <1>13 DEF WorkerRecords, WorkerChecks, WorkerTicks
<1>14. CASE WorkerRefuses
  BY <1>3, <1>14 DEF WorkerRefuses
<1>15. CASE WorkerPanics
  BY <1>3, <1>15 DEF WorkerPanics
<1>16. CASE SupervisorShuts \/ SupervisorRecovers
  BY <1>2, <1>3, <1>16 DEF SupervisorShuts, SupervisorRecovers, RejectAll
<1> QED BY <1>7, <1>8, <1>9, <1>10, <1>11, <1>12, <1>13, <1>14, <1>15, <1>16 DEF Work

LEMMA CallSteps ==
  ASSUME TypeOK, QueueInv, WaitInv, CallInv, NEW c \in Callers, [Next]_vars
  PROVE  Moves(c)
<1> USE DEF gatev, workv, queues, callv
<1>1. UNCHANGED call => Moves(c)
  BY DEF Moves
<1>2. ASSUME NEW p \in Producers, Enter(p) \/ Records(p)
      PROVE  Moves(c)
  BY <1>1, <1>2 DEF Enter, Records, Count, Confirm, CloseExpired, Validate, DropLease, SendDraft
<1>3. Request \/ RequestTrace \/ RequestReset => Moves(c)
  <2>1. \A op, at, pr, lim : Begins("user", op, at, pr, lim) =>
          /\ c # "user" => call'[c] = call[c]
          /\ c = "user" => call[c].at = "idle" /\ call'[c].gen = 0 /\ call'[c].at = at
                           /\ call'[c].op = op
    BY Typing DEF Begins, NoCall
  <2>2. ASSUME Request
        PROVE  Moves(c)
    BY <2>1, <2>2 DEF Request, Moves, Starts, Ordered
  <2>3. ASSUME RequestTrace
        PROVE  Moves(c)
    BY <2>1, <2>3 DEF RequestTrace, Moves, Starts, Ordered
  <2>4. ASSUME RequestReset
        PROVE  Moves(c)
    BY <2>1, <2>4 DEF RequestReset, Moves
  <2> QED BY <2>2, <2>3, <2>4
<1>4. ASSUME NEW d \in Callers, Expire(d) \/ TakeLock(d) \/ Operate(d) \/ TimesOut(d)
      PROVE  Moves(c)
  BY <1>4, OperationMoves DEF Moves
<1>5. LingersNoMore \/ AskReplay \/ WorkerAnswers \/ EndReplay \/ (\E d \in Deadlines : TimePasses(d))
         \/ UNCHANGED vars => Moves(c)
  BY <1>1 DEF LingersNoMore, AskReplay, WorkerAnswers, EndReplay, TimePasses, vars
<1> QED BY <1>2, <1>3, <1>4, <1>5, WorkMoves DEF Next
(* Whoever waits is answered from one place.                               *)
LEMMA OnePlace ==
  ASSUME TypeOK, QueueInv, WaitInv, NEW c \in Callers,
         NEW x \in Waits, NEW y \in Waits, x.from = c, y.from = c
  PROVE  /\ x \in Queued(urgent) <=> y \in Queued(urgent)
         /\ x \in Queued(urgent) => x \notin Queued(ingress) /\ x # hand
         /\ x = hand => y \notin Queued(ingress)
<1>1. c # None
  BY Bounds
<1>2. x.kind = y.kind
  BY <1>1 DEF WaitInv, Answers
<1>3. x \in Queued(urgent) => y \notin Queued(ingress) /\ y # hand
  BY <1>1, <1>2 DEF QueueInv, Ordered, Starts
<1>4. y \in Queued(urgent) => x \notin Queued(ingress) /\ x # hand
  BY <1>1, <1>2 DEF QueueInv, Ordered, Starts
<1>5. x \in Queued(urgent) => x \notin Queued(ingress) /\ x # hand
  BY <1>1 DEF QueueInv, Ordered, Starts
<1> QED BY <1>1, <1>3, <1>4, <1>5 DEF Waits, WaitInv

(* An operation waits on, and what it waits for is still there; or it does *)
(* not, and nothing is left of it.                                         *)
Heard(c) ==
  \/ /\ call'[c] = call[c]
     /\ (\E x \in Waits : x.from = c) /\ worker.at \notin {"panicked", "drain"} =>
          worker'.at \in {"panicked", "drain"} \/ \E x \in Waits' : x.from = c
  \/ call'[c].at # "ack" /\ \A x \in Waits' : x.from # c

LEMMA WorkHeard ==
  ASSUME TypeOK, QueueInv, WaitInv, CallInv, NEW c \in Callers, call[c].at = "ack",
         Work \/ WorkerTicks \/ WorkerPanics
  PROVE  Heard(c)
<1> USE DEF gatev, workv, queues, callv
<1>1. /\ call \in [Callers -> Calls] /\ call[c] \in Calls /\ c # None /\ ingress \in Seq(Items)
      /\ Queued(ingress) \subseteq Items /\ urgent \in Seq(Items) /\ NoCall.at # "ack"
      /\ NoItem.from = None
  BY Typing, Bounds, Blanks DEF TypeOK
<1>2. ASSUME NEW from, (\E g, pr, d : Opens(from, g, pr, d)) \/ Ends(from) \/ Refuses({from})
      PROVE  IF from = c THEN call'[c].at # "ack" ELSE call'[c] = call[c]
  <2>1. ASSUME NEW g, NEW pr, NEW d, Opens(from, g, pr, d)
        PROVE  IF from = c THEN call'[c].at # "ack" ELSE call'[c] = call[c]
    BY <1>1, <2>1 DEF Opens
  <2>2. CASE Ends(from)
    BY <1>1, <2>2 DEF Ends, Calls
  <2>3. CASE Refuses({from})
    BY <1>1, <2>3 DEF Refuses
  <2> QED BY <1>2, <2>1, <2>2, <2>3
<1>3. ASSUME NEW kind, Unboxes(kind), UNCHANGED <<ingress, hand>>,
             IF Head(urgent).from = c THEN call'[c].at # "ack" ELSE call'[c] = call[c]
      PROVE  Heard(c)
  <2>1. /\ Queued(urgent) = {Head(urgent)} \union Queued(urgent')
        /\ \A x \in Queued(urgent') : x.from = Head(urgent).from => x.from = None
    BY <1>3, Unboxed DEF WaitInv
  <2>2. CASE Head(urgent).from = c
    <3>1. \A x \in Queued(ingress) \union {hand} : x.from # c
      BY <2>1, <2>2, OnePlace DEF Waits
    <3> QED BY <1>1, <1>3, <2>1, <2>2, <3>1 DEF Heard, Waits
  <2>3. CASE Head(urgent).from # c
    BY <1>3, <2>1, <2>3 DEF Heard, Waits
  <2> QED BY <2>2, <2>3
<1>4. ASSUME NEW kinds, Takes(kinds), UNCHANGED <<urgent, hand>>,
             IF Head(ingress).from = c THEN call'[c].at # "ack" ELSE call'[c] = call[c]
      PROVE  Heard(c)
  <2>1. /\ Queued(ingress) = {Head(ingress)} \union Queued(ingress')
        /\ \A x \in Queued(ingress') : x.from = Head(ingress).from => x.from = None
    BY <1>4, Taken DEF WaitInv
  <2>2. CASE Head(ingress).from = c
    <3>1. \A x \in Queued(urgent) : x.from # c
      BY <2>1, <2>2, OnePlace DEF Waits
    <3>2. hand.from # c
      BY <1>1, <2>1, <2>2 DEF WaitInv
    <3> QED BY <1>1, <1>4, <2>1, <2>2, <3>1, <3>2 DEF Heard, Waits
  <2>3. CASE Head(ingress).from # c
    BY <1>4, <2>1, <2>3 DEF Heard, Waits
  <2> QED BY <2>2, <2>3
<1>5. CASE WorkerStarts
  <2>1. \/ Opens(Head(urgent).from, Head(urgent).gen, "Normal", None)
        \/ Refuses({Head(urgent).from})
    BY <1>5 DEF WorkerStarts
  <2> QED BY <1>2, <1>3, <1>5, <2>1 DEF WorkerStarts
<1>6. CASE WorkerResumes
  <2>1. \/ Opens(Head(urgent).from, Head(urgent).gen, "Normal", None)
        \/ Refuses({Head(urgent).from})
    BY <1>6 DEF WorkerResumes
  <2> QED BY <1>2, <1>3, <1>6, <2>1 DEF WorkerResumes
<1>7. CASE WorkerResets
  <2>1. Unboxes("reset") /\ UNCHANGED hand
    BY <1>7 DEF WorkerResets
  <2>2. CASE gate.gen = Head(urgent).gen /\ gate.closed
    <3> DEFINE u == Head(urgent)
               unheard == {ingress[i].from : i \in 1..Len(ingress)}
    <3>1. ingress' = <<>> /\
          call' = [d \in Callers |-> IF d = u.from THEN [call[d] EXCEPT !.at = "end"]
                                     ELSE IF d \in unheard THEN NoCall ELSE call[d]]
      BY <1>7, <2>2 DEF WorkerResets
    <3>2. unheard = {x.from : x \in Queued(ingress)}
      BY DEF Queued
    <3> HIDE DEF unheard
    <3>3. /\ Queued(urgent) = {u} \union Queued(urgent') /\ Queued(ingress') = {}
          /\ \A x \in Queued(urgent') : x.from = u.from => x.from = None
      BY <2>1, <3>1, Unboxed, EmptyOf DEF WaitInv
    <3>4. hand.from # c
      BY <1>1, <2>1, Unboxed DEF QueueInv
    <3>5. CASE u.from = c
      BY <1>1, <2>1, <3>1, <3>3, <3>4, <3>5 DEF Heard, Waits, Calls
    <3>6. CASE u.from # c /\ c \in unheard
      <4>1. PICK y \in Queued(ingress) : y.from = c
        BY <3>2, <3>6
      <4>2. \A x \in Queued(urgent) : x.from # c
        BY <4>1, OnePlace DEF Waits
      <4>3. call'[c].at # "ack"
        BY <1>1, <3>1, <3>6
      <4> QED BY <2>1, <3>3, <3>4, <4>2, <4>3 DEF Heard, Waits
    <3>7. CASE u.from # c /\ c \notin unheard
      <4>1. call'[c] = call[c]
        BY <3>1, <3>7
      <4>2. \A x \in Queued(ingress) : x.from # c
        BY <3>2, <3>7
      <4> QED BY <2>1, <3>3, <3>7, <4>1, <4>2 DEF Heard, Waits
    <3> QED BY <3>5, <3>6, <3>7
  <2>3. CASE ~(gate.gen = Head(urgent).gen /\ gate.closed)
    BY <1>2, <1>3, <1>7, <2>3 DEF WorkerResets
  <2> QED BY <2>2, <2>3
<1>8. CASE WorkerRecords
  <2>1. Takes({"draft"}) /\ UNCHANGED <<urgent, hand, call>>
    BY <1>8 DEF WorkerRecords
  <2>2. Head(ingress).from # c
    BY <1>1, <2>1, Taken DEF QueueInv
  <2> QED BY <1>4, <2>1, <2>2
<1>9. CASE WorkerRefuses
  <2>1. /\ Takes({"stop", "clear", "profile"}) /\ Refuses({Head(ingress).from})
        /\ UNCHANGED <<urgent, hand>>
    BY <1>9 DEF WorkerRefuses
  <2> QED BY <1>2, <1>4, <2>1
<1>10. CASE WorkerStops
  BY <1>2, <1>4, <1>10 DEF WorkerStops
<1>11. CASE WorkerChecks
  <2>1. Takes({"clear", "profile"}) /\ UNCHANGED <<urgent, call>> /\ hand' = Head(ingress)
    BY <1>11 DEF WorkerChecks
  <2>2. Queued(ingress) = {Head(ingress)} \union Queued(ingress') /\ hand.from = None
    BY <2>1, Taken DEF QueueInv
  <2> QED BY <1>1, <2>1, <2>2 DEF Heard, Waits
<1>12. ASSUME hand' = NoItem, UNCHANGED urgent, worker.at = "advance",
              \A x \in Queued(ingress') : \E y \in Queued(ingress) : x.from = y.from,
              \A y \in Queued(ingress) : \E x \in Queued(ingress') : x.from = y.from,
              IF hand.from = c THEN call'[c].at # "ack" ELSE call'[c] = call[c]
       PROVE  Heard(c)
  <2>1. CASE hand.from = c
    <3>1. \A x \in Queued(urgent) \union Queued(ingress) : x.from # c
      BY <2>1, OnePlace DEF Waits, WaitInv
    <3> QED BY <1>1, <1>12, <2>1, <3>1 DEF Heard, Waits
  <2>2. CASE hand.from # c
    BY <1>1, <1>12, <2>2 DEF Heard, Waits
  <2> QED BY <2>1, <2>2
<1>13. CASE WorkerClears
  <2>1. CASE CanAdvance
    <3>1. Opens(hand.from, gate.gen + 1, session.profile, hand.deadline) \/ Ends(hand.from)
      BY <1>13, <2>1 DEF WorkerClears
    <3>2. ingress' = OldItems(hand.from)
      BY <1>13, <2>1 DEF WorkerClears
    <3>3. Queued(ingress') = IF hand.from = None THEN Queued(ingress)
                             ELSE {Aged(x) : x \in Queued(ingress)}
      BY <1>1, <3>2, Aging
    <3>4. /\ \A x \in Queued(ingress') : \E y \in Queued(ingress) : x.from = y.from
          /\ \A y \in Queued(ingress) : \E x \in Queued(ingress') : x.from = y.from
      BY <1>1, <3>3, Likeness
    <3> QED BY <1>2, <1>12, <1>13, <3>1, <3>4 DEF WorkerClears, WorkerAdvances
  <2>2. CASE ~CanAdvance
    BY <1>2, <1>12, <1>13, <2>2 DEF WorkerClears, WorkerAdvances
  <2> QED BY <2>1, <2>2
<1>14. CASE WorkerChangesProfile
  <2>1. Opens(hand.from, gate.gen + 1, hand.profile, hand.deadline) \/ Refuses({hand.from})
    BY <1>14 DEF WorkerChangesProfile
  <2> QED BY <1>2, <1>12, <1>14, <2>1 DEF WorkerChangesProfile, WorkerAdvances
<1>15. CASE WorkerTicks
  BY <1>15 DEF WorkerTicks, Heard, Waits
<1>16. CASE WorkerPanics
  <2>1. worker'.at \in {"panicked", "drain"}
    BY <1>16 DEF WorkerPanics, TypeOK, Workers
  <2>2. CASE Refuses({hand.from}) /\ UNCHANGED queues
    <3>1. CASE hand.from = c
      <4>1. \A x \in Queued(urgent) \union Queued(ingress) : x.from # c
        BY <3>1, OnePlace DEF Waits, WaitInv
      <4> QED BY <1>1, <1>2, <1>16, <2>2, <3>1, <4>1 DEF Heard, Waits, WorkerPanics
    <3>2. CASE hand.from # c
      BY <1>2, <2>1, <2>2, <3>2 DEF Heard
    <3> QED BY <3>1, <3>2
  <2>3. CASE /\ hand = NoItem /\ urgent # <<>>
             /\ Refuses({Head(urgent).from}) /\ urgent' = Tail(urgent) /\ UNCHANGED ingress
    <3>1. CASE Head(urgent).from = c
      <4>1. /\ Head(urgent) \in Queued(urgent) /\ Queued(urgent') \subseteq Queued(urgent)
            /\ \A x \in Queued(urgent') : x.from = Head(urgent).from => x.from = None
        BY <1>1, <2>3, TailOf DEF WaitInv
      <4>2. \A x \in Queued(ingress) : x.from # c
        BY <3>1, <4>1, OnePlace DEF Waits
      <4> QED BY <1>1, <1>2, <1>16, <2>3, <3>1, <4>1, <4>2 DEF Heard, Waits, WorkerPanics
    <3>2. CASE Head(urgent).from # c
      BY <1>2, <2>1, <2>3, <3>2 DEF Heard
    <3> QED BY <3>1, <3>2
  <2>4. CASE /\ hand = NoItem /\ urgent = <<>> /\ ingress # <<>>
             /\ Refuses({Head(ingress).from}) /\ ingress' = Tail(ingress) /\ UNCHANGED urgent
    <3>1. CASE Head(ingress).from = c
      <4>1. \A x \in Queued(ingress') : x.from = Head(ingress).from => x.from = None
        BY <1>1, <2>4, TailOf DEF WaitInv
      <4>2. Queued(urgent) = {}
        BY <2>4, EmptyOf
      <4> QED BY <1>1, <1>2, <1>16, <2>4, <3>1, <4>1, <4>2 DEF Heard, Waits, WorkerPanics
    <3>2. CASE Head(ingress).from # c
      BY <1>2, <2>1, <2>4, <3>2 DEF Heard
    <3> QED BY <3>1, <3>2
  <2> QED BY <1>16, <2>2, <2>3, <2>4 DEF WorkerPanics
<1>17. ASSUME RejectAll, UNCHANGED hand, worker.at # "advance"
       PROVE  Heard(c)
  <2>1. call'[c] = NoCall
    BY <1>17 DEF RejectAll, Refuses
  <2>2. hand.from # c
    BY <1>1, <1>17 DEF QueueInv
  <2> QED BY <1>1, <1>17, <2>1, <2>2, EmptyOf DEF Heard, Waits, RejectAll
<1>18. CASE SupervisorShuts
  <2>1. CASE gate.gen < MaxGeneration
    BY <1>18, <2>1 DEF SupervisorShuts, Heard, Waits
  <2> QED BY <1>17, <1>18, <2>1 DEF SupervisorShuts
<1>19. CASE SupervisorRecovers
  BY <1>17, <1>19 DEF SupervisorRecovers
<1> QED BY <1>5, <1>6, <1>7, <1>8, <1>9, <1>10, <1>11, <1>13, <1>14, <1>15, <1>16, <1>18, <1>19
        DEF Work

LEMMA AllHeard ==
  ASSUME TypeOK, QueueInv, WaitInv, CallInv, NEW c \in Callers, call[c].at = "ack", [Next]_vars
  PROVE  Heard(c)
<1> USE DEF gatev, workv, queues, callv
<1>1. /\ call \in [Callers -> Calls] /\ c # None /\ Queued(ingress) \subseteq Items
      /\ Queued(urgent) \subseteq Items /\ hand \in Items /\ NoCall.at # "ack"
      /\ ingress \in Seq(Items) /\ urgent \in Seq(Items)
  BY Typing, Bounds, Blanks DEF TypeOK
<1>2. ASSUME call'[c] = call[c], Queued(ingress) \subseteq Queued(ingress'), UNCHANGED hand,
             Queued(urgent) \subseteq Queued(urgent')
      PROVE  Heard(c)
  BY <1>2 DEF Heard, Waits
<1>3. ASSUME NEW p \in Producers, Enter(p) \/ Records(p)
      PROVE  Heard(c)
  <2>1. CASE SendDraft(p)
    <3>1. Queued(ingress) \subseteq Queued(ingress')
      <4> DEFINE x == [Item("draft", producer[p].gen, producer[p].profile, None, None)
                          EXCEPT !.age = producer[p].age]
      <4>1. producer[p] \in Leases
        BY Typing
      <4>2. x \in Items
        BY <4>1 DEF Leases, Items, Item
      <4>3. ingress' = Append(ingress, x)
        BY <2>1 DEF SendDraft
      <4> HIDE DEF x
      <4> QED BY <1>1, <4>2, <4>3, AppendOf
    <3> QED BY <1>2, <2>1, <3>1 DEF SendDraft
  <2>2. CASE ~SendDraft(p)
    BY <1>2, <1>3, <2>2 DEF Enter, Records, Count, Confirm, CloseExpired, Validate, DropLease
  <2> QED BY <2>1, <2>2
<1>4. Request \/ RequestTrace \/ RequestReset => Heard(c)
  <2>1. \A op, at, pr, lim : Begins("user", op, at, pr, lim) =>
           call'[c] = call[c] /\ UNCHANGED <<ingress, urgent, hand>>
    BY <1>1 DEF Begins
  <2>2. Request \/ RequestTrace \/ RequestReset => call'[c] = call[c] /\ UNCHANGED <<ingress, urgent, hand>>
    BY <2>1 DEF Request, RequestTrace, RequestReset
  <2> QED BY <1>2, <2>2
<1>5. ASSUME NEW d \in Callers, Expire(d) \/ TakeLock(d) \/ Operate(d), call[d].at # "ack"
      PROVE  Heard(c)
  <2>1. call'[c] = call[c]
    BY <1>5, OperationMoves
  <2>2. CASE SendOrdered(d)
    <3>1. call[d] \in Calls
      BY Typing
    <3>2. Barrier(d) \in Items
      BY <2>2, <3>1 DEF SendOrdered, Barrier, Item, Items, Calls
    <3>3. Queued(ingress) \subseteq Queued(ingress')
      <4>1. ingress' = ingress \/ ingress' = Append(ingress, Barrier(d))
        BY <2>2 DEF SendOrdered
      <4>2. Queued(Append(ingress, Barrier(d))) = Queued(ingress) \union {Barrier(d)}
        BY <1>1, <3>2, AppendOf
      <4> QED BY <4>1, <4>2
    <3> QED BY <1>2, <2>1, <2>2, <3>3 DEF SendOrdered
  <2>3. CASE SendUrgent(d)
    <3>1. call[d] \in Calls
      BY Typing
    <3>2. Item(call[d].op, call[d].gen, "Normal", None, d) \in Items
      BY <2>3, <3>1 DEF SendUrgent, Item, Items, Calls
    <3>3. Queued(urgent) \subseteq Queued(urgent')
      <4>1. urgent' = urgent \/ urgent' = Append(urgent, Item(call[d].op, call[d].gen, "Normal", None, d))
        BY <2>3 DEF SendUrgent
      <4>2. Queued(Append(urgent, Item(call[d].op, call[d].gen, "Normal", None, d))) = Queued(urgent) \union {Item(call[d].op, call[d].gen, "Normal", None, d)}
        BY <1>1, <3>2, AppendOf
      <4> QED BY <4>1, <4>2
    <3> QED BY <1>2, <2>1, <2>3, <3>3 DEF SendUrgent
  <2>4. CASE ~SendOrdered(d) /\ ~SendUrgent(d)
    <3>1. UNCHANGED <<ingress, urgent, hand>>
      BY <1>5, <2>4 DEF Expire, Begins, TakeLock, Operate, ShutGate, AdvanceFor, Open, Quiesce,
                     TakeReplayLock, ReadGeneration, PublishDeadline, EndClosed
    <3> QED BY <1>2, <2>1, <3>1
  <2> QED BY <2>2, <2>3, <2>4
<1>6. ASSUME NEW d \in Callers, Expire(d) \/ TakeLock(d) \/ Operate(d)
      PROVE  call[d].at # "ack"
  BY <1>6 DEF Expire, Begins, TakeLock, Operate, ShutGate, AdvanceFor, Open, Quiesce,
              TakeReplayLock, ReadGeneration, SendOrdered, SendUrgent, PublishDeadline, EndClosed
<1>7. ASSUME NEW d \in Callers, TimesOut(d)
      PROVE  Heard(c)
  <2>1. /\ Queued(ingress') = {Orphaned(x, d) : x \in Queued(ingress)}
        /\ Queued(urgent') = {Orphaned(x, d) : x \in Queued(urgent)} /\ hand' = Orphaned(hand, d)
    BY <1>1, <1>7, Orphans DEF TimesOut
  <2>2. \A x \in Waits : Orphaned(x, d).from = IF x.from = d THEN None ELSE x.from
    BY <1>1, Likeness DEF Waits
  <2>3. Waits' = {Orphaned(x, d) : x \in Waits}
    BY <2>1 DEF Waits
  <2>4. CASE d = c
    <3>1. call'[c].at # "ack"
      BY <1>1, <1>7, <2>4 DEF TimesOut, Fails
    <3> QED BY <1>1, <2>2, <2>3, <2>4, <3>1 DEF Heard
  <2>5. CASE d # c
    <3>1. call'[c] = call[c]
      BY <1>1, <1>7, <2>5 DEF TimesOut, Fails
    <3> QED BY <2>2, <2>3, <2>5, <3>1 DEF Heard
  <2> QED BY <2>4, <2>5
<1>8. LingersNoMore \/ AskReplay \/ WorkerAnswers \/ EndReplay \/ (\E d \in Deadlines : TimePasses(d))
         \/ UNCHANGED vars => Heard(c)
  BY <1>2 DEF LingersNoMore, AskReplay, WorkerAnswers, EndReplay, TimePasses, vars
<1> QED BY <1>3, <1>4, <1>5, <1>6, <1>7, <1>8, WorkHeard DEF Next

(* AnswerComes, with the places where an answer may be.                    *)
LEMMA Places ==
  ASSUME TypeOK
  PROVE  AnswerComes <=> \A c \in Callers : call[c].at = "ack" =>
                           worker.at \in {"panicked", "drain"} \/ \E x \in Waits : x.from = c
BY DEF AnswerComes, Waits, Queued
(* Where what waits comes from.                                            *)
LEMMA WaitsFrom ==
  ASSUME TypeOK, [Next]_vars, NEW c \in Callers
  PROVE  /\ \A x \in Queued(ingress') : x.from = c =>
              \/ \E y \in Queued(ingress) : y.from = c /\ Like(x, y)
              \/ SendOrdered(c) /\ Awaits(c) /\ x = Barrier(c)
         /\ \A x \in Queued(urgent') : x.from = c =>
              \/ \E y \in Queued(urgent) : y.from = c /\ Like(x, y)
              \/ SendUrgent(c) /\ Awaits(c) /\ x.kind = call[c].op
         /\ hand'.from = c =>
              \/ hand.from = c /\ Like(hand', hand)
              \/ WorkerChecks /\ hand' = Head(ingress) /\ hand' \in Queued(ingress)
<1>1. /\ Queued(ingress) \subseteq Items /\ Queued(urgent) \subseteq Items /\ c # None
      /\ NoItem.from = None
  BY Typing, Bounds, Blanks
<1>2. \A x, y : Like(x, y) /\ x.from = c => y.from = c
  BY <1>1 DEF Like
<1>3. ASSUME NEW x \in Queued(ingress'), x.from = c
      PROVE  \/ \E y \in Queued(ingress) : y.from = c /\ Like(x, y)
             \/ SendOrdered(c) /\ Awaits(c) /\ x = Barrier(c)
  <2>1. CASE Stays(Queued(ingress), Queued(ingress'))
    BY <1>2, <1>3, <2>1 DEF Stays
  <2>2. ASSUME NEW y \in Items, y.from = None, Queued(ingress') = Queued(ingress) \union {y}
        PROVE  x \in Queued(ingress)
    BY <1>1, <1>3, <2>2
  <2>3. ASSUME NEW d \in Callers, SendOrdered(d), Awaits(d),
               Queued(ingress') = Queued(ingress) \union {Barrier(d)}
        PROVE  x \in Queued(ingress) \/ (d = c /\ x = Barrier(c))
    BY <1>3, <2>3 DEF Barrier, Item
  <2>4. x \in Queued(ingress) => \E y \in Queued(ingress) : y.from = c /\ Like(x, y)
    BY <1>1, <1>3, Likeness
  <2> QED BY <2>1, <2>2, <2>3, <2>4, IngressSteps
<1>4. ASSUME NEW x \in Queued(urgent'), x.from = c
      PROVE  \/ \E y \in Queued(urgent) : y.from = c /\ Like(x, y)
             \/ SendUrgent(c) /\ Awaits(c) /\ x.kind = call[c].op
  <2>1. CASE Stays(Queued(urgent), Queued(urgent'))
    BY <1>2, <1>4, <2>1 DEF Stays
  <2>2. ASSUME NEW d \in Callers, NEW y \in Items, SendUrgent(d), Awaits(d),
               Queued(urgent') = Queued(urgent) \union {y}, y.kind = call[d].op, y.from = d
        PROVE  x \in Queued(urgent) \/ (d = c /\ x.kind = call[c].op)
    BY <1>4, <2>2
  <2>3. x \in Queued(urgent) => \E y \in Queued(urgent) : y.from = c /\ Like(x, y)
    BY <1>1, <1>4, Likeness
  <2> QED BY <2>1, <2>2, <2>3, UrgentSteps
<1>5. hand'.from = c =>
        \/ hand.from = c /\ Like(hand', hand)
        \/ WorkerChecks /\ hand' = Head(ingress) /\ hand' \in Queued(ingress)
  BY <1>1, <1>2, HandSteps
<1> QED BY <1>3, <1>4, <1>5

LEMMA WaitsKept ==
  ASSUME TypeOK, QueueInv, WaitInv, CallInv, [Next]_vars
  PROVE  WaitInv'
<1>1. call \in [Callers -> Calls] /\ TypeOK'
  BY Typing, Typed
<1>2. ASSUME NEW c \in Callers, call[c].at # "ack"
      PROVE  \A x \in Waits : x.from # c
  BY <1>2, Bounds DEF WaitInv, Answers
<1>3. ASSUME NEW c \in Callers, Awaits(c)
      PROVE  call'[c].at = "ack" /\ call'[c].op = call[c].op
  BY <1>1, <1>3 DEF Awaits, NoCall
<1>4. ASSUME NEW x \in Waits', x.from # None
      PROVE  Answers(x, x.from)'
  <2> DEFINE c == x.from
  <2>1. c \in Callers
    <3>1. Waits' \subseteq Items
      BY <1>1 DEF Waits, Queued, TypeOK
    <3> QED BY <1>4, <3>1 DEF Items
  <2>2. CASE \E y \in Waits : y.from = c /\ Like(x, y)
    <3>1. PICK y \in Waits : y.from = c /\ Like(x, y)
      BY <2>2
    <3>2. Answers(y, c)
      BY <1>4, <3>1 DEF WaitInv
    <3>3. call'[c] = call[c]
      BY <1>4, <2>1, <3>2, AllHeard DEF Heard, Answers
    <3> QED BY <3>1, <3>2, <3>3 DEF Answers, Like
  <2>3. CASE SendOrdered(c) /\ Awaits(c) /\ x = Barrier(c)
    BY <1>3, <2>1, <2>3 DEF Barrier, Item, Answers
  <2>4. CASE SendUrgent(c) /\ Awaits(c) /\ x.kind = call[c].op
    <3>1. call[c].op # "expire"
      BY <2>4 DEF SendUrgent
    <3> QED BY <1>3, <2>1, <2>4, <3>1 DEF Answers
  <2>5. x \in Queued(ingress) /\ x.from = c => \E y \in Waits : y.from = c /\ Like(x, y)
    BY Typing, Likeness DEF Waits
  <2> HIDE DEF c
  <2>6. x.from = c
    BY DEF c
  <2>7. x \in Queued(ingress') \/ x \in Queued(urgent') \/ x = hand'
    BY DEF Waits
  <2>8. Queued(ingress) \subseteq Waits /\ Queued(urgent) \subseteq Waits /\ hand \in Waits
    BY DEF Waits
  <2> QED BY <2>1, <2>2, <2>3, <2>4, <2>5, <2>6, <2>7, <2>8, WaitsFrom
<1>5. Single(ingress')
  <2>1. ASSUME NEW c \in Callers, SendOrdered(c)
        PROVE  \A y \in Queued(ingress) : y.from # c
    BY <1>2, <2>1 DEF SendOrdered, Waits
  <2> QED BY <2>1, IngressSteps DEF WaitInv
<1>6. Single(urgent')
  <2>1. ASSUME NEW c \in Callers, SendUrgent(c)
        PROVE  \A y \in Queued(urgent) : y.from # c
    BY <1>2, <2>1 DEF SendUrgent, Waits
  <2> QED BY <2>1, UrgentSteps DEF WaitInv
<1>7. ASSUME hand'.from # None, NEW x \in Queued(ingress'), x.from = hand'.from
      PROVE  FALSE
  <2>1. PICK c \in Callers : hand'.from = c
    <3>1. hand' \in Items
      BY <1>1 DEF TypeOK
    <3> QED BY <1>7, <3>1 DEF Items
  <2>2. CASE hand.from = c
    <3>1. call[c].at = "ack"
      BY <1>2, <2>2 DEF Waits
    <3>2. ~SendOrdered(c)
      BY <3>1 DEF SendOrdered
    <3> QED BY <1>7, <2>1, <2>2, <3>2, WaitsFrom DEF WaitInv
  <2>3. CASE WorkerChecks /\ hand' = Head(ingress)
    <3>1. Takes({"clear", "profile"})
      BY <2>3 DEF WorkerChecks
    <3> QED BY <1>7, <2>3, <3>1, Taken DEF WaitInv
  <2> QED BY <2>1, <2>2, <2>3, WaitsFrom
<1> QED BY <1>4, <1>5, <1>6, <1>7 DEF WaitInv

LEMMA AnswersKept ==
  ASSUME TypeOK, QueueInv, WaitInv, CallInv, AnswerComes, [Next]_vars
  PROVE  AnswerComes'
<1>1. TypeOK' /\ call \in [Callers -> Calls]
  BY Typed, Typing
<1>2. ASSUME NEW c \in Callers, call'[c].at = "ack"
      PROVE  worker'.at \in {"panicked", "drain"} \/ \E x \in Waits' : x.from = c
  <2>1. CASE call[c].at = "ack"
    <3>1. worker.at \in {"panicked", "drain"} \/ \E x \in Waits : x.from = c
      BY <2>1, Places
    <3>2. CASE worker.at \notin {"panicked", "drain"}
      BY <1>2, <2>1, <3>1, <3>2, AllHeard DEF Heard
    <3>3. CASE worker.at \in {"panicked", "drain"}
      <4>1. SupervisorShuts \/ SupervisorRecovers \/ worker' = worker
        <5> USE DEF gatev, workv, queues, callv
        <5>1. ~Work \/ SupervisorShuts \/ SupervisorRecovers
          BY <3>3 DEF Work, WorkerStarts, WorkerResumes, WorkerResets, WorkerRecords,
                      WorkerRefuses, WorkerStops, WorkerChecks, WorkerClears,
                      WorkerChangesProfile, WorkerAdvances, Takes, Unboxes
        <5>2. ~WorkerTicks /\ ~WorkerPanics
          BY <3>3 DEF WorkerTicks, WorkerPanics
        <5>3. ASSUME NEW p \in Producers, Enter(p) \/ Records(p)
              PROVE  worker' = worker
          BY <5>3 DEF Enter, Records, Count, Confirm, CloseExpired, Validate, DropLease, SendDraft
        <5>4. Request \/ RequestTrace \/ RequestReset => worker' = worker
          BY DEF Request, RequestTrace, RequestReset, Begins
        <5>5. ASSUME NEW d \in Callers, Expire(d) \/ TakeLock(d) \/ Operate(d) \/ TimesOut(d)
              PROVE  worker' = worker
          BY <5>5 DEF Expire, Begins, TakeLock, TimesOut, Operate, ShutGate, AdvanceFor, Open,
                      Quiesce, TakeReplayLock, ReadGeneration, SendOrdered, SendUrgent,
                      PublishDeadline, EndClosed
        <5>6. LingersNoMore \/ AskReplay \/ WorkerAnswers \/ EndReplay
                \/ (\E d \in Deadlines : TimePasses(d)) \/ UNCHANGED vars => worker' = worker
          BY DEF LingersNoMore, AskReplay, WorkerAnswers, EndReplay, TimePasses, vars
        <5> QED BY <5>1, <5>2, <5>3, <5>4, <5>5, <5>6 DEF Next
      <4>2. RejectAll => call'[c] = NoCall
        BY <2>1 DEF RejectAll, Refuses
      <4>3. SupervisorShuts => worker'.at = "drain" \/ RejectAll
        BY <1>1 DEF SupervisorShuts, TypeOK, Workers
      <4>4. SupervisorRecovers => RejectAll
        BY DEF SupervisorRecovers
      <4> QED BY <1>2, <3>3, <4>1, <4>2, <4>3, <4>4, Blanks
    <3> QED BY <3>2, <3>3
  <2>2. CASE call[c].at # "ack"
    <3>1. Moves(c)
      BY CallSteps
    <3>2. SendOrdered(c) \/ SendUrgent(c)
      BY <1>2, <2>2, <3>1, Blanks DEF Moves
    <3>3. call[c] \in Calls /\ ingress \in Seq(Items) /\ urgent \in Seq(Items)
      BY Typing DEF TypeOK
    <3>4. CASE SendOrdered(c)
      <4>1. Barrier(c) \in Items /\ Barrier(c).from = c
        BY <3>3, <3>4 DEF SendOrdered, Barrier, Item, Items, Calls
      <4>2. ingress' = Append(ingress, Barrier(c))
        BY <1>1, <1>2, <3>4, Blanks DEF SendOrdered, Fails
      <4>3. Barrier(c) \in Queued(ingress')
        BY <3>3, <4>1, <4>2, AppendOf
      <4> QED BY <4>1, <4>3 DEF Waits
    <3>5. CASE SendUrgent(c)
      <4> DEFINE x == Item(call[c].op, call[c].gen, "Normal", None, c)
      <4>1. x \in Items /\ x.from = c
        BY <3>3, <3>5 DEF SendUrgent, Item, Items, Calls
      <4>2. urgent' = Append(urgent, x)
        BY <1>1, <1>2, <3>5, Blanks DEF SendUrgent, Fails
      <4> HIDE DEF x
      <4>3. x \in Queued(urgent')
        BY <3>3, <4>1, <4>2, AppendOf
      <4> QED BY <4>1, <4>3 DEF Waits
    <3> QED BY <3>2, <3>4, <3>5
  <2> QED BY <2>1, <2>2
<1> QED BY <1>1, <1>2 DEF AnswerComes, Waits, Queued

LEMMA CallsKept ==
  ASSUME TypeOK, QueueInv, WaitInv, CallInv, [Next]_vars
  PROVE  CallInv'
<1>1. /\ call \in [Callers -> Calls] /\ gate.gen \in Nat /\ gate'.gen \in Nat
      /\ gate.gen <= gate'.gen /\ \A c \in Callers : call[c].gen \in Nat /\ call'[c].gen \in Nat
  <2>1. TypeOK'
    BY Typed
  <2>2. gate'.gen \in Nat /\ \A c \in Callers : call'[c].gen \in Nat
    BY <2>1, Bounds DEF TypeOK, Gates, Calls
  <2> QED BY <2>2, Typing, Grows DEF GateGrows
<1>2. ASSUME NEW c \in Callers
      PROVE  call'[c].gen <= gate'.gen
  <2>1. WorkerStarts \/ WorkerResumes => Head(urgent).gen <= gate.gen /\ Head(urgent).gen \in Nat
    BY Unboxed, Typing DEF WorkerStarts, WorkerResumes, QueueInv
  <2>2. Moves(c) /\ call[c].gen <= gate.gen /\ NoCall.gen = 0
    BY CallSteps, Blanks DEF CallInv
  <2> QED BY <1>1, <2>1, <2>2 DEF Moves
<1>3. ASSUME NEW c \in Callers
      PROVE  /\ call'[c].at = "idle" <=> call'[c].op = "none"
             /\ call'[c].at = "shut" => call'[c].op = "reset"
             /\ call'[c].at = "advance" => call'[c].op \in Starts
             /\ call'[c].at = "replay" => call'[c].op \in {"clear", "reset"}
             /\ call'[c].at = "read" => call'[c].op \in Ordered \union {"expire"}
             /\ call'[c].at \in {"open", "publish"} => call'[c].op # "reset"
  <2>1. Moves(c) /\ call[c] \in Calls
    BY <1>1, CallSteps
  <2> QED BY <2>1, Blanks DEF Moves, CallInv, Starts, Ordered, Calls
<1>4. ASSUME NEW c \in Callers, call'[c].at \notin {"idle", "shut", "lock"}, c \notin Holding
      PROVE  TakeLock(c) /\ Holding = {}
  BY <1>4, CallSteps, Blanks DEF Moves, Holding
<1>5. ASSUME NEW c \in Callers, NEW d \in Callers, c # d,
             call'[c].at \notin {"idle", "shut", "lock"}, call'[d].at \notin {"idle", "shut", "lock"}
      PROVE  FALSE
  <2>1. c \in Holding \/ d \in Holding
    <3>1. TakeLock(c) => call'[d] = call[d]
      BY <1>5, OperationMoves
    <3> QED BY <1>4, <1>5, <3>1 DEF Holding
  <2> QED BY <1>4, <1>5, <2>1 DEF CallInv
<1>6. ASSUME NEW c \in Callers, call'[c].at \notin {"idle", "shut", "lock"},
             (call'[c].op # "reset" /\ call'[c].at # "publish") \/ call'[c].at = "end"
      PROVE  gate'.closed
  <2>1. CASE gate'.closed \/ gate'.closed = gate.closed
    <3>1. CASE c \in Holding
      <4>1. Moves(c)
        BY CallSteps
      <4>2. call[c].op # "reset" /\ call[c].at # "publish" => gate.closed
        BY <3>1 DEF CallInv
      <4>3. gate'.closed \/ gate.closed
        BY <1>6, <3>1, <4>1, <4>2, Blanks DEF Moves, Holding, CallInv
      <4> QED BY <2>1, <4>3
    <3>2. CASE c \notin Holding
      BY <1>6, <3>2, CallSteps, Blanks DEF Moves, Holding
    <3> QED BY <3>1, <3>2
  <2>2. ASSUME NEW d \in Callers, Open(d), ~gate'.closed
        PROVE  FALSE
    <3>1. d \in Holding /\ call[d].at = "open"
      BY <2>2 DEF Open, Holding
    <3>2. CASE c = d
      <4>1. Moves(c)
        BY CallSteps
      <4>2. gate.closed
        BY <3>1 DEF CallInv
      <4>3. gate' # gate
        BY <2>2, <4>2
      <4>4. call' = [call EXCEPT ![d].at = "publish"]
        BY <2>2, <4>3 DEF Open
      <4>5. call'[c].at = "publish"
        BY <1>1, <3>2, <4>4
      <4> QED BY <1>6, <4>5
    <3>3. CASE c # d
      <4>1. call'[c] = call[c]
        BY <2>2, <3>3, OperationMoves DEF Operate
      <4> QED BY <1>6, <3>1, <3>3, <4>1 DEF CallInv, Holding
    <3> QED BY <3>2, <3>3
  <2> QED BY <2>1, <2>2, GateSteps
<1> QED BY <1>2, <1>3, <1>5, <1>6 DEF CallInv, Holding

-----------------------------------------------------------------------------
(* The session and the gate.                                               *)

SameSession ==
  session'.state = session.state /\ session'.profile = session.profile /\ session'.gen = session.gen

(* What a step does to the session.                                        *)
LEMMA SessionSteps ==
  ASSUME TypeOK, [Next]_vars
  PROVE  \/ SameSession
         \/ /\ \/ WorkerStarts /\ session.state = "off"
               \/ WorkerResumes /\ session.state = "stopped"
            /\ gate' = gate /\ worker' = worker /\ gate.gen = Head(urgent).gen
            /\ session'.state = "capturing" /\ session'.profile = "Normal"
            /\ session'.gen = gate.gen
         \/ /\ WorkerResets /\ gate' = gate /\ gate.closed /\ Head(urgent).gen = gate.gen
            /\ session' = NoSession /\ worker' = worker
         \/ /\ WorkerStops /\ gate' = gate /\ worker' = worker
            /\ Head(ingress).gen = gate.gen /\ session'.state = "stopped"
            /\ session'.profile = session.profile /\ session'.gen = session.gen
         \/ /\ WorkerClears \/ WorkerChangesProfile
            /\ gate.closed /\ gate'.closed /\ gate'.gen = gate.gen + 1 /\ session'.gen = gate.gen + 1
            /\ session'.state = session.state /\ worker.at = "advance"
            /\ session'.profile = IF WorkerClears THEN session.profile ELSE hand.profile
         \/ WorkerPanics /\ gate' = gate /\ session' = NoSession /\ worker'.at = "panicked"
<1> USE DEF gatev, workv, queues, callv
<1>1. session \in Sessions /\ worker \in Workers /\ gate \in Gates
  BY DEF TypeOK
<1>2. session' = session => SameSession
  BY DEF SameSession
<1>3. session' = Flushed => SameSession
  BY <1>1 DEF SameSession, Flushed, Sessions
<1>4. ASSUME NEW p \in Producers, Enter(p) \/ Records(p)
      PROVE  SameSession
  BY <1>2, <1>4 DEF Enter, Records, Count, Confirm, CloseExpired, Validate, SendDraft, DropLease
<1>5. Request \/ RequestTrace \/ RequestReset => SameSession
  BY <1>2 DEF Request, RequestTrace, RequestReset, Begins
<1>6. ASSUME NEW c \in Callers, Expire(c) \/ TakeLock(c) \/ TimesOut(c) \/ Operate(c)
      PROVE  SameSession
  BY <1>2, <1>6 DEF Expire, Begins, TakeLock, TimesOut, Operate, ShutGate, AdvanceFor, Open, Quiesce,
                    TakeReplayLock, ReadGeneration, SendOrdered, SendUrgent, PublishDeadline,
                    EndClosed
<1>7. LingersNoMore \/ AskReplay \/ WorkerAnswers \/ EndReplay \/ (\E d \in Deadlines : TimePasses(d))
        \/ UNCHANGED vars => SameSession
  BY <1>2 DEF LingersNoMore, AskReplay, WorkerAnswers, EndReplay, TimePasses, vars
<1>8. WorkerTicks \/ WorkerRefuses \/ SupervisorShuts \/ SupervisorRecovers => SameSession
  BY <1>2, <1>3 DEF WorkerTicks, WorkerRefuses, SupervisorShuts, SupervisorRecovers
<1>9. WorkerChecks => SameSession
  BY <1>2, <1>3 DEF WorkerChecks
<1>10. WorkerRecords => SameSession
  <2>1. ASSUME NEW age, session' \in Coalesced(age)
        PROVE  SameSession
    BY <1>1, <2>1 DEF Coalesced, SameSession, Sessions
  <2> QED BY <1>2, <2>1 DEF WorkerRecords
<1>11. WorkerStarts =>
         \/ SameSession
         \/ /\ session.state = "off" /\ gate' = gate /\ worker' = worker /\ gate.gen = Head(urgent).gen
            /\ session'.state = "capturing" /\ session'.profile = "Normal" /\ session'.gen = gate.gen
  BY <1>2 DEF WorkerStarts, NoSession
<1>12. WorkerResumes =>
         \/ SameSession
         \/ /\ session.state = "stopped" /\ gate' = gate /\ worker' = worker
            /\ gate.gen = Head(urgent).gen
            /\ session'.state = "capturing" /\ session'.profile = "Normal" /\ session'.gen = gate.gen
  BY <1>1, <1>2 DEF WorkerResumes, Sessions
<1>13. WorkerResets =>
         \/ SameSession
         \/ /\ gate' = gate /\ gate.closed /\ Head(urgent).gen = gate.gen
            /\ session' = NoSession /\ worker' = worker
  BY <1>2 DEF WorkerResets
<1>14. WorkerStops =>
         /\ gate' = gate /\ worker' = worker /\ Head(ingress).gen = gate.gen
         /\ session'.state = "stopped" /\ session'.profile = session.profile
         /\ session'.gen = session.gen
  BY <1>1 DEF WorkerStops, Current, Flushed, Sessions
<1>15. ASSUME WorkerClears
       PROVE  \/ SameSession
              \/ /\ gate.closed /\ gate'.closed /\ gate'.gen = gate.gen + 1
                 /\ session'.gen = gate.gen + 1 /\ session'.state = session.state
                 /\ worker.at = "advance" /\ session'.profile = session.profile
  <2>1. CASE CanAdvance
    <3>1. /\ gate' = Advanced /\ worker.at = "advance"
          /\ session' = [Discarded(OldSession(hand.from)) EXCEPT !.gen = gate.gen + 1]
      BY <1>15, <2>1 DEF WorkerClears, WorkerAdvances
    <3>2. /\ OldSession(hand.from) \in Sessions /\ OldSession(hand.from).state = session.state
          /\ OldSession(hand.from).profile = session.profile
      BY <1>1, OldTypes DEF OldSession, Sessions
    <3>3. gate.closed /\ gate'.closed /\ gate'.gen = gate.gen + 1
      BY <1>1, <2>1, <3>1, GateTypes DEF CanAdvance
    <3> QED BY <3>1, <3>2, <3>3 DEF Discarded, Sessions
  <2>2. CASE ~CanAdvance
    BY <1>2, <1>15, <2>2 DEF WorkerClears
  <2> QED BY <2>1, <2>2
<1>16. ASSUME WorkerChangesProfile
       PROVE  \/ SameSession
              \/ /\ gate.closed /\ gate'.closed /\ gate'.gen = gate.gen + 1
                 /\ session'.gen = gate.gen + 1 /\ session'.state = session.state
                 /\ worker.at = "advance" /\ session'.profile = hand.profile /\ ~WorkerClears
  <2>1. CASE CanAdvance
    <3>1. gate.closed /\ gate'.closed /\ gate'.gen = gate.gen + 1
      BY <1>1, <1>16, <2>1, GateTypes DEF WorkerChangesProfile, CanAdvance
    <3>2. ~WorkerClears
      BY <1>16 DEF WorkerChangesProfile, WorkerClears, WorkerAdvances
    <3> QED BY <1>1, <1>16, <2>1, <3>1, <3>2 DEF WorkerChangesProfile, WorkerAdvances, Sessions
  <2>2. CASE ~CanAdvance
    BY <1>2, <1>16, <2>2 DEF WorkerChangesProfile
  <2> QED BY <2>1, <2>2
<1>17. WorkerPanics => gate' = gate /\ session' = NoSession /\ worker'.at = "panicked"
  BY <1>1 DEF WorkerPanics, Workers
<1>18. \/ SameSession
       \/ WorkerStarts \/ WorkerResumes \/ WorkerResets \/ WorkerStops \/ WorkerClears
       \/ WorkerChangesProfile \/ WorkerPanics
  BY <1>4, <1>5, <1>6, <1>7, <1>8, <1>9, <1>10 DEF Next, Work
<1>19. CASE SameSession
  BY <1>19
<1>20. CASE WorkerStarts
  BY <1>11, <1>20
<1>21. CASE WorkerResumes
  BY <1>12, <1>21
<1>22. CASE WorkerResets
  BY <1>13, <1>22
<1>23. CASE WorkerStops
  BY <1>14, <1>23
<1>24. CASE WorkerClears
  BY <1>15, <1>24
<1>25. CASE WorkerChangesProfile
  BY <1>16, <1>25
<1>26. CASE WorkerPanics
  BY <1>17, <1>26
<1> QED BY <1>18, <1>19, <1>20, <1>21, <1>22, <1>23, <1>24, <1>25, <1>26

(* Where the worker goes.                                                  *)
LEMMA WorkerSteps ==
  ASSUME TypeOK, [Next]_vars
  PROVE  \/ worker' = worker
         \/ WorkerChecks /\ worker.at = "ready" /\ worker'.at = "advance" /\ gate' = gate
         \/ worker.at = "advance" /\ worker'.at = "ready"
         \/ WorkerPanics /\ worker'.at = "panicked"
         \/ /\ SupervisorShuts /\ worker.at = "panicked" /\ gate' = Shut
            /\ session' = session
            /\ \/ worker'.at = "drain" /\ gate.gen < MaxGeneration
               \/ worker'.at = "gone" /\ ~(gate.gen < MaxGeneration)
         \/ /\ SupervisorRecovers /\ worker.at = "drain" /\ gate' = gate /\ session' = session
            /\ worker'.at \in {"ready", "gone"}
<1> USE DEF gatev, workv, queues, callv
<1>1. worker \in Workers
  BY DEF TypeOK
<1>2. ASSUME NEW p \in Producers, Enter(p) \/ Records(p)
      PROVE  worker' = worker
  BY <1>2 DEF Enter, Records, Count, Confirm, CloseExpired, Validate, DropLease, SendDraft
<1>3. Request \/ RequestTrace \/ RequestReset => worker' = worker
  BY DEF Request, RequestTrace, RequestReset, Begins
<1>4. ASSUME NEW c \in Callers, Expire(c) \/ TakeLock(c) \/ Operate(c) \/ TimesOut(c)
      PROVE  worker' = worker
  BY <1>4 DEF Expire, Begins, TakeLock, TimesOut, Operate, ShutGate, AdvanceFor, Open,
              Quiesce, TakeReplayLock, ReadGeneration, SendOrdered, SendUrgent,
              PublishDeadline, EndClosed
<1>5. LingersNoMore \/ AskReplay \/ WorkerAnswers \/ EndReplay
        \/ (\E d \in Deadlines : TimePasses(d)) \/ UNCHANGED vars => worker' = worker
  BY DEF LingersNoMore, AskReplay, WorkerAnswers, EndReplay, TimePasses, vars
<1>6. WorkerStarts \/ WorkerResumes \/ WorkerResets \/ WorkerRecords \/ WorkerRefuses
        \/ WorkerStops \/ WorkerTicks => worker' = worker
  BY DEF WorkerStarts, WorkerResumes, WorkerResets, WorkerRecords, WorkerRefuses, WorkerStops,
         WorkerTicks
<1>7. WorkerChecks => worker.at = "ready" /\ worker'.at = "advance" /\ gate' = gate
  BY <1>1 DEF WorkerChecks, Takes, Workers
<1>8. WorkerClears \/ WorkerChangesProfile => worker.at = "advance" /\ worker'.at = "ready"
  BY <1>1 DEF WorkerClears, WorkerChangesProfile, WorkerAdvances, Workers
<1>9. WorkerPanics => worker'.at = "panicked"
  BY <1>1 DEF WorkerPanics, Workers
<1>10. SupervisorShuts => /\ worker.at = "panicked" /\ gate' = Shut /\ session' = session
                          /\ \/ worker'.at = "drain" /\ gate.gen < MaxGeneration
                             \/ worker'.at = "gone" /\ ~(gate.gen < MaxGeneration)
  BY <1>1 DEF SupervisorShuts, Workers
<1>11. SupervisorRecovers => /\ worker.at = "drain" /\ gate' = gate /\ session' = session
                             /\ worker'.at \in {"ready", "gone"}
  BY <1>1 DEF SupervisorRecovers, Workers
<1> QED BY <1>2, <1>3, <1>4, <1>5, <1>6, <1>7, <1>8, <1>9, <1>10, <1>11 DEF Next, Work

(* The gate opens for an operation that knows its generation.              *)
LEMMA Opening ==
  ASSUME TypeOK, CallInv, NEW c \in Callers, Open(c), ~gate'.closed
  PROVE  /\ c \in Holding /\ call[c].at = "open" /\ gate.closed
         /\ gate.gen = call[c].gen /\ gate.gen # MaxGeneration /\ worker.at # "drain"
         /\ gate' = Opened(call[c].gen, call[c].profile, call[c].deadline)
         /\ call' = [call EXCEPT ![c].at = "publish"] /\ call[c].epoch = worker.epoch
         /\ UNCHANGED <<session, worker, hand, ingress, urgent, query>>
<1> USE DEF gatev, workv, queues, callv
<1>1. c \in Holding /\ call[c].at = "open"
  BY DEF Open, Holding
<1>2. gate.closed
  BY <1>1 DEF CallInv
<1>3. gate' # gate
  BY <1>2
<1>4. /\ CanOpen(call[c].gen) /\ gate' = Opened(call[c].gen, call[c].profile, call[c].deadline)
      /\ call' = [call EXCEPT ![c].at = "publish"] /\ call[c].epoch = worker.epoch
  BY <1>3 DEF Open
<1>5. UNCHANGED <<session, worker, hand, ingress, urgent, query>>
  BY DEF Open
<1> QED BY <1>1, <1>2, <1>4, <1>5 DEF CanOpen

(* What the worker is working on is of its session.                        *)
HandInv ==
  hand.kind # "none" =>
    /\ hand.gen = session.gen /\ session.state # "off"
    /\ hand.kind = "profile" => session.state = "capturing"

LEMMA HandKept ==
  ASSUME TypeOK, QueueInv, HandInv, [Next]_vars
  PROVE  HandInv'
<1>1. TypeOK' /\ NoItem.kind = "none"
  BY Typed, Blanks
<1>2. SUFFICES ASSUME hand'.kind # "none"
               PROVE  /\ hand'.gen = session'.gen /\ session'.state # "off"
                      /\ hand'.kind = "profile" => session'.state = "capturing"
  BY DEF HandInv
<1>3. CASE Like(hand', hand) /\ (worker'.at = "advance" <=> worker.at = "advance")
  <2>1. worker.at = "advance" /\ worker'.at = "advance" /\ hand.kind # "none"
    BY <1>2, <1>3 DEF QueueInv, Like
  <2>2. SameSession
    <3>1. /\ ~WorkerStarts /\ ~WorkerResumes /\ ~WorkerResets /\ ~WorkerStops
      BY <2>1 DEF WorkerStarts, WorkerResumes, WorkerResets, WorkerStops, Unboxes, Takes
    <3>2. WorkerClears \/ WorkerChangesProfile => worker'.at = "ready"
      BY <1>1 DEF WorkerClears, WorkerChangesProfile, WorkerAdvances, TypeOK, Workers
    <3> QED BY <2>1, <3>1, <3>2, SessionSteps
  <2> QED BY <1>2, <1>3, <2>1, <2>2 DEF Like, SameSession, HandInv
<1>4. CASE WorkerChecks /\ hand' = Head(ingress)
  <2>1. Current(Head(ingress)) /\ Allowed(Head(ingress)) /\ Head(ingress).kind \in {"clear", "profile"}
    BY <1>4 DEF WorkerChecks, Takes
  <2>2. /\ session'.gen = session.gen /\ session'.state = session.state
    BY <1>4 DEF WorkerChecks, Flushed, TypeOK, Sessions
  <2>3. session.state # "off" /\ session.gen = hand'.gen
    BY <1>4, <2>1 DEF Current
  <2>4. hand'.kind = "profile" => session.state = "capturing"
    BY <1>4, <2>1 DEF Allowed
  <2> QED BY <2>2, <2>3, <2>4
<1> QED BY <1>1, <1>2, <1>3, <1>4, HandSteps

GateInv ==
  /\ worker.at \in {"drain", "gone"} => gate.closed
  /\ worker.at \in {"panicked", "drain", "gone"} => session.state = "off"
  /\ session.gen <= gate.gen

(* An operation that is about to open the gate has the session to open it  *)
(* for, unless the generation has moved.                                   *)
OpenInv ==
  \A c \in Callers :
    call[c].at = "open" /\ call[c].gen = gate.gen /\ gate.gen # MaxGeneration
      /\ worker.at # "panicked" =>
      /\ session.state = "capturing" /\ session.gen = gate.gen
      /\ session.profile = call[c].profile

LEMMA GateKept ==
  ASSUME TypeOK, Told, QueueInv, CallInv, GateInv, OpenInv, [Next]_vars
  PROVE  GateInv'
<1>1. TypeOK' /\ gate.gen \in Nat /\ session.gen \in Nat /\ gate'.gen \in Nat /\ worker \in Workers
  <2>1. TypeOK'
    BY Typed
  <2>2. gate'.gen \in Nat
    BY <2>1, Bounds DEF TypeOK, Gates
  <2> QED BY <2>1, <2>2, Typing DEF TypeOK
<1>2. ASSUME worker'.at \in {"drain", "gone"}
      PROVE  gate'.closed
  <2>1. CASE worker' = worker
    <3>1. ASSUME NEW c \in Callers, Open(c), ~gate'.closed
          PROVE  FALSE
      <4>1. /\ call[c].at = "open" /\ call[c].gen = gate.gen /\ gate.gen # MaxGeneration
        BY <3>1, Opening
      <4> QED BY <1>2, <2>1, <4>1 DEF OpenInv, GateInv
    <3>2. gate.closed
      BY <1>2, <2>1 DEF GateInv
    <3> QED BY <3>1, <3>2, GateSteps
  <2>2. Shut.closed
    BY GateTypes DEF TypeOK
  <2>3. worker.at = "drain" => gate.closed
    BY DEF GateInv
  <2>4. CASE SupervisorShuts /\ gate' = Shut
    BY <2>2, <2>4
  <2>5. CASE worker.at = "drain" /\ gate' = gate
    BY <2>3, <2>5
  <2> QED BY <1>2, <2>1, <2>4, <2>5, WorkerSteps
<1>3. ASSUME worker'.at \in {"panicked", "drain", "gone"}
      PROVE  session'.state = "off"
  <2>1. CASE worker' = worker
    <3>1. session.state = "off"
      BY <1>3, <2>1 DEF GateInv
    <3>2. /\ ~WorkerStarts
      BY <1>3, <2>1 DEF WorkerStarts, Unboxes
    <3>3. ~WorkerStops
      BY <1>3, <2>1 DEF WorkerStops, Takes
    <3> QED BY <3>1, <3>2, <3>3, SessionSteps, Blanks DEF SameSession
  <2>2. CASE WorkerPanics
    BY <2>2, Blanks DEF WorkerPanics
  <2>3. CASE SupervisorShuts /\ worker.at = "panicked" /\ session' = session
    BY <2>3 DEF GateInv
  <2>4. CASE worker.at = "drain" /\ session' = session
    BY <2>4 DEF GateInv
  <2> QED BY <1>3, <2>1, <2>2, <2>3, <2>4, WorkerSteps
<1>4. session'.gen <= gate'.gen
  <2>1. gate.gen <= gate'.gen /\ session.gen <= gate.gen /\ NoSession.gen = 0
    BY Grows, Blanks DEF GateGrows, GateInv
  <2> QED BY <1>1, <2>1, SessionSteps DEF SameSession
<1> QED BY <1>2, <1>3, <1>4 DEF GateInv

-----------------------------------------------------------------------------
(* Barriers, openings and resets.                                          *)

Barriers == {x \in Queued(ingress) \union {hand} : x.kind \in Ordered}

(* Will open the gate for generation g, or has the worker start for it.    *)
AboutToOpen(c, g) ==
  /\ call[c].gen = g
  /\ call[c].at = "open" \/ (call[c].at = "send" /\ call[c].op \in Starts)

Starting(g) == {y \in Queued(urgent) : y.kind \in Starts /\ y.gen = g}

(* A reset that has advanced the gate to generation g is not through.      *)
Resetting(g) ==
  \/ \E c \in Callers : /\ call[c].op = "reset" /\ call[c].gen = g
                        /\ call[c].at \in {"lock", "quiesce", "replay", "send"}
  \/ \E x \in Queued(urgent) : x.kind = "reset" /\ x.gen = g

(* A barrier of the generation there is keeps the gate closed, and so does *)
(* a reset, which the gate has not been opened since; nobody opens the     *)
(* gate for the generation of a reset or of a barrier.                     *)
BoundaryInv ==
  /\ \A x \in Barriers : x.gen = gate.gen => gate.closed
  /\ Resetting(gate.gen) => gate.closed /\ gate.of < gate.gen
  /\ \A g \in Nat :
       (\E c \in Callers : AboutToOpen(c, g)) \/ Starting(g) # {} => ~Resetting(g)
  /\ \A x \in Barriers :
       /\ \A c \in Callers : ~AboutToOpen(c, x.gen)
       /\ \A y \in Starting(x.gen) : y.from = None

LEMMA BarriersFrom ==
  ASSUME TypeOK, QueueInv, [Next]_vars, NEW x \in Barriers'
  PROVE  \/ \E y \in Barriers : Like(x, y) /\ (x.from = y.from \/ TimedOut)
         \/ \E c \in Callers : SendOrdered(c) /\ Awaits(c) /\ x = Barrier(c)
<1>1. Queued(ingress) \subseteq Items /\ NoItem.kind \notin Ordered
  BY Typing, Blanks DEF Ordered
<1>2. x.kind \in Ordered /\ (x \in Queued(ingress') \/ x = hand')
  BY DEF Barriers
<1>3. CASE x \in Queued(ingress')
  <2>1. CASE /\ Stays(Queued(ingress), Queued(ingress'))
             /\ Faith(Queued(ingress), Queued(ingress')) \/ TimedOut
    BY <1>2, <1>3, <2>1 DEF Stays, Faith, Like, Barriers
  <2>2. ASSUME NEW d \in Items, d.kind = "draft", Queued(ingress') = Queued(ingress) \union {d}
        PROVE  \E y \in Barriers : Like(x, y) /\ x.from = y.from
    BY <1>1, <1>2, <1>3, <2>2, Likeness DEF Barriers, Ordered
  <2>3. ASSUME NEW c \in Callers, SendOrdered(c), Awaits(c),
               Queued(ingress') = Queued(ingress) \union {Barrier(c)}, x # Barrier(c)
        PROVE  \E y \in Barriers : Like(x, y) /\ x.from = y.from
    BY <1>1, <1>2, <1>3, <2>3, Likeness DEF Barriers
  <2> QED BY <2>1, <2>2, <2>3, IngressSteps
<1>4. CASE x = hand'
  <2>1. CASE Like(hand', hand) /\ (hand'.from = hand.from \/ TimedOut)
    BY <1>2, <1>4, <2>1 DEF Like, Barriers
  <2>2. CASE hand' \in Queued(ingress)
    BY <1>1, <1>2, <1>4, <2>2, Likeness DEF Barriers
  <2> QED BY <1>1, <1>2, <1>4, <2>1, <2>2, HandSteps
<1> QED BY <1>2, <1>3, <1>4

LEMMA OpensFrom ==
  ASSUME TypeOK, QueueInv, WaitInv, CallInv, [Next]_vars, NEW c \in Callers, NEW g,
         AboutToOpen(c, g)'
  PROVE  \/ AboutToOpen(c, g)
         \/ call'[c] # call[c] /\ g = gate.gen + 1 /\ gate'.gen = gate.gen + 1
         \/ /\ WorkerStarts \/ WorkerResumes
            /\ Head(urgent) \in Starting(g) /\ Head(urgent).from = c
<1>1. Moves(c)
  BY CallSteps
<1>2. call'[c].gen = g /\ (call'[c].at = "open" \/ (call'[c].at = "send" /\ call'[c].op \in Starts))
  BY DEF AboutToOpen
<1>3. CASE call'[c] = call[c]
  BY <1>2, <1>3 DEF AboutToOpen
<1>4. CASE WorkerStarts \/ WorkerResumes
  <2>1. Head(urgent) \in Queued(urgent) /\ Head(urgent).kind \in Starts
    BY <1>4, Unboxed DEF WorkerStarts, WorkerResumes, Starts
  <2>2. Head(urgent).from = c /\ Head(urgent).gen = g => Head(urgent) \in Starting(g)
    BY <2>1 DEF Starting
  <2>3. ~AdvanceFor(c)
    BY <1>4 DEF AdvanceFor, WorkerStarts, WorkerResumes, Unboxes, queues
  <2> QED BY <1>1, <1>2, <1>3, <1>4, <2>2, <2>3, Blanks DEF Moves, CallInv, Starts, Ordered
<1>5. CASE ~(WorkerStarts \/ WorkerResumes)
  BY <1>1, <1>2, <1>3, <1>5, Blanks DEF Moves, CallInv, Starts, Ordered
<1> QED BY <1>4, <1>5

LEMMA StartingFrom ==
  ASSUME TypeOK, [Next]_vars, NEW g, NEW y \in Starting(g)'
  PROVE  \/ \E z \in Starting(g) : Like(y, z) /\ (y.from = z.from \/ TimedOut)
         \/ /\ y.from \in Callers /\ AboutToOpen(y.from, g)
            /\ SendUrgent(y.from) /\ Awaits(y.from)
<1>1. y \in Queued(urgent') /\ y.kind \in Starts /\ y.gen = g
  BY DEF Starting
<1>2. Queued(urgent) \subseteq Items
  BY Typing
<1>3. CASE /\ Stays(Queued(urgent), Queued(urgent'))
           /\ Faith(Queued(urgent), Queued(urgent')) \/ TimedOut
  BY <1>1, <1>3 DEF Stays, Faith, Like, Starting
<1>4. ASSUME NEW c \in Callers, NEW x \in Items, SendUrgent(c), Awaits(c),
             Queued(urgent') = Queued(urgent) \union {x}, x.kind = call[c].op, x.gen = call[c].gen,
             x.from = c
      PROVE  \/ \E z \in Starting(g) : Like(y, z) /\ y.from = z.from
             \/ /\ y.from \in Callers /\ AboutToOpen(y.from, g)
                /\ SendUrgent(y.from) /\ Awaits(y.from)
  <2>1. CASE y = x
    <3>1. AboutToOpen(c, g)
      BY <1>1, <1>4, <2>1 DEF AboutToOpen, SendUrgent
    <3> QED BY <1>4, <2>1, <3>1
  <2>2. CASE y \in Queued(urgent)
    BY <1>1, <1>2, <2>2, Likeness DEF Starting
  <2> QED BY <1>1, <1>4, <2>1, <2>2
<1> QED BY <1>3, <1>4, UrgentSteps

LEMMA ResettingFrom ==
  ASSUME TypeOK, QueueInv, WaitInv, CallInv, [Next]_vars, NEW g, Resetting(g)'
  PROVE  \/ Resetting(g)
         \/ \E c \in Callers :
              /\ ShutGate(c) /\ call'[c].at = "lock"
              /\ g = gate.gen + 1 /\ gate'.gen = gate.gen + 1 /\ gate'.closed
<1>1. ASSUME NEW c \in Callers, call'[c].op = "reset", call'[c].gen = g,
             call'[c].at \in {"lock", "quiesce", "replay", "send"}
      PROVE  \/ Resetting(g)
             \/ /\ ShutGate(c) /\ call'[c].at = "lock"
                /\ g = gate.gen + 1 /\ gate'.gen = gate.gen + 1 /\ gate'.closed
  <2>1. Moves(c)
    BY CallSteps
  <2>2. \/ /\ call[c].op = "reset" /\ call[c].gen = g
           /\ call[c].at \in {"lock", "quiesce", "replay", "send"}
        \/ /\ ShutGate(c) /\ call'[c].at = "lock"
           /\ g = gate.gen + 1 /\ gate'.gen = gate.gen + 1 /\ gate'.closed
    BY <1>1, <2>1, Blanks DEF Moves, CallInv, Starts, Ordered
  <2> QED BY <2>2 DEF Resetting
<1>2. ASSUME NEW x \in Queued(urgent'), x.kind = "reset", x.gen = g
      PROVE  Resetting(g)
  <2>1. CASE Stays(Queued(urgent), Queued(urgent'))
    BY <1>2, <2>1 DEF Stays, Like, Resetting
  <2>2. ASSUME NEW c \in Callers, NEW y \in Items, SendUrgent(c),
               Queued(urgent') = Queued(urgent) \union {y}, y.kind = call[c].op,
               y.gen = call[c].gen
        PROVE  Resetting(g)
    BY <1>2, <2>2 DEF Resetting, SendUrgent
  <2> QED BY <2>1, <2>2, UrgentSteps
<1> QED BY <1>1, <1>2 DEF Resetting

LEMMA BoundariesKept ==
  ASSUME TypeOK, Told, QueueInv, WaitInv, CallInv, BoundaryInv, [Next]_vars
  PROVE  BoundaryInv'
<1>1. /\ gate.gen \in Nat /\ gate'.gen \in Nat /\ gate.of \in Nat /\ gate'.of \in Nat
      /\ gate.gen <= gate'.gen
      /\ \A x \in Items : x.gen \in Nat
      /\ \A c \in Callers : call[c].gen \in Nat
  <2>1. TypeOK'
    BY Typed
  <2>2. gate'.gen \in Nat /\ gate'.of \in Nat
    BY <2>1, Bounds DEF TypeOK, Gates
  <2> QED BY <2>2, Typing, Grows DEF GateGrows
<1>2. \A x \in Barriers : x.gen <= gate.gen /\ x.gen \in Nat
  BY <1>1, Typing DEF Barriers, QueueInv
<1>3. ASSUME NEW c \in Callers, NEW g, AboutToOpen(c, g)
      PROVE  g <= gate.gen /\ g \in Nat
  BY <1>1, <1>3 DEF AboutToOpen, CallInv
<1>4. ASSUME NEW g, Resetting(g)
      PROVE  g <= gate.gen /\ g \in Nat
  BY <1>1, <1>4, Typing DEF Resetting, CallInv, QueueInv
<1>5. ASSUME NEW g, NEW y \in Starting(g)
      PROVE  g <= gate.gen /\ g \in Nat
  BY <1>1, <1>5, Typing DEF Starting, QueueInv
<1>6. ASSUME NEW c \in Callers, SendOrdered(c), Awaits(c)
      PROVE  /\ c \in Holding /\ gate.closed /\ gate' = gate /\ call'[c].at = "ack"
             /\ Barrier(c).gen = call[c].gen
             /\ \A d \in Callers : d # c => call[d].at \notin {"send", "open", "ack"} /\ call'[d] = call[d]
  <2>1. c \in Holding /\ gate.closed
    BY <1>6 DEF SendOrdered, Holding, CallInv
  <2>2. call'[c].at = "ack"
    BY <1>6, Typing DEF Awaits, NoCall
  <2>3. gate' = gate
    BY <1>6 DEF SendOrdered, gatev
  <2>4. \A d \in Callers : d # c => d \notin Holding
    BY <2>1 DEF CallInv
  <2>5. \A d \in Callers : d # c => call'[d] = call[d]
    BY <1>6, OperationMoves DEF Operate
  <2> QED BY <2>1, <2>2, <2>3, <2>4, <2>5 DEF Holding, Barrier, Item
<1>7. ASSUME NEW x \in Barriers', x.gen = gate'.gen
      PROVE  gate'.closed
  <2>1. CASE \E y \in Barriers : Like(x, y)
    <3>1. PICK y \in Barriers : Like(x, y)
      BY <2>1
    <3>2. gate.gen = gate'.gen /\ y.gen = gate.gen
      BY <1>1, <1>2, <1>7, <3>1 DEF Like
    <3>3. gate.closed
      BY <3>2 DEF BoundaryInv
    <3>4. ASSUME NEW c \in Callers, Open(c), ~gate'.closed
          PROVE  FALSE
      <4>1. AboutToOpen(c, y.gen)
        BY <3>2, <3>4, Opening DEF AboutToOpen
      <4> QED BY <4>1 DEF BoundaryInv
    <3> QED BY <3>3, <3>4, GateSteps
  <2>2. CASE \E c \in Callers : SendOrdered(c) /\ Awaits(c) /\ x = Barrier(c)
    BY <1>6, <2>2
  <2> QED BY <2>1, <2>2, BarriersFrom
<1>8. PICK now \in Nat : now = gate'.gen
  BY <1>1
<1>9. ASSUME Resetting(now)'
      PROVE  gate'.closed /\ gate'.of < now
  <2>1. CASE Resetting(now)
    <3>1. gate.gen = now
      BY <1>1, <1>4, <1>8, <2>1
    <3>2. gate.closed /\ gate.of < now
      BY <2>1, <3>1 DEF BoundaryInv
    <3>3. ASSUME NEW c \in Callers, Open(c), ~gate'.closed
          PROVE  FALSE
      <4>1. AboutToOpen(c, now)
        BY <3>1, <3>3, Opening DEF AboutToOpen
      <4> QED BY <2>1, <4>1 DEF BoundaryInv
    <3> QED BY <3>2, <3>3, GateSteps
  <2>2. CASE gate'.closed /\ now = gate.gen + 1
    <3>1. gate'.of = gate.of
      BY <2>2, GateSteps
    <3> QED BY <1>1, <2>2, <3>1 DEF Told
  <2> QED BY <1>9, <2>1, <2>2, ResettingFrom
<1>10. ASSUME NEW g \in Nat, Resetting(g)', NEW c \in Callers, AboutToOpen(c, g)'
       PROVE  FALSE
  <2>1. CASE Resetting(g)
    <3>1. g <= gate.gen
      BY <1>4, <2>1
    <3>2. AboutToOpen(c, g) \/ Starting(g) # {}
      BY <1>1, <1>10, <3>1, OpensFrom
    <3> QED BY <2>1, <3>2 DEF BoundaryInv
  <2>2. ASSUME NEW d \in Callers, ShutGate(d), call'[d].at = "lock", g = gate.gen + 1
        PROVE  FALSE
    <3>1. CASE c = d
      BY <1>10, <2>2, <3>1 DEF AboutToOpen
    <3>2. CASE c # d
      <4>1. call'[c] = call[c]
        BY <2>2, <3>2, OperationMoves DEF Operate
      <4>2. AboutToOpen(c, g)
        BY <1>10, <4>1 DEF AboutToOpen
      <4> QED BY <1>1, <1>3, <2>2, <4>2
    <3> QED BY <3>1, <3>2
  <2> QED BY <1>10, <2>1, <2>2, ResettingFrom
<1>11. ASSUME NEW g \in Nat, Resetting(g)', NEW y \in Starting(g)'
       PROVE  FALSE
  <2>1. g <= gate.gen
    BY <1>3, <1>5, StartingFrom
  <2>2. Resetting(g)
    BY <1>1, <1>11, <2>1, ResettingFrom
  <2>3. Starting(g) # {} \/ \E c \in Callers : AboutToOpen(c, g)
    BY <1>11, StartingFrom
  <2> QED BY <2>2, <2>3 DEF BoundaryInv
<1>12. ASSUME NEW x \in Barriers', NEW c \in Callers, NEW g, g = x.gen, AboutToOpen(c, g)'
       PROVE  FALSE
  <2>1. ASSUME NEW y \in Barriers, Like(x, y)
        PROVE  FALSE
    <3>1. y.gen = g /\ g <= gate.gen
      BY <1>2, <1>12, <2>1 DEF Like
    <3>2. CASE AboutToOpen(c, g)
      BY <3>1, <3>2 DEF BoundaryInv
    <3>3. ASSUME NEW z \in Starting(g), z.from = c
          PROVE  FALSE
      BY <3>1, <3>3, Bounds DEF BoundaryInv
    <3> QED BY <1>1, <1>2, <1>12, <3>1, <3>2, <3>3, OpensFrom
  <2>2. ASSUME NEW d \in Callers, SendOrdered(d), Awaits(d)
        PROVE  FALSE
    <3>1. call'[c].at \notin {"send", "open"}
      BY <1>6, <2>2
    <3> QED BY <1>12, <3>1 DEF AboutToOpen
  <2> QED BY <2>1, <2>2, BarriersFrom
<1>13. ASSUME NEW x \in Barriers', NEW g, g = x.gen, NEW y \in Starting(g)', y.from # None
       PROVE  FALSE
  <2>1. ASSUME NEW z \in Barriers, Like(x, z)
        PROVE  FALSE
    <3>1. z.gen = g
      BY <1>13, <2>1 DEF Like
    <3>2. ASSUME NEW w \in Starting(g), Like(y, w)
          PROVE  FALSE
      BY <1>13, <3>1, <3>2 DEF BoundaryInv, Like
    <3>3. CASE y.from \in Callers /\ AboutToOpen(y.from, g)
      BY <3>1, <3>3 DEF BoundaryInv
    <3> QED BY <3>2, <3>3, StartingFrom
  <2>2. ASSUME NEW d \in Callers, SendOrdered(d), Awaits(d)
        PROVE  FALSE
    <3>1. call[d].at = "send" /\ call[d].op \notin Starts
      BY <2>2 DEF SendOrdered, Starts
    <3>2. ASSUME NEW w \in Starting(g), Like(y, w)
          PROVE  FALSE
      <4>1. w.from = y.from /\ w \in Waits /\ w \in Items
        BY <1>13, <3>2, Typing DEF Like, Starting, Waits
      <4>2. Answers(w, w.from) /\ w.from \in Callers
        BY <1>13, <4>1 DEF WaitInv, Items
      <4> QED BY <1>6, <2>2, <3>1, <4>2 DEF Answers
    <3>3. CASE y.from \in Callers /\ AboutToOpen(y.from, g)
      BY <1>6, <2>2, <3>1, <3>3 DEF AboutToOpen
    <3> QED BY <3>2, <3>3, StartingFrom
  <2> QED BY <2>1, <2>2, BarriersFrom
<1>14. Resetting(gate.gen)' <=> Resetting(now)'
  BY <1>8 DEF Resetting
<1>15. \A x \in Barriers' : /\ \A c \in Callers : ~AboutToOpen(c, x.gen)'
                            /\ \A y \in Starting(x.gen)' : y.from = None
  BY <1>12, <1>13
<1>16. \A g \in Nat : (\E c \in Callers : AboutToOpen(c, g)') \/ Starting(g)' # {}
                        => ~Resetting(g)'
  BY <1>10, <1>11
<1> QED BY <1>7, <1>8, <1>9, <1>14, <1>15, <1>16 DEF BoundaryInv

-----------------------------------------------------------------------------
(* The session that the gate is open for.                                  *)

(* The worker comes out of a panic with another generation, or with one    *)
(* that the gate never opens for.                                          *)
LEMMA Recovering ==
  ASSUME TypeOK, [Next]_vars, worker.at = "panicked", worker'.at # "panicked"
  PROVE  gate'.closed /\ (gate'.gen = gate.gen + 1 \/ gate'.gen = MaxGeneration)
<1>1. gate' = Shut
  BY WorkerSteps
<1>2. gate \in Gates
  BY DEF TypeOK
<1> QED BY <1>1, <1>2, GateTypes, Bounds DEF Gates

(* What the worker takes from a queue is of no generation that an          *)
(* operation is about to open the gate for.                                *)
LEMMA OpensKept ==
  ASSUME TypeOK, QueueInv, WaitInv, CallInv, HandInv, BoundaryInv, OpenInv, [Next]_vars
  PROVE  OpenInv'
<1>1. /\ gate.gen \in Nat /\ gate'.gen \in Nat /\ gate.gen <= gate'.gen
      /\ call \in [Callers -> Calls] /\ session \in Sessions /\ worker \in Workers
      /\ \A c \in Callers : call[c].gen \in Nat
  <2>1. TypeOK'
    BY Typed
  <2>2. gate'.gen \in Nat
    BY <2>1, Bounds DEF TypeOK, Gates
  <2> QED BY <2>2, Typing, Grows DEF GateGrows, TypeOK
<1>2. SUFFICES ASSUME NEW c \in Callers, call'[c].at = "open", call'[c].gen = gate'.gen,
                      gate'.gen # MaxGeneration, worker'.at # "panicked"
               PROVE  /\ session'.state = "capturing" /\ session'.gen = gate'.gen
                      /\ session'.profile = call'[c].profile
  BY DEF OpenInv
<1>3. CASE call'[c] = call[c]
  <2>1. call[c].gen <= gate.gen
    BY DEF CallInv
  <2>2. gate'.gen = gate.gen /\ AboutToOpen(c, gate.gen)
    BY <1>1, <1>2, <1>3, <2>1 DEF AboutToOpen
  <2>3. worker.at # "panicked"
    BY <1>1, <1>2, <2>2, Recovering
  <2>4. /\ session.state = "capturing" /\ session.gen = gate.gen
        /\ session.profile = call[c].profile
    BY <1>2, <1>3, <2>2, <2>3 DEF OpenInv
  <2>5. ~(WorkerResets /\ Head(urgent).gen = gate.gen)
    <3>1. WorkerResets => Head(urgent) \in Queued(urgent) /\ Head(urgent).kind = "reset"
      BY Unboxed DEF WorkerResets
    <3>2. ~Resetting(gate.gen)
      BY <1>1, <2>2 DEF BoundaryInv
    <3> QED BY <3>1, <3>2 DEF Resetting
  <2>6. ~(WorkerStops /\ Head(ingress).gen = gate.gen)
    <3>1. WorkerStops => Head(ingress) \in Queued(ingress) /\ Head(ingress).kind = "stop"
      BY Taken DEF WorkerStops
    <3>2. \A x \in Barriers : x.gen # gate.gen
      BY <2>2 DEF BoundaryInv
    <3> QED BY <3>1, <3>2 DEF Barriers, Ordered
  <2> QED BY <1>1, <1>2, <1>3, <2>2, <2>4, <2>5, <2>6, SessionSteps DEF SameSession
<1>4. CASE (WorkerStarts \/ WorkerResumes) /\ Head(urgent).from = c
  <2>1. ASSUME Opens(c, Head(urgent).gen, "Normal", None)
        PROVE  call'[c].gen = Head(urgent).gen /\ call'[c].profile = "Normal"
    BY <1>1, <2>1, Bounds DEF Opens
  <2>2. Refuses({c}) => call'[c].at = "idle"
    BY Blanks DEF Refuses
  <2>3. CASE WorkerStarts
    <3>1. session.state = "off" /\ gate.gen = Head(urgent).gen
      BY <1>2, <1>4, <2>2, <2>3 DEF WorkerStarts
    <3>2. /\ session' = [NoSession EXCEPT !.state = "capturing", !.gen = Head(urgent).gen]
          /\ Opens(c, Head(urgent).gen, "Normal", None) /\ gate' = gate
      BY <1>4, <2>3, <3>1 DEF WorkerStarts, gatev
    <3> QED BY <2>1, <3>1, <3>2 DEF NoSession
  <2>4. CASE WorkerResumes
    <3>1. session.state = "stopped" /\ gate.gen = Head(urgent).gen
      BY <1>2, <1>4, <2>2, <2>4 DEF WorkerResumes
    <3>2. /\ session' = [session EXCEPT !.state = "capturing", !.profile = "Normal",
                                        !.gen = Head(urgent).gen]
          /\ Opens(c, Head(urgent).gen, "Normal", None) /\ gate' = gate
      BY <1>4, <2>4, <3>1 DEF WorkerResumes, gatev
    <3> QED BY <1>1, <2>1, <3>1, <3>2 DEF Sessions
  <2> QED BY <1>4, <2>3, <2>4
<1>5. CASE (WorkerClears \/ WorkerChangesProfile) /\ hand.from = c /\ gate'.gen = gate.gen + 1
  <2>1. Refuses({c}) \/ Ends(c) => call'[c].at \in {"idle", "end"}
    <3>1. Refuses({c}) => call'[c].at = "idle"
      BY Blanks DEF Refuses
    <3>2. Ends(c) => call'[c].at = "end"
      BY <1>1, Bounds DEF Ends
    <3> QED BY <3>1, <3>2
  <2>2. CanAdvance
    BY <1>2, <1>5, <2>1 DEF WorkerClears, WorkerChangesProfile
  <2>3. CASE WorkerClears
    <3>1. session.state = "capturing" /\ Opens(c, gate.gen + 1, session.profile, hand.deadline)
      BY <1>2, <1>5, <2>1, <2>2, <2>3 DEF WorkerClears
    <3>2. call'[c].profile = session.profile
      BY <1>1, <3>1, Bounds DEF Opens
    <3>3. /\ OldSession(hand.from) \in Sessions /\ OldSession(hand.from).state = session.state
          /\ OldSession(hand.from).profile = session.profile
      BY <1>1, OldTypes DEF OldSession, Sessions
    <3>4. session' = [Discarded(OldSession(hand.from)) EXCEPT !.gen = gate.gen + 1]
      BY <2>2, <2>3 DEF WorkerClears
    <3> QED BY <1>5, <3>1, <3>2, <3>3, <3>4 DEF Discarded, Sessions
  <2>4. CASE WorkerChangesProfile
    <3>1. /\ session' = [session EXCEPT !.profile = hand.profile, !.gen = gate.gen + 1]
          /\ Opens(c, gate.gen + 1, hand.profile, hand.deadline) /\ hand.kind = "profile"
      BY <1>5, <2>2, <2>4 DEF WorkerChangesProfile, WorkerAdvances
    <3>2. call'[c].profile = hand.profile
      BY <1>1, <3>1, Bounds DEF Opens
    <3>3. session.state = "capturing"
      BY <3>1 DEF HandInv
    <3> QED BY <1>1, <1>5, <3>1, <3>2, <3>3 DEF Sessions
  <2> QED BY <1>5, <2>3, <2>4
<1>6. Moves(c)
  BY CallSteps
<1> QED BY <1>2, <1>3, <1>4, <1>5, <1>6, Blanks DEF Moves

LEMMA MatchesKept ==
  ASSUME TypeOK, QueueInv, CallInv, BoundaryInv, OpenInv, OpenMatchesSession, [Next]_vars
  PROVE  OpenMatchesSession'
<1>1. SUFFICES ASSUME ~gate'.closed, worker'.at # "panicked"
               PROVE  /\ session'.state = "capturing" /\ session'.gen = gate'.gen
                      /\ session'.profile = gate'.profile
  BY DEF OpenMatchesSession
<1>2. CASE ~gate.closed /\ gate'.gen = gate.gen /\ gate'.profile = gate.profile
  <2>1. worker.at # "panicked"
    BY <1>1, Recovering
  <2>2. session.state = "capturing" /\ session.gen = gate.gen /\ session.profile = gate.profile
    BY <1>2, <2>1 DEF OpenMatchesSession
  <2>3. ~(WorkerStops /\ Head(ingress).gen = gate.gen)
    <3>1. WorkerStops => Head(ingress) \in Queued(ingress) /\ Head(ingress).kind = "stop"
      BY Taken DEF WorkerStops
    <3>2. \A x \in Barriers : x.gen # gate.gen
      BY <1>2 DEF BoundaryInv
    <3> QED BY <3>1, <3>2 DEF Barriers, Ordered
  <2> QED BY <1>1, <1>2, <2>2, <2>3, SessionSteps DEF SameSession
<1>3. ASSUME NEW c \in Callers, Open(c), gate'.profile = call[c].profile
      PROVE  /\ session'.state = "capturing" /\ session'.gen = gate'.gen
             /\ session'.profile = gate'.profile
  <2>1. /\ call[c].at = "open" /\ gate.gen = call[c].gen /\ gate.gen # MaxGeneration
        /\ UNCHANGED <<session, worker>> /\ gate'.gen = gate.gen
    BY <1>1, <1>3, Opening DEF Opened
  <2> QED BY <1>1, <1>3, <2>1 DEF OpenInv
<1> QED BY <1>1, <1>2, <1>3, GateSteps

-----------------------------------------------------------------------------
(* What a boundary leaves behind.                                          *)

Drafts  == {x \in Queued(ingress) : x.kind = "draft"}
Sending == {producer[p] : p \in {q \in Producers : producer[q].at = "sending"}}

(* What is on its way to the worker was admitted while the gate was open;  *)
(* what a boundary has left behind is of an earlier generation than the    *)
(* session.                                                                *)
AgeInv ==
  \A x \in Drafts \union Sending :
    /\ x.gen <= gate.of
    /\ x.age = "old" => x.gen < gate.gen /\ (session.state # "off" => x.gen < session.gen)

(* Whoever carries out a clear or a reset has waited for every answer.     *)
ReplayInv ==
  /\ \A c \in Holding : call[c].op \in {"clear", "reset"} /\ call[c].at \notin {"quiesce", "replay"}
       => query.at = "idle"
  /\ query.at # "answered" => query.shown = {}

(* A reset goes through.                                                   *)
ResetDone == WorkerResets /\ session' = NoSession /\ Resetting(gate.gen)

LEMMA SendingFrom ==
  ASSUME TypeOK, [Next]_vars, NEW p \in Producers, producer'[p].at = "sending"
  PROVE  /\ producer[p].at \in {"leased", "sending"} /\ producer'[p].gen = producer[p].gen
         /\ \/ producer'[p].age = "fresh"
            \/ producer[p].at = "sending" /\ producer'[p].age = producer[p].age
            \/ producer[p].at = "sending" /\ (Cleared \/ ResetDone)
<1> DEFINE Same == producer'[p] = producer[p]
           Passed == /\ producer[p].at = "sending" /\ producer'[p].gen = producer[p].gen
                     /\ Cleared \/ ResetDone
<1> USE DEF gatev, workv, queues, callv
<1>1. producer \in [Producers -> Leases] /\ producer[p] \in Leases
  BY DEF TypeOK
<1>2. ASSUME NEW from, PastBoundary(from), ~Same
      PROVE  producer[p].at = "sending" /\ producer'[p].gen = producer[p].gen
  <2>1. producer' = [q \in Producers |-> IF producer[q].at = "sending"
                                         THEN [producer[q] EXCEPT !.age = "old"] ELSE producer[q]]
    BY <1>2 DEF PastBoundary
  <2> QED BY <1>1, <1>2, <2>1 DEF Leases
<1>3. RequestReset => Same
  <2>1. CASE producer' = [q \in Producers |-> IF producer[q].at \in {"read", "counted", "leased"}
                                         THEN [producer[q] EXCEPT !.age = "old"] ELSE producer[q]]
    <3>1. producer[p].at \notin {"read", "counted", "leased"}
      BY <1>1, <2>1 DEF Leases
    <3> QED BY <1>1, <2>1, <3>1
  <2>2. CASE UNCHANGED producer
    BY <2>2
  <2> QED BY <2>1, <2>2 DEF RequestReset
<1>4. Request \/ RequestTrace => Same
  BY DEF Request, RequestTrace
<1>5. ASSUME NEW c \in Callers, Expire(c) \/ TakeLock(c) \/ TimesOut(c) \/ Operate(c)
      PROVE  Same
  BY <1>5 DEF Expire, TakeLock, TimesOut, Operate, ShutGate, AdvanceFor, Open, Quiesce,
              TakeReplayLock, ReadGeneration, SendOrdered, SendUrgent, PublishDeadline, EndClosed
<1>6. WorkerClears => Same \/ Passed
  <2>1. ~CanAdvance /\ WorkerClears => Same
    BY DEF WorkerClears
  <2>2. CanAdvance /\ WorkerClears => PastBoundary(hand.from)
    BY DEF WorkerClears
  <2> QED BY <1>2, <2>1, <2>2 DEF Cleared
<1>7. WorkerResets => Same \/ Passed
  <2>1. CASE gate.gen = Head(urgent).gen /\ gate.closed /\ WorkerResets
    <3>1. PastBoundary(Head(urgent).from) /\ session' = NoSession
      BY <2>1 DEF WorkerResets
    <3>2. Head(urgent) \in Queued(urgent) /\ Head(urgent).kind = "reset"
      BY <2>1, Unboxed DEF WorkerResets
    <3>3. ResetDone
      BY <2>1, <3>1, <3>2 DEF ResetDone, Resetting
    <3> QED BY <1>2, <3>1, <3>3
  <2>2. CASE ~(gate.gen = Head(urgent).gen /\ gate.closed) /\ WorkerResets
    BY <2>2 DEF WorkerResets
  <2> QED BY <2>1, <2>2
<1>8. WorkerStarts \/ WorkerResumes \/ WorkerRecords \/ WorkerRefuses \/ WorkerChangesProfile
          \/ WorkerStops \/ WorkerChecks \/ SupervisorRecovers \/ WorkerTicks \/ WorkerPanics
          \/ SupervisorShuts => Same
  BY DEF WorkerStarts, WorkerResumes, WorkerRecords, WorkerRefuses, WorkerChangesProfile,
         WorkerStops, WorkerChecks, SupervisorRecovers, WorkerTicks, WorkerPanics, SupervisorShuts
<1>9. LingersNoMore \/ AskReplay \/ WorkerAnswers \/ EndReplay \/ (\E d \in Deadlines : TimePasses(d))
         \/ UNCHANGED vars => Same
  BY DEF LingersNoMore, AskReplay, WorkerAnswers, EndReplay, TimePasses, vars
<1>10. ASSUME NEW q \in Producers, Enter(q) \/ Records(q)
       PROVE  Same \/ (/\ producer[p].at \in {"leased", "sending"}
                       /\ producer'[p].gen = producer[p].gen /\ producer'[p].age = "fresh")
  <2>1. CASE q # p
    BY <1>1, <1>10, <2>1 DEF Enter, Records, Count, Confirm, CloseExpired, Validate, SendDraft,
                             DropLease, At, Leaves
  <2>2. CASE q = p /\ Validate(p)
    BY <1>1, <2>2 DEF Validate, At, Leases
  <2>3. CASE q = p /\ ~Validate(p)
    <3>1. \A at : At(p, at) => producer'[p].at = at
      BY <1>1 DEF At, Leases
    <3>2. Leaves(p) => producer'[p].at = "idle"
      BY <1>1, Blanks DEF Leaves
    <3>3. ~Count(p) /\ ~CloseExpired(p) /\ ~SendDraft(p) /\ ~DropLease(p)
      BY <3>1, <3>2 DEF Count, CloseExpired, SendDraft, DropLease
    <3>4. Enter(p) => producer'[p].at = "read"
      <4>1. ASSUME NEW age, producer' = [producer EXCEPT ![p] =
                              [NoLease EXCEPT !.at = "read", !.gen = gate.gen, !.age = age]]
            PROVE  producer'[p].at = "read"
        BY <1>1, <4>1 DEF NoLease
      <4> QED BY <4>1 DEF Enter
    <3>5. Confirm(p) => producer'[p].at \in {"leased", "idle"}
      BY <1>1, <3>2 DEF Confirm, Leases
    <3> QED BY <1>10, <2>3, <3>3, <3>4, <3>5 DEF Records
  <2> QED BY <2>1, <2>2, <2>3
<1> HIDE DEF Same, Passed
<1>11. \/ Same \/ Passed
       \/ /\ producer[p].at \in {"leased", "sending"}
          /\ producer'[p].gen = producer[p].gen /\ producer'[p].age = "fresh"
  BY <1>3, <1>4, <1>5, <1>6, <1>7, <1>8, <1>9, <1>10 DEF Next, Work
<1> QED BY <1>11 DEF Same, Passed

LEMMA LeftFrom ==
  ASSUME TypeOK, Told, LeaseInv, AgeInv, [Next]_vars, NEW x \in Drafts' \union Sending'
  PROVE  /\ x.gen \in Nat /\ x.gen <= gate.of
         /\ \/ x.age # "old"
            \/ x.gen < gate.gen /\ (session.state # "off" => x.gen < session.gen)
            \/ Cleared \/ ResetDone
<1>1. /\ producer \in [Producers -> Leases] /\ \A p \in Producers : producer[p].gen \in Nat
      /\ \A y \in Items : y.gen \in Nat
      /\ Queued(ingress) \subseteq Items
  BY Typing
<1>2. \A p \in Producers : producer[p].at = "sending" => producer[p] \in Drafts \union Sending
  BY DEF Sending
<1>3. \A y \in Drafts : y.gen \in Nat
  BY <1>1 DEF Drafts
<1>4. CASE x \in Drafts'
  <2>1. x \in Queued(ingress') /\ x.kind = "draft"
    BY <1>4 DEF Drafts
  <2>2. CASE /\ Stays(Queued(ingress), Queued(ingress'))
             /\ Youth(Queued(ingress), Queued(ingress')) \/ Cleared
    <3>1. PICK y \in Queued(ingress) : Like(x, y) /\ (x.age = y.age \/ Cleared)
      BY <2>1, <2>2 DEF Stays, Youth
    <3>2. y \in Drafts /\ x.gen = y.gen
      BY <2>1, <3>1 DEF Drafts, Like
    <3> QED BY <1>3, <3>1, <3>2 DEF AgeInv
  <2>3. ASSUME NEW p \in Producers, SendDraft(p), NEW y \in Items, y.gen = producer[p].gen,
               y.age = producer[p].age, Queued(ingress') = Queued(ingress) \union {y}
        PROVE  /\ x.gen \in Nat /\ x.gen <= gate.of
               /\ x.age = "old" =>
                    x.gen < gate.gen /\ (session.state # "off" => x.gen < session.gen)
    <3>1. producer[p] \in Drafts \union Sending /\ producer[p].gen \in Nat
      BY <1>1, <1>2, <2>3 DEF SendDraft
    <3>2. CASE x = y
      BY <2>3, <3>1, <3>2 DEF AgeInv
    <3>3. CASE x \in Queued(ingress)
      <4>1. x \in Drafts
        BY <2>1, <3>3 DEF Drafts
      <4> QED BY <1>3, <4>1 DEF AgeInv
    <3> QED BY <2>1, <2>3, <3>2, <3>3
  <2>4. ASSUME NEW c \in Callers, SendOrdered(c),
               Queued(ingress') = Queued(ingress) \union {Barrier(c)}
        PROVE  x \in Drafts
    BY <2>1, <2>4 DEF Drafts, Barrier, Item, SendOrdered
  <2> QED BY <1>3, <2>2, <2>3, <2>4, IngressSteps DEF AgeInv
<1>5. CASE x \in Sending'
  <2>1. PICK p \in Producers : x = producer'[p] /\ producer'[p].at = "sending"
    BY <1>5 DEF Sending
  <2>2. /\ producer[p].at \in {"leased", "sending"} /\ x.gen = producer[p].gen
        /\ \/ x.age = "fresh"
           \/ producer[p].at = "sending" /\ x.age = producer[p].age
           \/ Cleared \/ ResetDone
    BY <2>1, SendingFrom
  <2>3. x.gen \in Nat /\ x.gen <= gate.of
    BY <1>1, <2>2 DEF LeaseInv
  <2> QED BY <1>2, <2>2, <2>3 DEF AgeInv
<1> QED BY <1>4, <1>5

LEMMA AgesKept ==
  ASSUME TypeOK, Told, LeaseInv, BoundaryInv, AgeInv, [Next]_vars
  PROVE  AgeInv'
<1>1. /\ gate.gen \in Nat /\ gate.of \in Nat /\ gate'.gen \in Nat /\ gate'.of \in Nat
      /\ session.gen \in Nat /\ session'.gen \in Nat /\ gate.gen <= gate'.gen
  <2>1. TypeOK'
    BY Typed
  <2>2. gate'.gen \in Nat /\ gate'.of \in Nat /\ session'.gen \in Nat
    BY <2>1, Bounds DEF TypeOK, Gates, Sessions
  <2> QED BY <2>2, Typing, Grows DEF GateGrows
<1>2. SUFFICES ASSUME NEW x \in Drafts' \union Sending'
               PROVE  /\ x.gen <= gate'.of
                      /\ x.age = "old" =>
                           x.gen < gate'.gen /\ (session'.state # "off" => x.gen < session'.gen)
  BY DEF AgeInv
<1>3. x.gen \in Nat /\ x.gen <= gate.of /\ gate.of <= gate.gen
  BY LeftFrom DEF Told
<1>4. x.gen <= gate'.of
  BY <1>1, <1>3, GateSteps
<1>5. CASE Cleared
  <2>1. /\ gate' = Advanced /\ CanAdvance
        /\ session' = [Discarded(OldSession(hand.from)) EXCEPT !.gen = gate.gen + 1]
    BY <1>5 DEF Cleared, WorkerClears
  <2>2. gate'.gen = gate.gen + 1
    BY <2>1, GateTypes DEF TypeOK, CanAdvance
  <2>3. session'.gen = gate.gen + 1
    <3>1. OldSession(hand.from) \in Sessions
      BY OldTypes DEF TypeOK
    <3> QED BY <2>1, <3>1 DEF Discarded, Sessions
  <2> QED BY <1>1, <1>3, <1>4, <2>2, <2>3
<1>6. CASE ResetDone
  <2>1. gate.of < gate.gen /\ session'.state = "off"
    BY <1>6, Blanks DEF ResetDone, BoundaryInv
  <2> QED BY <1>1, <1>3, <1>4, <2>1
<1>7. CASE x.gen < gate.gen /\ (session.state # "off" => x.gen < session.gen)
  <2>1. x.gen < gate'.gen
    BY <1>1, <1>3, <1>7
  <2>2. session'.state # "off" => x.gen < session'.gen
    BY <1>1, <1>3, <1>7, SessionSteps, Blanks DEF SameSession, WorkerStops, Current
  <2> QED BY <1>4, <2>1, <2>2
<1> QED BY <1>4, <1>5, <1>6, <1>7, LeftFrom

(* Whoever carries out a clear or a reset has waited for every answer.     *)
LEMMA QuerySteps ==
  ASSUME TypeOK, QueueInv, WaitInv, [Next]_vars
  PROVE  \/ query' = query
         \/ AskReplay /\ query' = [NoQuery EXCEPT !.at = "queued"]
         \/ WorkerAnswers /\ query.at = "queued" /\ query' = [at |-> "answered", shown |-> session.ring]
         \/ query' = NoQuery
         \/ \E c \in Callers : /\ call[c].op \in {"clear", "reset"} /\ call[c].at = "ack"
                               /\ query' = [query EXCEPT !.shown = Old(@)]
<1> DEFINE Aging1(from) == \E c \in Callers : /\ c = from
                               /\ call[c].op \in {"clear", "reset"} /\ call[c].at = "ack"
                               /\ query' = [query EXCEPT !.shown = Old(@)]
<1> USE DEF gatev, workv, queues, callv
<1>1. ASSUME NEW x \in Waits, x.kind \in {"clear", "reset"}, query' = OldQuery(x.from)
      PROVE  query' = query \/ Aging1(x.from)
  <2>1. x \in Items
    BY Typing DEF Waits
  <2>2. CASE x.from = None
    BY <1>1, <2>2 DEF OldQuery
  <2>3. CASE x.from # None
    <3>1. x.from \in Callers /\ Answers(x, x.from)
      BY <2>1, <2>3 DEF Items, WaitInv
    <3>2. call[x.from].op \in {"clear", "reset"} /\ call[x.from].at = "ack"
      BY <1>1, <3>1 DEF Answers
    <3> QED BY <1>1, <2>3, <3>1, <3>2 DEF OldQuery
  <2> QED BY <2>2, <2>3
<1>2. WorkerResets => query' = query \/ query' = NoQuery \/ Aging1(Head(urgent).from)
  <2>1. WorkerResets => Head(urgent) \in Waits /\ Head(urgent).kind = "reset"
    BY Unboxed DEF WorkerResets, Waits
  <2>2. WorkerResets => query' = query \/ query' = NoQuery \/ query' = OldQuery(Head(urgent).from)
    BY DEF WorkerResets
  <2> HIDE DEF Aging1
  <2> QED BY <1>1, <2>1, <2>2
<1>3. WorkerClears => query' = query \/ Aging1(hand.from)
  <2>1. WorkerClears => hand \in Waits /\ hand.kind = "clear"
    BY DEF WorkerClears, WorkerAdvances, Waits
  <2>2. WorkerClears => query' = query \/ query' = OldQuery(hand.from)
    BY DEF WorkerClears
  <2> HIDE DEF Aging1
  <2> QED BY <1>1, <2>1, <2>2
<1>4. ASSUME NEW p \in Producers, Enter(p) \/ Records(p)
      PROVE  query' = query
  BY <1>4 DEF Enter, Records, Count, Confirm, CloseExpired, Validate, SendDraft, DropLease
<1>5. Request \/ RequestTrace \/ RequestReset => query' = query
  BY DEF Request, RequestTrace, RequestReset, Begins
<1>6. ASSUME NEW c \in Callers, Expire(c) \/ TakeLock(c) \/ TimesOut(c) \/ Operate(c)
      PROVE  query' = query
  BY <1>6 DEF Expire, Begins, TakeLock, TimesOut, Operate, ShutGate, AdvanceFor, Open, Quiesce,
              TakeReplayLock, ReadGeneration, SendOrdered, SendUrgent, PublishDeadline, EndClosed
<1>7. LingersNoMore \/ (\E d \in Deadlines : TimePasses(d)) \/ UNCHANGED vars => query' = query
  BY DEF LingersNoMore, TimePasses, vars
<1>8. WorkerStarts \/ WorkerResumes \/ WorkerRecords \/ WorkerRefuses \/ WorkerChangesProfile
        \/ WorkerStops \/ WorkerChecks \/ WorkerTicks \/ WorkerPanics => query' = query
  BY DEF WorkerStarts, WorkerResumes, WorkerRecords, WorkerRefuses, WorkerChangesProfile,
         WorkerStops, WorkerChecks, WorkerTicks, WorkerPanics
<1>9. SupervisorShuts \/ SupervisorRecovers => query' = query \/ query' = NoQuery
  BY DEF SupervisorShuts, SupervisorRecovers, RejectAll
<1>10. AskReplay => query' = [NoQuery EXCEPT !.at = "queued"]
  BY DEF AskReplay
<1>11. WorkerAnswers => query.at = "queued" /\ query' = [at |-> "answered", shown |-> session.ring]
  BY DEF WorkerAnswers
<1>12. EndReplay => query' = NoQuery
  BY DEF EndReplay
<1> HIDE DEF Aging1
<1>13. \/ query' = query \/ query' = NoQuery
       \/ AskReplay /\ query' = [NoQuery EXCEPT !.at = "queued"]
       \/ WorkerAnswers /\ query.at = "queued" /\ query' = [at |-> "answered", shown |-> session.ring]
       \/ \E from : Aging1(from)
  BY <1>2, <1>3, <1>4, <1>5, <1>6, <1>7, <1>8, <1>9, <1>10, <1>11, <1>12 DEF Next, Work
<1> QED BY <1>13 DEF Aging1

LEMMA ReplaysKept ==
  ASSUME TypeOK, QueueInv, WaitInv, CallInv, ReplayInv, [Next]_vars
  PROVE  ReplayInv'
<1>1. query \in Queries /\ Old({}) = {}
  BY DEF TypeOK, Old
<1>2. ASSUME query'.at # "answered"
      PROVE  query'.shown = {}
  <2>1. query' = [query EXCEPT !.shown = Old(@)] => query'.shown = Old(query.shown) /\ query'.at = query.at
    BY <1>1 DEF Queries
  <2> QED BY <1>1, <1>2, <2>1, QuerySteps DEF NoQuery, ReplayInv
<1>3. ASSUME NEW c \in Callers, call'[c].at \notin {"idle", "shut", "lock", "quiesce", "replay"},
             call'[c].op \in {"clear", "reset"}
      PROVE  query'.at = "idle"
  <2>1. Moves(c)
    BY CallSteps
  <2>2. query.at = "idle"
    BY <1>3, <2>1, Blanks DEF Moves, ReplayInv, Holding, CallInv, Starts, Ordered
  <2>3. ~AskReplay
    <3>1. AskReplay => call' = call
      BY DEF AskReplay, callv
    <3>2. AskReplay => call[c].at = "quiesce" \/ c \notin Holding \/ call[c].op \notin {"clear", "reset"}
      BY DEF AskReplay
    <3> QED BY <1>3, <3>1, <3>2 DEF Holding
  <2>4. query' = [query EXCEPT !.shown = Old(@)] => query'.at = query.at
    BY <1>1 DEF Queries
  <2> QED BY <2>2, <2>3, <2>4, QuerySteps DEF NoQuery
<1> QED BY <1>2, <1>3 DEF ReplayInv, Holding

(* What the session has in store stays, goes to the ring, goes; or a draft *)
(* of its generation comes in.                                             *)
LEMMA HeldFrom ==
  ASSUME TypeOK, [Next]_vars, NEW age \in session'.held \union session'.ring
  PROVE  \/ age \in session.held \union session.ring
         \/ /\ session.state # "off"
            /\ \E d \in Drafts : d.gen = session.gen /\ d.age = age
<1> DEFINE Kept == age \in session.held \union session.ring
<1> USE DEF gatev, workv, queues, callv
<1>1. session \in Sessions
  BY DEF TypeOK
<1>2. session' = session => Kept
  OBVIOUS
<1>3. session' = Flushed => Kept
  BY <1>1 DEF Flushed, Sessions
<1>4. session' # NoSession
  BY Blanks
<1>5. WorkerTicks \/ WorkerChecks \/ SupervisorRecovers \/ SupervisorShuts \/ WorkerRefuses => Kept
  BY <1>2, <1>3 DEF WorkerTicks, WorkerChecks, SupervisorRecovers, SupervisorShuts, WorkerRefuses
<1>6. ~WorkerPanics
  BY <1>4 DEF WorkerPanics
<1>7. WorkerStarts => Kept
  BY <1>2, Blanks DEF WorkerStarts, NoSession
<1>8. WorkerResumes \/ WorkerStops => Kept
  BY <1>1, <1>2 DEF WorkerResumes, WorkerStops, Flushed, Sessions
<1>9. WorkerResets => Kept
  BY <1>2, <1>4 DEF WorkerResets
<1>10. WorkerClears => Kept
  <2>1. OldSession(hand.from) \in Sessions
    BY <1>1, OldTypes
  <2>2. session' = [Discarded(OldSession(hand.from)) EXCEPT !.gen = gate.gen + 1]
          => session'.held = {} /\ session'.ring = {}
    BY <2>1 DEF Discarded, Sessions
  <2> QED BY <1>2, <2>2 DEF WorkerClears
<1>11. WorkerChangesProfile => Kept
  BY <1>1, <1>2 DEF WorkerChangesProfile, Sessions
<1>12. ASSUME WorkerRecords, ~Kept
       PROVE  /\ session.state # "off"
              /\ \E d \in Drafts : d.gen = session.gen /\ d.age = age
  <2>1. /\ Takes({"draft"}) /\ session.state = "capturing" /\ Head(ingress).gen = session.gen
        /\ session' \in Coalesced(Head(ingress).age)
    BY <1>2, <1>12 DEF WorkerRecords
  <2>2. Head(ingress) \in Drafts
    BY <2>1, Taken DEF Drafts
  <2>3. age = Head(ingress).age
    <3>1. ASSUME NEW a, session' \in Coalesced(a)
          PROVE  session'.held \union session'.ring \subseteq session.held \union session.ring \union {a}
      <4>1. CASE session' = [session EXCEPT !.held = @ \union {a}]
        BY <1>1, <4>1 DEF Sessions
      <4>2. CASE session' = [session EXCEPT !.held = {a}, !.ring = @ \union session.held]
        BY <1>1, <4>2 DEF Sessions
      <4>3. CASE session' = [session EXCEPT !.held = {}, !.ring = @ \union session.held \union {a}]
        BY <1>1, <4>3 DEF Sessions
      <4> QED BY <3>1, <4>1, <4>2, <4>3 DEF Coalesced
    <3> QED BY <1>12, <2>1, <3>1
  <2> QED BY <2>1, <2>2, <2>3
<1> HIDE DEF Kept
<1>13. ASSUME NEW p \in Producers, Enter(p) \/ Records(p)
       PROVE  Kept
  BY <1>2, <1>13 DEF Enter, Records, Count, Confirm, CloseExpired, Validate, SendDraft, DropLease
<1>14. Request \/ RequestTrace \/ RequestReset => Kept
  BY <1>2 DEF Request, RequestTrace, RequestReset, Begins
<1>15. ASSUME NEW c \in Callers, Expire(c) \/ TakeLock(c) \/ TimesOut(c) \/ Operate(c)
       PROVE  Kept
  BY <1>2, <1>15 DEF Expire, Begins, TakeLock, TimesOut, Operate, ShutGate, AdvanceFor, Open, Quiesce,
                     TakeReplayLock, ReadGeneration, SendOrdered, SendUrgent, PublishDeadline,
                     EndClosed
<1>16. LingersNoMore \/ AskReplay \/ WorkerAnswers \/ EndReplay \/ (\E d \in Deadlines : TimePasses(d))
        \/ UNCHANGED vars => Kept
  BY <1>2 DEF LingersNoMore, AskReplay, WorkerAnswers, EndReplay, TimePasses, vars
<1>17. Kept \/ (/\ session.state # "off"
                /\ \E d \in Drafts : d.gen = session.gen /\ d.age = age)
  BY <1>5, <1>6, <1>7, <1>8, <1>9, <1>10, <1>11, <1>12, <1>13, <1>14, <1>15, <1>16 DEF Next, Work
<1> QED BY <1>17 DEF Kept

LEMMA SurvivesKept ==
  ASSUME TypeOK, QueueInv, WaitInv, AgeInv, ReplayInv, NothingSurvives, [Next]_vars
  PROVE  NothingSurvives'
<1>1. "old" \notin session'.held \union session'.ring
  <2>1. SUFFICES ASSUME "old" \in session'.held \union session'.ring
                 PROVE  FALSE
    OBVIOUS
  <2>2. ASSUME NEW d \in Drafts, d.gen = session.gen, d.age = "old", session.state # "off"
        PROVE  FALSE
    <3>1. d.gen < session.gen /\ session.gen \in Nat
      BY <2>2, Typing DEF AgeInv
    <3> QED BY <2>2, <3>1
  <2> QED BY <2>1, <2>2, HeldFrom DEF NothingSurvives
<1>2. "old" \notin query'.shown
  <2>1. query \in Queries /\ Old({}) = {}
    BY DEF TypeOK, Old
  <2>2. ASSUME NEW c \in Callers, call[c].op \in {"clear", "reset"}, call[c].at = "ack",
               query' = [query EXCEPT !.shown = Old(@)]
        PROVE  query'.shown = {}
    <3>1. query.at = "idle"
      BY <2>2 DEF ReplayInv, Holding
    <3>2. query.shown = {}
      BY <3>1 DEF ReplayInv
    <3> QED BY <2>1, <2>2, <3>2 DEF Queries
  <2> QED BY <2>2, QuerySteps, Blanks DEF NothingSurvives, NoQuery
<1> QED BY <1>1, <1>2 DEF NothingSurvives

-----------------------------------------------------------------------------
(* Captures that stop.                                                     *)

ResetOn == \E c \in Callers : call[c].op = "reset"

Changed == WorkerChangesProfile /\ CanAdvance

(* Who advances the generation.                                            *)
LEMMA GenSteps ==
  ASSUME TypeOK, [Next]_vars, gate'.gen # gate.gen
  PROVE  \/ \E c \in Callers : ShutGate(c) /\ gate.gen < MaxGeneration
         \/ \E c \in Callers : AdvanceFor(c) /\ CanAdvance
         \/ Cleared \/ Changed \/ SupervisorShuts
<1> USE DEF gatev, workv, queues, callv
<1>1. gate \in Gates
  BY DEF TypeOK
<1>2. gate' # gate /\ gate' # [gate EXCEPT !.closed = TRUE]
  BY <1>1 DEF Gates
<1>3. gate' = Shut => gate.gen < MaxGeneration
  BY <1>1 DEF Shut, Gates
<1>4. ASSUME NEW p \in Producers
      PROVE  ~Enter(p) /\ ~Records(p)
  BY <1>2 DEF Enter, Records, Count, Confirm, CloseExpired, Validate, SendDraft, DropLease
<1>5. ~Request /\ ~RequestTrace /\ ~RequestReset
  BY <1>2 DEF Request, RequestTrace, RequestReset, Begins
<1>6. ASSUME NEW c \in Callers
      PROVE  ~Expire(c) /\ ~TakeLock(c) /\ ~TimesOut(c)
  BY <1>2 DEF Expire, Begins, TakeLock, TimesOut
<1>7. ASSUME NEW c \in Callers
      PROVE  /\ ~Quiesce(c) /\ ~TakeReplayLock(c) /\ ~ReadGeneration(c) /\ ~SendOrdered(c)
             /\ ~SendUrgent(c) /\ ~PublishDeadline(c) /\ ~EndClosed(c)
  BY <1>2 DEF Quiesce, TakeReplayLock, ReadGeneration, SendOrdered, SendUrgent, PublishDeadline,
              EndClosed
<1>8. ASSUME NEW c \in Callers
      PROVE  ~Open(c)
  BY <1>1, <1>2 DEF Open, Opened
<1>9. ASSUME NEW c \in Callers
      PROVE  /\ ShutGate(c) => gate.gen < MaxGeneration
             /\ AdvanceFor(c) => CanAdvance
  BY <1>2, <1>3 DEF ShutGate, AdvanceFor
<1>10. (WorkerClears => Cleared) /\ (WorkerChangesProfile => Changed)
  BY <1>2 DEF WorkerClears, WorkerChangesProfile, Cleared, Changed
<1>11. /\ ~WorkerStarts /\ ~WorkerResumes /\ ~WorkerResets /\ ~WorkerRecords /\ ~WorkerRefuses
       /\ ~WorkerStops /\ ~WorkerChecks /\ ~SupervisorRecovers /\ ~WorkerTicks /\ ~WorkerPanics
  BY <1>2 DEF WorkerStarts, WorkerResumes, WorkerResets, WorkerRecords, WorkerRefuses,
              WorkerStops, WorkerChecks, SupervisorRecovers, WorkerTicks, WorkerPanics
<1>12. /\ ~LingersNoMore /\ ~AskReplay /\ ~WorkerAnswers /\ ~EndReplay
       /\ ~(\E d \in Deadlines : TimePasses(d)) /\ ~UNCHANGED vars
  BY <1>2 DEF LingersNoMore, AskReplay, WorkerAnswers, EndReplay, TimePasses, vars
<1> QED BY <1>4, <1>5, <1>6, <1>7, <1>8, <1>9, <1>10, <1>11, <1>12 DEF Next, Work, Operate

(* Who closes the gate.                                                    *)
LEMMA ClosingSteps ==
  ASSUME TypeOK, CallInv, [Next]_vars, ~gate.closed, gate'.closed
  PROVE  \/ \E p \in Producers : CloseExpired(p)
         \/ \E c \in Callers : TakeLock(c) /\ ~Pointless(c)
         \/ \E c \in Callers : ShutGate(c)
         \/ SupervisorShuts
<1> USE DEF gatev, workv, queues, callv
<1>1. gate' # gate
  OBVIOUS
<1>2. ASSUME NEW p \in Producers, Enter(p) \/ Records(p)
      PROVE  CloseExpired(p)
  BY <1>1, <1>2 DEF Enter, Records, Count, Confirm, Validate, SendDraft, DropLease
<1>3. ~Request /\ ~RequestTrace /\ ~RequestReset
  BY <1>1 DEF Request, RequestTrace, RequestReset, Begins
<1>4. ASSUME NEW c \in Callers
      PROVE  ~Expire(c) /\ (TakeLock(c) => ~Pointless(c)) /\ ~TimesOut(c)
  BY <1>1 DEF Expire, Begins, TakeLock, TimesOut
<1>5. ASSUME NEW c \in Callers
      PROVE  /\ ~Quiesce(c) /\ ~TakeReplayLock(c) /\ ~ReadGeneration(c) /\ ~SendOrdered(c)
             /\ ~SendUrgent(c) /\ ~PublishDeadline(c) /\ ~EndClosed(c) /\ ~AdvanceFor(c)
  BY <1>1 DEF Quiesce, TakeReplayLock, ReadGeneration, SendOrdered, SendUrgent, PublishDeadline,
              EndClosed, AdvanceFor, CanAdvance
<1>6. ASSUME NEW c \in Callers
      PROVE  ~Open(c)
  BY <1>1 DEF Open, CanOpen
<1>7. /\ ~WorkerStarts /\ ~WorkerResumes /\ ~WorkerResets /\ ~WorkerRecords /\ ~WorkerRefuses
      /\ ~WorkerStops /\ ~WorkerChecks /\ ~SupervisorRecovers /\ ~WorkerTicks /\ ~WorkerPanics
      /\ ~WorkerClears /\ ~WorkerChangesProfile
  BY <1>1 DEF WorkerStarts, WorkerResumes, WorkerResets, WorkerRecords, WorkerRefuses,
              WorkerStops, WorkerChecks, SupervisorRecovers, WorkerTicks, WorkerPanics,
              WorkerClears, WorkerChangesProfile, CanAdvance
<1>8. /\ ~LingersNoMore /\ ~AskReplay /\ ~WorkerAnswers /\ ~EndReplay
      /\ ~(\E d \in Deadlines : TimePasses(d)) /\ ~UNCHANGED vars
  BY <1>1 DEF LingersNoMore, AskReplay, WorkerAnswers, EndReplay, TimePasses, vars
<1> QED BY <1>2, <1>3, <1>4, <1>5, <1>6, <1>7, <1>8 DEF Next, Work, Operate

(* A failure is forgotten when the gate opens.                             *)
LEMMA FailSteps ==
  ASSUME TypeOK, [Next]_vars, failed, ~failed'
  PROVE  \E c \in Callers : Open(c) /\ call[c].epoch = worker.epoch /\ CanOpen(call[c].gen)
<1> USE DEF gatev, workv, queues, callv
<1>1. ASSUME NEW p \in Producers
      PROVE  ~Enter(p) /\ ~Records(p)
  BY DEF Enter, Records, Count, Confirm, CloseExpired, Validate, SendDraft, DropLease
<1>2. ~Request /\ ~RequestTrace /\ ~RequestReset
  BY DEF Request, RequestTrace, RequestReset, Begins
<1>3. ASSUME NEW c \in Callers
      PROVE  ~Expire(c) /\ ~TakeLock(c) /\ ~TimesOut(c)
  BY DEF Expire, Begins, TakeLock, TimesOut, Returns, Goes, Fails
<1>4. ASSUME NEW c \in Callers
      PROVE  ~ShutGate(c) /\ ~Quiesce(c) /\ ~AdvanceFor(c) /\ ~TakeReplayLock(c) /\ ~ReadGeneration(c)
  BY DEF ShutGate, Quiesce, AdvanceFor, TakeReplayLock, ReadGeneration, Goes, Fails
<1>5. ASSUME NEW c \in Callers
      PROVE  ~SendOrdered(c) /\ ~SendUrgent(c) /\ ~PublishDeadline(c) /\ ~EndClosed(c)
  BY DEF SendOrdered, SendUrgent, PublishDeadline, EndClosed, Awaits, Fails, Returns
<1>6. ASSUME NEW c \in Callers, Open(c)
      PROVE  call[c].epoch = worker.epoch /\ CanOpen(call[c].gen)
  BY <1>6 DEF Open, Fails
<1>7. \A from, g, pr, d : ~Opens(from, g, pr, d)
  BY DEF Opens
<1>8. \A from : ~Ends(from)
  BY DEF Ends
<1>9. \A callers : ~Refuses(callers)
  BY DEF Refuses
<1>10. ~WorkerStarts /\ ~WorkerResumes /\ ~WorkerStops /\ ~WorkerRefuses /\ ~WorkerPanics
  BY <1>7, <1>8, <1>9 DEF WorkerStarts, WorkerResumes, WorkerStops, WorkerRefuses, WorkerPanics
<1>11. ~WorkerResets
  BY <1>9 DEF WorkerResets
<1>12. ~WorkerClears /\ ~WorkerChangesProfile
  BY <1>7, <1>8, <1>9 DEF WorkerClears, WorkerChangesProfile
<1>13. ~WorkerRecords /\ ~WorkerChecks /\ ~WorkerTicks
  BY DEF WorkerRecords, WorkerChecks, WorkerTicks
<1>14. ~SupervisorShuts /\ ~SupervisorRecovers
  BY <1>9 DEF SupervisorShuts, SupervisorRecovers, RejectAll
<1>15. /\ ~LingersNoMore /\ ~AskReplay /\ ~WorkerAnswers /\ ~EndReplay
       /\ ~(\E d \in Deadlines : TimePasses(d)) /\ ~UNCHANGED vars
  BY DEF LingersNoMore, AskReplay, WorkerAnswers, EndReplay, TimePasses, vars
<1> QED BY <1>1, <1>2, <1>3, <1>4, <1>5, <1>6, <1>10, <1>11, <1>12, <1>13, <1>14, <1>15
        DEF Next, Work, Operate

(* What is written to the stored deadline.                                 *)
LEMMA StoredSteps ==
  ASSUME TypeOK, [Next]_vars, stored' # stored
  PROVE  \/ \E c \in Callers : ShutGate(c) /\ gate.gen < MaxGeneration /\ stored' = None
         \/ \E c \in Callers : PublishDeadline(c)
         \/ \E c \in Callers : EndClosed(c)
         \/ WorkerResets /\ session' = NoSession /\ gate.closed /\ gate' = gate /\ stored' = None
         \/ SupervisorShuts /\ stored' = None
<1> USE DEF gatev, workv, queues, callv
<1>1. ASSUME NEW p \in Producers
      PROVE  ~Enter(p) /\ ~Records(p)
  BY DEF Enter, Records, Count, Confirm, CloseExpired, Validate, SendDraft, DropLease
<1>2. ~Request /\ ~RequestTrace /\ ~RequestReset
  BY DEF Request, RequestTrace, RequestReset, Begins
<1>3. ASSUME NEW c \in Callers
      PROVE  ~Expire(c) /\ ~TakeLock(c) /\ ~TimesOut(c)
  BY DEF Expire, Begins, TakeLock, TimesOut
<1>4. ASSUME NEW c \in Callers
      PROVE  /\ ~Quiesce(c) /\ ~AdvanceFor(c) /\ ~TakeReplayLock(c) /\ ~ReadGeneration(c)
             /\ ~SendOrdered(c) /\ ~SendUrgent(c) /\ ~Open(c)
  BY DEF Quiesce, AdvanceFor, TakeReplayLock, ReadGeneration, SendOrdered, SendUrgent, Open
<1>5. ASSUME NEW c \in Callers, ShutGate(c)
      PROVE  gate.gen < MaxGeneration /\ stored' = None
  BY <1>5 DEF ShutGate
<1>6. WorkerResets => session' = NoSession /\ gate.closed /\ gate' = gate /\ stored' = None
  BY DEF WorkerResets
<1>7. SupervisorShuts => stored' = None
  BY DEF SupervisorShuts
<1>8. /\ ~WorkerStarts /\ ~WorkerResumes /\ ~WorkerRecords /\ ~WorkerRefuses
      /\ ~WorkerStops /\ ~WorkerChecks /\ ~SupervisorRecovers /\ ~WorkerTicks /\ ~WorkerPanics
      /\ ~WorkerClears /\ ~WorkerChangesProfile
  BY DEF WorkerStarts, WorkerResumes, WorkerRecords, WorkerRefuses, WorkerStops, WorkerChecks,
         SupervisorRecovers, WorkerTicks, WorkerPanics, WorkerClears, WorkerChangesProfile
<1>9. /\ ~LingersNoMore /\ ~AskReplay /\ ~WorkerAnswers /\ ~EndReplay
      /\ ~(\E d \in Deadlines : TimePasses(d)) /\ ~UNCHANGED vars
  BY DEF LingersNoMore, AskReplay, WorkerAnswers, EndReplay, TimePasses, vars
<1> QED BY <1>1, <1>2, <1>3, <1>4, <1>5, <1>6, <1>7, <1>8, <1>9 DEF Next, Work, Operate

(* A deadline that is in use stays past.                                   *)
LEMMA PastSteps ==
  ASSUME TypeOK, [Next]_vars, NEW d \in past, d \in InUse
  PROVE  d \in past'
<1> USE DEF gatev, workv, queues, callv
<1>1. ASSUME NEW p \in Producers, Enter(p) \/ Records(p)
      PROVE  past' = past
  BY <1>1 DEF Enter, Records, Count, Confirm, CloseExpired, Validate, SendDraft, DropLease
<1>2. Request \/ RequestReset => past' = past
  BY DEF Request, RequestReset
<1>3. RequestTrace => d \in past'
  <2>1. d # None
    BY RecorderAssumption DEF TypeOK
  <2>2. ASSUME NEW e \in {None} \union (Deadlines \ InUse), past' = past \ {e}
        PROVE  d \in past'
    BY <2>2, RecorderAssumption DEF TypeOK
  <2> QED BY <2>2 DEF RequestTrace
<1>4. ASSUME NEW c \in Callers, Expire(c) \/ TakeLock(c) \/ TimesOut(c) \/ Operate(c)
      PROVE  past' = past
  BY <1>4 DEF Expire, TakeLock, TimesOut, Operate, ShutGate, AdvanceFor, Open, Quiesce,
              TakeReplayLock, ReadGeneration, SendOrdered, SendUrgent, PublishDeadline, EndClosed
<1>5. Work \/ WorkerTicks \/ WorkerPanics => past' = past
  BY DEF Work, WorkerStarts, WorkerResumes, WorkerResets, WorkerRecords, WorkerRefuses, WorkerStops,
         WorkerChecks, SupervisorRecovers, WorkerTicks, WorkerPanics, WorkerClears,
         WorkerChangesProfile, SupervisorShuts
<1>6. LingersNoMore \/ AskReplay \/ WorkerAnswers \/ EndReplay \/ UNCHANGED vars => past' = past
  BY DEF LingersNoMore, AskReplay, WorkerAnswers, EndReplay, vars
<1>7. (\E e \in Deadlines : TimePasses(e)) => d \in past'
  BY DEF TimePasses
<1> QED BY <1>1, <1>2, <1>3, <1>4, <1>5, <1>6, <1>7 DEF Next

(* Who gives up reports a failure, unless all is done, or nothing was to   *)
(* do.                                                                     *)
LEMMA Leaving ==
  ASSUME TypeOK, QueueInv, WaitInv, [Next]_vars, NEW c \in Callers, call[c].at # "idle",
         call'[c] = NoCall
  PROVE  \/ failed' /\ call[c].at # "publish"
         \/ (TakeLock(c) /\ Pointless(c)) \/ PublishDeadline(c) \/ EndClosed(c)
<1> USE DEF gatev, workv, queues, callv
<1>1. call \in [Callers -> Calls] /\ call'[c].at = "idle" /\ call' # call
  BY Typing, Blanks
<1>2. ASSUME NEW p \in Producers
      PROVE  ~Enter(p) /\ ~Records(p)
  BY <1>1 DEF Enter, Records, Count, Confirm, CloseExpired, Validate, SendDraft, DropLease
<1>3. ~Request /\ ~RequestTrace /\ ~RequestReset
  BY <1>1 DEF Request, RequestTrace, RequestReset, Begins
<1>4. ASSUME NEW d \in Callers, Expire(d) \/ TakeLock(d) \/ TimesOut(d) \/ Operate(d)
      PROVE  \/ failed' /\ call[c].at # "publish"
             \/ (TakeLock(c) /\ Pointless(c)) \/ PublishDeadline(c) \/ EndClosed(c)
  <2>1. ASSUME NEW at, Goes(d, at), at # "idle"
        PROVE  FALSE
    BY <1>1, <2>1 DEF Goes, Calls
  <2>2. Awaits(d) => FALSE
    BY <1>1 DEF Awaits, NoCall
  <2>3. Returns(d) \/ Fails(d) => c = d
    BY <1>1 DEF Returns, Fails
  <2>4. Fails(d) => failed'
    BY DEF Fails
  <2>5. ~Expire(d)
    BY <1>1 DEF Expire, Begins
  <2>6. TakeLock(d) => c = d /\ Pointless(d)
    BY <2>1, <2>3 DEF TakeLock
  <2>7. TimesOut(d) => c = d /\ failed' /\ call[d].at # "publish"
    BY <2>3, <2>4 DEF TimesOut
  <2>8. Quiesce(d) => c = d /\ failed' /\ call[d].at # "publish"
    BY <2>1, <2>3, <2>4 DEF Quiesce
  <2>9. ~TakeReplayLock(d)
    BY <2>1 DEF TakeReplayLock
  <2>10. ~ReadGeneration(d)
    BY <1>1 DEF ReadGeneration, Calls
  <2>11. SendOrdered(d) => c = d /\ failed' /\ call[d].at # "publish"
    BY <2>2, <2>3, <2>4 DEF SendOrdered
  <2>12. SendUrgent(d) => c = d /\ failed' /\ call[d].at # "publish"
    BY <2>2, <2>3, <2>4 DEF SendUrgent
  <2>13. Open(d) => c = d /\ failed' /\ call[d].at # "publish"
    BY <1>1, <2>3, <2>4 DEF Open, Calls
  <2>14. ShutGate(d) => c = d /\ failed' /\ call[d].at # "publish"
    BY <1>1, <2>3, <2>4 DEF ShutGate, Calls
  <2>15. AdvanceFor(d) => c = d /\ failed' /\ call[d].at # "publish"
    BY <1>1, <2>3, <2>4 DEF AdvanceFor, Calls
  <2>16. PublishDeadline(d) \/ EndClosed(d) => c = d
    BY <2>3 DEF PublishDeadline, EndClosed
  <2> QED BY <1>4, <2>5, <2>6, <2>7, <2>8, <2>9, <2>10, <2>11, <2>12, <2>13, <2>14, <2>15, <2>16
          DEF Operate
<1>5. ASSUME NEW x \in Waits, Refuses({x.from})
      PROVE  failed' /\ call[c].at # "publish"
  <2>1. c = x.from
    BY <1>1, <1>5 DEF Refuses
  <2>2. Answers(x, c)
    BY <2>1, Bounds DEF WaitInv
  <2> QED BY <1>5, <2>1, <2>2, Bounds DEF Refuses, Answers
<1>6. ASSUME NEW from, NEW g, NEW pr, NEW d, Opens(from, g, pr, d) \/ Ends(from)
      PROVE  FALSE
  <2>1. CASE Opens(from, g, pr, d)
    BY <1>1, <2>1 DEF Opens
  <2>2. CASE Ends(from)
    BY <1>1, <2>2 DEF Ends, Calls
  <2> QED BY <1>6, <2>1, <2>2
<1>7. WorkerStarts \/ WorkerResumes => failed' /\ call[c].at # "publish"
  <2>1. WorkerStarts \/ WorkerResumes => Head(urgent) \in Waits
    BY Unboxed DEF WorkerStarts, WorkerResumes, Waits
  <2>2. WorkerStarts \/ WorkerResumes => Refuses({Head(urgent).from})
    BY <1>6 DEF WorkerStarts, WorkerResumes
  <2> QED BY <1>5, <2>1, <2>2
<1>8. WorkerResets => failed' /\ call[c].at # "publish"
  <2>1. CASE WorkerResets /\ gate.gen = Head(urgent).gen /\ gate.closed
    <3> DEFINE unheard == {ingress[i].from : i \in 1..Len(ingress)}
    <3>1. /\ call' = [d \in Callers |-> IF d = Head(urgent).from THEN [call[d] EXCEPT !.at = "end"]
                                        ELSE IF d \in unheard THEN NoCall ELSE call[d]]
          /\ failed' = (failed \/ unheard \ {None} # {})
      BY <2>1 DEF WorkerResets
    <3>2. c \in unheard
      BY <1>1, <3>1 DEF Calls
    <3>3. PICK i \in 1..Len(ingress) : ingress[i].from = c
      BY <3>2
    <3>4. Answers(ingress[i], c)
      BY <3>3, Bounds DEF WaitInv, Waits, Queued
    <3> QED BY <3>1, <3>2, <3>4, Bounds DEF Answers
  <2>2. CASE WorkerResets /\ ~(gate.gen = Head(urgent).gen /\ gate.closed)
    <3>1. Head(urgent) \in Waits
      BY <2>2, Unboxed DEF WorkerResets, Waits
    <3>2. Refuses({Head(urgent).from})
      BY <2>2 DEF WorkerResets
    <3> QED BY <1>5, <3>1, <3>2
  <2> QED BY <2>1, <2>2
<1>9. WorkerRefuses => failed' /\ call[c].at # "publish"
  <2>1. WorkerRefuses => Head(ingress) \in Waits
    BY Taken DEF WorkerRefuses, Waits
  <2> QED BY <1>5, <2>1 DEF WorkerRefuses
<1>10. ~WorkerStops
  BY <1>6 DEF WorkerStops
<1>11. ~WorkerRecords /\ ~WorkerChecks /\ ~WorkerTicks
  BY <1>1 DEF WorkerRecords, WorkerChecks, WorkerTicks
<1>12. hand \in Waits
  BY DEF Waits
<1>13. WorkerClears \/ WorkerChangesProfile => failed' /\ call[c].at # "publish"
  <2>1. WorkerClears \/ WorkerChangesProfile => Refuses({hand.from})
    BY <1>6 DEF WorkerClears, WorkerChangesProfile
  <2> QED BY <1>5, <1>12, <2>1
<1>14. WorkerPanics => failed' /\ call[c].at # "publish"
  <2>1. urgent # <<>> => Head(urgent) \in Waits
    BY TailOf DEF TypeOK, Waits
  <2>2. ingress # <<>> => Head(ingress) \in Waits
    BY TailOf DEF TypeOK, Waits
  <2>3. WorkerPanics => \E x \in Waits : Refuses({x.from})
    BY <1>12, <2>1, <2>2 DEF WorkerPanics
  <2> QED BY <1>5, <2>3
<1>15. RejectAll => failed' /\ call[c].at # "publish"
  BY <1>1, Bounds DEF RejectAll, Refuses
<1>16. SupervisorShuts \/ SupervisorRecovers => failed' /\ call[c].at # "publish"
  BY <1>1, <1>15 DEF SupervisorShuts, SupervisorRecovers
<1>17. /\ ~LingersNoMore /\ ~AskReplay /\ ~WorkerAnswers /\ ~EndReplay
       /\ ~(\E d \in Deadlines : TimePasses(d)) /\ ~UNCHANGED vars
  BY <1>1 DEF LingersNoMore, AskReplay, WorkerAnswers, EndReplay, TimePasses, vars
<1> QED BY <1>2, <1>3, <1>4, <1>7, <1>8, <1>9, <1>10, <1>11, <1>13, <1>14, <1>16, <1>17
        DEF Next, Work

(* No two starts are of one generation.                                    *)
Once(q) ==
  \A i, j \in 1..Len(q) :
    q[i].kind \in Starts /\ q[j].kind \in Starts /\ q[i].gen = q[j].gen => i = j

LEMMA OnceOf ==
  ASSUME NEW q \in Seq(Items), Once(q)
  PROVE  /\ q # <<>> => /\ Once(Tail(q))
                        /\ Head(q).kind \in Starts =>
                             \A y \in Queued(Tail(q)) : y.kind \in Starts => y.gen # Head(q).gen
         /\ \A c \in Callers : Once([i \in 1..Len(q) |-> Orphaned(q[i], c)])
         /\ \A x \in Items :
              (x.kind \in Starts => \A y \in Queued(q) : y.kind \in Starts => y.gen # x.gen)
                => Once(Append(q, x))
<1>1. ASSUME q # <<>>
      PROVE  /\ Once(Tail(q))
             /\ Head(q).kind \in Starts =>
                  \A y \in Queued(Tail(q)) : y.kind \in Starts => y.gen # Head(q).gen
  <2>1. /\ Len(q) \in Nat /\ Len(q) >= 1 /\ Len(Tail(q)) = Len(q) - 1 /\ Head(q) = q[1]
        /\ \A i \in 1..(Len(q) - 1) : Tail(q)[i] = q[i + 1]
    BY <1>1
  <2>2. \A i \in 1..(Len(q) - 1) : i + 1 \in 1..Len(q) /\ i + 1 # 1
    BY <2>1
  <2>3. 1 \in 1..Len(q)
    BY <2>1
  <2>4. Once(Tail(q))
    <3>1. SUFFICES ASSUME NEW i \in 1..(Len(q) - 1), NEW j \in 1..(Len(q) - 1),
                          q[i + 1].kind \in Starts, q[j + 1].kind \in Starts,
                          q[i + 1].gen = q[j + 1].gen
                   PROVE  i = j
      BY <2>1 DEF Once
    <3>2. i + 1 = j + 1
      BY <2>2, <3>1 DEF Once
    <3> QED BY <3>2
  <2>5. ASSUME Head(q).kind \in Starts, NEW i \in 1..(Len(q) - 1), Tail(q)[i].kind \in Starts
        PROVE  Tail(q)[i].gen # Head(q).gen
    BY <2>1, <2>2, <2>3, <2>5 DEF Once
  <2> QED BY <2>1, <2>4, <2>5 DEF Queued
<1>2. ASSUME NEW c \in Callers
      PROVE  Once([i \in 1..Len(q) |-> Orphaned(q[i], c)])
  <2> DEFINE r == [i \in 1..Len(q) |-> Orphaned(q[i], c)]
  <2>1. Len(r) = Len(q)
    OBVIOUS
  <2>2. ASSUME NEW i \in 1..Len(q)
        PROVE  r[i].kind = q[i].kind /\ r[i].gen = q[i].gen
    <3>1. q[i] \in Items /\ r[i] = Orphaned(q[i], c)
      OBVIOUS
    <3> QED BY <3>1, Likeness DEF Like
  <2> HIDE DEF r
  <2>3. Once(r)
    BY <2>1, <2>2 DEF Once
  <2> QED BY <2>3 DEF r
<1>3. ASSUME NEW x \in Items,
             x.kind \in Starts => \A y \in Queued(q) : y.kind \in Starts => y.gen # x.gen
      PROVE  Once(Append(q, x))
  <2>1. /\ Len(q) \in Nat /\ Len(Append(q, x)) = Len(q) + 1 /\ Append(q, x)[Len(q) + 1] = x
        /\ \A i \in 1..Len(q) : Append(q, x)[i] = q[i]
    OBVIOUS
  <2>2. SUFFICES ASSUME NEW i \in 1..(Len(q) + 1), NEW j \in 1..(Len(q) + 1),
                        Append(q, x)[i].kind \in Starts, Append(q, x)[j].kind \in Starts,
                        Append(q, x)[i].gen = Append(q, x)[j].gen
                 PROVE  i = j
    BY <2>1 DEF Once
  <2>3. \A k \in 1..(Len(q) + 1) : k \in 1..Len(q) \/ k = Len(q) + 1
    BY <2>1
  <2>4. \A k \in 1..Len(q) : q[k] \in Queued(q)
    BY DEF Queued
  <2> QED BY <1>3, <2>1, <2>2, <2>3, <2>4 DEF Once
<1> QED BY <1>1, <1>2, <1>3

(* One start asks for the generation that an operation opens the gate for. *)
OnceInv ==
  /\ Once(urgent)
  /\ \A c \in Callers, g \in Nat : AboutToOpen(c, g) => Starting(g) = {}

(* The generation to open has not been open before.                        *)
FreshInv ==
  (\E c \in Callers : AboutToOpen(c, gate.gen)) \/ Starting(gate.gen) # {} => gate.of < gate.gen

LEMMA OnceKept ==
  ASSUME TypeOK, QueueInv, WaitInv, CallInv, OnceInv, [Next]_vars
  PROVE  OnceInv'
<1>1. /\ urgent \in Seq(Items) /\ call \in [Callers -> Calls] /\ gate.gen \in Nat
      /\ \A c \in Callers : call[c].gen \in Nat
  BY Typing DEF TypeOK
<1>2. ASSUME NEW c \in Callers, NEW g, AboutToOpen(c, g)
      PROVE  g <= gate.gen /\ g \in Nat /\ c \in Holding
  BY <1>1, <1>2 DEF AboutToOpen, CallInv, Holding
<1>3. Once(urgent')
  <2>1. CASE urgent' \in {urgent, <<>>}
    BY <2>1 DEF OnceInv, Once
  <2>2. CASE urgent # <<>> /\ urgent' = Tail(urgent)
    BY <1>1, <2>2, OnceOf DEF OnceInv
  <2>3. ASSUME NEW c \in Callers, urgent' = [i \in 1..Len(urgent) |-> Orphaned(urgent[i], c)]
        PROVE  Once(urgent')
    BY <1>1, <2>3, OnceOf DEF OnceInv
  <2>4. ASSUME NEW c \in Callers, SendUrgent(c),
               urgent' = Append(urgent, Item(call[c].op, call[c].gen, "Normal", None, c))
        PROVE  Once(urgent')
    <3> DEFINE x == Item(call[c].op, call[c].gen, "Normal", None, c)
    <3>1. x \in Items /\ x.kind = call[c].op /\ x.gen = call[c].gen
      BY <1>1, <2>4 DEF SendUrgent, Item, Items, Calls
    <3>2. call[c].op \in Starts => AboutToOpen(c, call[c].gen)
      BY <2>4 DEF SendUrgent, AboutToOpen
    <3>3. call[c].op \in Starts => Starting(call[c].gen) = {}
      BY <1>1, <3>2 DEF OnceInv
    <3>4. urgent' = Append(urgent, x)
      BY <2>4
    <3> HIDE DEF x
    <3>5. x.kind \in Starts => \A y \in Queued(urgent) : y.kind \in Starts => y.gen # x.gen
      BY <3>1, <3>3 DEF Starting
    <3> QED BY <1>1, <3>1, <3>4, <3>5, OnceOf DEF OnceInv
  <2> QED BY <2>1, <2>2, <2>3, <2>4, UrgentShapes
<1>4. ASSUME NEW c \in Callers, NEW g \in Nat, AboutToOpen(c, g)', NEW y \in Starting(g)'
      PROVE  FALSE
  <2>1. g <= gate.gen
    <3>1. ASSUME NEW z \in Starting(g)
          PROVE  g <= gate.gen
      BY <3>1 DEF Starting, QueueInv
    <3> QED BY <1>2, <3>1, StartingFrom
  <2>2. CASE AboutToOpen(c, g)
    <3>1. Starting(g) = {}
      BY <2>2 DEF OnceInv
    <3>2. y.from \in Callers /\ AboutToOpen(y.from, g) /\ Awaits(y.from)
      BY <3>1, StartingFrom
    <3>3. y.from = c
      BY <1>2, <2>2, <3>2 DEF CallInv
    <3>4. call'[c].at = "ack"
      BY <1>1, <3>2, <3>3 DEF Awaits, NoCall
    <3> QED BY <1>4, <3>4 DEF AboutToOpen
  <2>3. CASE (WorkerStarts \/ WorkerResumes) /\ Head(urgent) \in Starting(g)
    <3>1. urgent # <<>> /\ urgent' = Tail(urgent)
      BY <2>3 DEF WorkerStarts, WorkerResumes, Unboxes
    <3>2. Head(urgent).kind \in Starts /\ Head(urgent).gen = g
      BY <2>3 DEF Starting
    <3>3. y \in Queued(urgent') /\ y.kind \in Starts /\ y.gen = g
      BY DEF Starting
    <3> QED BY <1>1, <3>1, <3>2, <3>3, OnceOf DEF OnceInv
  <2> QED BY <1>1, <1>4, <2>1, <2>2, <2>3, OpensFrom
<1> QED BY <1>3, <1>4 DEF OnceInv

LEMMA FreshKept ==
  ASSUME TypeOK, Told, QueueInv, WaitInv, CallInv, OnceInv, FreshInv, [Next]_vars
  PROVE  FreshInv'
<1>1. /\ call \in [Callers -> Calls] /\ gate.gen \in Nat /\ gate'.gen \in Nat /\ gate.of \in Nat
      /\ gate.gen <= gate'.gen
  <2>1. TypeOK'
    BY Typed
  <2>2. gate'.gen \in Nat
    BY <2>1, Bounds DEF TypeOK, Gates
  <2> QED BY <2>2, Typing, Grows DEF GateGrows
<1>2. PICK now \in Nat : now = gate'.gen
  BY <1>1
<1>3. ASSUME NEW c \in Callers, Open(c), ~gate'.closed
      PROVE  (\A d \in Callers : ~AboutToOpen(d, now)') /\ Starting(now)' = {}
  <2>1. /\ c \in Holding /\ call[c].gen = now /\ AboutToOpen(c, now) /\ urgent' = urgent
        /\ call[c].at = "open"
    BY <1>2, <1>3, Opening DEF Opened, AboutToOpen
  <2>2. Starting(now)' = {}
    BY <2>1 DEF OnceInv, Starting
  <2>3. call'[c].at \notin {"send", "open"}
    <3>1. call' = [call EXCEPT ![c].at = "publish"]
      BY <1>3, Opening
    <3> QED BY <1>1, <3>1 DEF Calls
  <2>4. ASSUME NEW d \in Callers, d # c
        PROVE  call'[d].at \notin {"send", "open"}
    <3>1. call'[d] = call[d]
      BY <1>3, <2>4, OperationMoves DEF Operate
    <3> QED BY <2>1, <2>4, <3>1 DEF CallInv, Holding
  <2> QED BY <2>2, <2>3, <2>4 DEF AboutToOpen
<1>4. ASSUME (\E c \in Callers : AboutToOpen(c, now)') \/ Starting(now)' # {}, gate'.of = gate.of
      PROVE  gate'.of < now
  <2>1. CASE now = gate.gen
    <3>1. (\E c \in Callers : AboutToOpen(c, now)) \/ Starting(now) # {}
      <4>1. ASSUME NEW c \in Callers, AboutToOpen(c, now)'
            PROVE  AboutToOpen(c, now) \/ Starting(now) # {}
        BY <1>1, <2>1, <4>1, OpensFrom
      <4>2. ASSUME NEW y \in Starting(now)'
            PROVE  (\E c \in Callers : AboutToOpen(c, now)) \/ Starting(now) # {}
        BY StartingFrom
      <4> QED BY <1>4, <4>1, <4>2
    <3> QED BY <1>4, <2>1, <3>1 DEF FreshInv
  <2>2. CASE now # gate.gen
    BY <1>1, <1>2, <1>4, <2>2 DEF Told
  <2> QED BY <2>1, <2>2
<1>5. (\E c \in Callers : AboutToOpen(c, now)') \/ Starting(now)' # {} => gate'.of < now
  BY <1>3, <1>4, GateSteps
<1>6. /\ \A c \in Callers : AboutToOpen(c, gate.gen)' <=> AboutToOpen(c, now)'
      /\ Starting(gate.gen)' = Starting(now)'
  BY <1>2 DEF AboutToOpen, Starting
<1> QED BY <1>2, <1>5, <1>6 DEF FreshInv

(* A failure is forgotten when the gate opens.                             *)
LEMMA Forgetting ==
  ASSUME TypeOK, [Next]_vars, failed, ~failed'
  PROVE  \E c \in Callers :
           /\ Open(c) /\ AboutToOpen(c, gate.gen) /\ c \in Holding /\ call[c].at = "open"
           /\ ~gate'.closed /\ worker.at # "drain" /\ gate.gen # MaxGeneration
<1>1. PICK c \in Callers : Open(c) /\ call[c].epoch = worker.epoch /\ CanOpen(call[c].gen)
  BY FailSteps
<1>2. /\ call[c].at = "open" /\ call[c].gen = gate.gen /\ worker.at # "drain"
      /\ gate.gen # MaxGeneration
  BY <1>1 DEF Open, CanOpen
<1>3. ~gate'.closed
  BY <1>1 DEF Open, Opened
<1> QED BY <1>1, <1>2, <1>3 DEF AboutToOpen, Holding

(* What nobody waits for belongs to an operation that has failed.          *)
OrphanInv ==
  /\ \A x \in Starting(gate.gen) : x.from = None => failed
  /\ \A x \in Barriers : x.from = None /\ x.gen = gate.gen => failed

LEMMA OrphansKept ==
  ASSUME TypeOK, QueueInv, WaitInv, CallInv, BoundaryInv, OnceInv, OrphanInv, [Next]_vars
  PROVE  OrphanInv'
<1>1. gate.gen \in Nat /\ gate'.gen \in Nat /\ gate.gen <= gate'.gen /\ \A x \in Items : x.gen \in Nat
  <2>1. TypeOK'
    BY Typed
  <2>2. gate'.gen \in Nat
    BY <2>1, Bounds DEF TypeOK, Gates
  <2> QED BY <2>2, Typing, Grows DEF GateGrows
<1>2. TimedOut => failed'
  BY DEF TimedOut, TimesOut, Fails
<1>3. \A x \in Barriers : x.gen <= gate.gen /\ x.gen \in Nat
  BY <1>1, Typing DEF Barriers, QueueInv
<1>4. PICK now \in Nat : now = gate'.gen
  BY <1>1
<1>5. ASSUME NEW x \in Starting(now)', x.from = None
      PROVE  failed'
  <2>1. ASSUME NEW z \in Starting(now), z.from = None
        PROVE  failed'
    <3>1. now = gate.gen
      BY <1>1, <1>4, Typing DEF Starting, QueueInv
    <3>2. failed
      BY <2>1, <3>1 DEF OrphanInv
    <3>3. ASSUME NEW c \in Callers, AboutToOpen(c, gate.gen)
          PROVE  FALSE
      BY <1>1, <3>1, <3>3 DEF OnceInv
    <3> QED BY <3>2, <3>3, Forgetting
  <2> QED BY <1>2, <1>5, <2>1, StartingFrom, Bounds
<1>6. ASSUME NEW x \in Barriers', x.from = None, x.gen = now
      PROVE  failed'
  <2>1. ASSUME NEW z \in Barriers, Like(x, z), z.from = None
        PROVE  failed'
    <3>1. z.gen = gate.gen
      BY <1>1, <1>3, <1>4, <1>6, <2>1 DEF Like
    <3>2. failed
      BY <2>1, <3>1 DEF OrphanInv
    <3>3. ASSUME NEW c \in Callers, AboutToOpen(c, gate.gen)
          PROVE  FALSE
      BY <3>1, <3>3 DEF BoundaryInv
    <3> QED BY <3>2, <3>3, Forgetting
  <2>2. ASSUME NEW c \in Callers, x = Barrier(c)
        PROVE  FALSE
    BY <1>6, <2>2, Bounds DEF Barrier, Item
  <2> QED BY <1>2, <1>6, <2>1, <2>2, BarriersFrom
<1>7. Starting(gate.gen)' = Starting(now)'
  BY <1>4 DEF Starting
<1> QED BY <1>4, <1>5, <1>6, <1>7 DEF OrphanInv

(* A session that begins to capture is opened for, or an operation has     *)
(* failed.                                                                 *)
LEMMA Begun ==
  ASSUME TypeOK, QueueInv, WaitInv, CallInv, OrphanInv, [Next]_vars,
         \/ session.state # "capturing" /\ session'.state = "capturing"
         \/ session.state = "off" /\ session'.state # "off"
  PROVE  failed' \/ \E c \in Callers : c \in Holding /\ call[c].at = "ack" /\ call'[c].at = "open"
<1>1. \/ WorkerStarts /\ session.state = "off" /\ gate.gen = Head(urgent).gen
      \/ WorkerResumes /\ session.state = "stopped" /\ gate.gen = Head(urgent).gen
  <2>1. WorkerStops => session.state # "off" /\ session'.state # "capturing"
    BY DEF WorkerStops, Current, TypeOK, Sessions, Flushed
  <2> QED BY <2>1, SessionSteps, Blanks DEF SameSession
<1>2. Head(urgent) \in Starting(gate.gen) /\ Head(urgent) \in Waits /\ Head(urgent) \in Items
  BY <1>1, Unboxed DEF WorkerStarts, WorkerResumes, Starting, Starts, Waits
<1>3. Opens(Head(urgent).from, Head(urgent).gen, "Normal", None)
  BY <1>1 DEF WorkerStarts, WorkerResumes
<1>4. CASE Head(urgent).from = None
  BY <1>2, <1>3, <1>4 DEF OrphanInv, Opens
<1>5. CASE Head(urgent).from # None
  <2>1. Head(urgent).from \in Callers
    BY <1>2, <1>5 DEF Items
  <2>2. call[Head(urgent).from].at = "ack"
    BY <1>2, <1>5 DEF WaitInv, Answers
  <2>3. call'[Head(urgent).from].at = "open"
    BY <1>3, <1>5, <2>1, Typing DEF Opens
  <2> QED BY <2>1, <2>2, <2>3 DEF Holding
<1> QED BY <1>4, <1>5

(* An operation ends with the gate closed when there is nothing to         *)
(* capture.                                                                *)
LEMMA Ending ==
  ASSUME TypeOK, QueueInv, WaitInv, CallInv, [Next]_vars, NEW c \in Callers,
         call[c].at = "ack", call'[c].at = "end"
  PROVE  session'.state # "capturing"
<1> USE DEF gatev, workv, queues, callv
<1>1. call \in [Callers -> Calls] /\ call'[c] # NoCall /\ call'[c] # call[c]
  BY Typing, Blanks
<1>2. \A callers : ~Refuses(callers)
  BY <1>1 DEF Refuses
<1>3. \A from, g, pr, d : ~Opens(from, g, pr, d)
  BY <1>1 DEF Opens
<1>4. ASSUME NEW p \in Producers
      PROVE  ~Enter(p) /\ ~Records(p)
  BY <1>1 DEF Enter, Records, Count, Confirm, CloseExpired, Validate, SendDraft, DropLease
<1>5. ~Request /\ ~RequestTrace /\ ~RequestReset
  BY <1>1, Blanks DEF Request, RequestTrace, RequestReset, Begins
<1>6. ASSUME NEW d \in Callers
      PROVE  ~Expire(d) /\ ~TakeLock(d) /\ ~TimesOut(d) /\ ~Operate(d)
  <2>1. SUFFICES ASSUME Expire(d) \/ TakeLock(d) \/ TimesOut(d) \/ Operate(d)
                 PROVE  FALSE
    OBVIOUS
  <2>2. d = c
    BY <1>1, <2>1, OperationMoves
  <2>3. ~Operate(d) /\ ~Expire(d) /\ ~TakeLock(d)
    BY <2>2 DEF Operate, ShutGate, AdvanceFor, Open, Quiesce, TakeReplayLock, ReadGeneration,
                SendOrdered, SendUrgent, PublishDeadline, EndClosed, Expire, Begins, TakeLock
  <2>4. ~TimesOut(d)
    BY <1>1, <2>2 DEF TimesOut, Fails
  <2> QED BY <2>1, <2>3, <2>4
<1>7. ~WorkerStarts /\ ~WorkerResumes /\ ~WorkerRefuses /\ ~WorkerPanics /\ ~WorkerChangesProfile
  BY <1>2, <1>3 DEF WorkerStarts, WorkerResumes, WorkerRefuses, WorkerPanics, WorkerChangesProfile
<1>8. ~WorkerRecords /\ ~WorkerChecks /\ ~WorkerTicks
  BY <1>1 DEF WorkerRecords, WorkerChecks, WorkerTicks
<1>9. ~SupervisorShuts /\ ~SupervisorRecovers
  BY <1>1, <1>2 DEF SupervisorShuts, SupervisorRecovers, RejectAll
<1>10. /\ ~LingersNoMore /\ ~AskReplay /\ ~WorkerAnswers /\ ~EndReplay
       /\ ~(\E d \in Deadlines : TimePasses(d)) /\ ~UNCHANGED vars
  BY <1>1 DEF LingersNoMore, AskReplay, WorkerAnswers, EndReplay, TimePasses, vars
<1>11. WorkerStops => session'.state = "stopped"
  BY DEF WorkerStops, Flushed, TypeOK, Sessions
<1>12. WorkerResets => session' = NoSession
  BY <1>2 DEF WorkerResets
<1>13. WorkerClears => session'.state # "capturing"
  <2>1. WorkerClears => /\ session.state # "capturing"
                        /\ session' = [Discarded(OldSession(hand.from)) EXCEPT !.gen = gate.gen + 1]
    BY <1>2, <1>3 DEF WorkerClears
  <2>2. OldSession(hand.from) \in Sessions /\ OldSession(hand.from).state = session.state
    BY OldTypes DEF TypeOK, OldSession, Sessions
  <2> QED BY <2>1, <2>2 DEF Discarded, Sessions
<1> QED BY <1>4, <1>5, <1>6, <1>7, <1>8, <1>9, <1>10, <1>11, <1>12, <1>13, Blanks DEF Next, Work

Working == {"quiesce", "advance", "send", "ack"}

(* What an operation found or left of the session is still so.             *)
EndInv ==
  \A c \in Callers :
    /\ call[c].op = "start" /\ call[c].at \in Working => session.state = "off" \/ failed
    /\ call[c].op = "resume" /\ call[c].at \in Working => session.state # "capturing" \/ failed
    /\ call[c].at = "end" => session.state # "capturing" \/ failed

LEMMA EndsKept ==
  ASSUME TypeOK, QueueInv, WaitInv, CallInv, OrphanInv, EndInv, [Next]_vars
  PROVE  EndInv'
<1>1. call \in [Callers -> Calls]
  BY Typing
<1>2. SUFFICES ASSUME NEW c \in Callers
               PROVE  /\ call'[c].op = "start" /\ call'[c].at \in Working => session'.state = "off" \/ failed'
                      /\ call'[c].op = "resume" /\ call'[c].at \in Working =>
                           session'.state # "capturing" \/ failed'
                      /\ call'[c].at = "end" => session'.state # "capturing" \/ failed'
  BY DEF EndInv
<1>3. ASSUME call[c].at \in Working \union {"end"}, call'[c].at # "open"
      PROVE  /\ failed => failed'
             /\ session.state = "off" => session'.state = "off" \/ failed'
             /\ session.state # "capturing" => session'.state # "capturing" \/ failed'
  <2>1. c \in Holding
    BY <1>3 DEF Holding, Working
  <2>2. failed => failed'
    BY <1>3, <2>1, Forgetting DEF CallInv, Working
  <2>3. ~\E d \in Callers : d \in Holding /\ call[d].at = "ack" /\ call'[d].at = "open"
    BY <1>3, <2>1 DEF CallInv
  <2> QED BY <2>2, <2>3, Begun
<1>4. TakeLock(c) /\ call'[c].at = "quiesce" =>
        /\ ~Pointless(c) /\ session' = session /\ call'[c].op = call[c].op
  <2>1. Returns(c) => call'[c].at # "quiesce"
    BY <1>1, Blanks DEF Returns
  <2>2. Goes(c, "quiesce") => call'[c].op = call[c].op
    BY <1>1 DEF Goes, Calls
  <2> QED BY <2>1, <2>2 DEF TakeLock, workv
<1>5. Moves(c)
  BY CallSteps
<1>6. ASSUME call'[c].op \in Starts, call'[c].at \in Working
      PROVE  \/ TakeLock(c) /\ call'[c].at = "quiesce"
             \/ call[c].at \in Working /\ call'[c].op = call[c].op
  BY <1>5, <1>6, Blanks DEF Moves, CallInv, Starts, Ordered, Working
<1>7. ASSUME call'[c].op = "start", call'[c].at \in Working
      PROVE  session'.state = "off" \/ failed'
  <2>1. CASE TakeLock(c) /\ call'[c].at = "quiesce"
    BY <1>4, <1>7, <2>1 DEF Pointless
  <2>2. CASE call[c].at \in Working /\ call'[c].op = call[c].op
    BY <1>3, <1>7, <2>2 DEF EndInv, Working
  <2> QED BY <1>6, <1>7, <2>1, <2>2 DEF Starts
<1>8. ASSUME call'[c].op = "resume", call'[c].at \in Working
      PROVE  session'.state # "capturing" \/ failed'
  <2>1. CASE TakeLock(c) /\ call'[c].at = "quiesce"
    BY <1>4, <1>8, <2>1 DEF Pointless
  <2>2. CASE call[c].at \in Working /\ call'[c].op = call[c].op
    BY <1>3, <1>8, <2>2 DEF EndInv, Working
  <2> QED BY <1>6, <1>8, <2>1, <2>2 DEF Starts
<1>9. ASSUME call'[c].at = "end"
      PROVE  session'.state # "capturing" \/ failed'
  <2>1. CASE call'[c] = call[c]
    BY <1>3, <1>9, <2>1 DEF EndInv
  <2>2. CASE call[c].at = "ack"
    BY <1>9, <2>2, Ending
  <2> QED BY <1>5, <1>9, <2>1, <2>2, Blanks DEF Moves
<1> QED BY <1>7, <1>8, <1>9

(* A reset that is over has left nothing to capture, or has failed.        *)
LEMMA ResetOver ==
  ASSUME TypeOK, QueueInv, WaitInv, CallInv, EndInv, [Next]_vars, ResetOn, ~ResetOn'
  PROVE  failed' \/ (session.state # "capturing" /\ session' = session)
<1>1. PICK c \in Callers : call[c].op = "reset"
  BY DEF ResetOn
<1>2. call[c].at # "idle" /\ call'[c] = NoCall
  <2>1. Moves(c) /\ call'[c].op # "reset"
    BY CallSteps DEF ResetOn
  <2> QED BY <1>1, <2>1 DEF Moves, CallInv
<1>3. ~(TakeLock(c) /\ Pointless(c)) /\ ~PublishDeadline(c)
  BY <1>1 DEF Pointless, PublishDeadline, CallInv
<1>4. EndClosed(c) => failed' \/ (session.state # "capturing" /\ session' = session)
  BY DEF EndClosed, EndInv, Returns, workv
<1> QED BY <1>2, <1>3, <1>4, Leaving

(* The session falls behind the gate when an operation fails, or while a   *)
(* reset is on.                                                            *)
BehindInv == session.state = "capturing" /\ session.gen # gate.gen => failed \/ ResetOn

LEMMA BehindKept ==
  ASSUME TypeOK, QueueInv, WaitInv, CallInv, GateInv, OpenInv, EndInv, BehindInv, [Next]_vars
  PROVE  BehindInv'
<1>1. gate.gen \in Nat /\ session \in Sessions /\ gate \in Gates /\ call \in [Callers -> Calls]
  BY Typing
<1>2. SUFFICES ASSUME session'.state = "capturing", session'.gen # gate'.gen, ~failed', ~ResetOn'
               PROVE  FALSE
  BY DEF BehindInv
<1>3. CASE SameSession
  <2>1. session.state = "capturing" /\ session.gen = session'.gen /\ worker.at # "panicked"
    BY <1>2, <1>3 DEF SameSession, GateInv
  <2>2. CASE failed /\ gate'.gen = gate.gen
    <3>1. PICK c \in Callers : AboutToOpen(c, gate.gen) /\ call[c].at = "open" /\ gate.gen # MaxGeneration
      BY <1>2, <2>2, Forgetting
    <3> QED BY <1>2, <2>1, <2>2, <3>1 DEF OpenInv, AboutToOpen
  <2>3. CASE ResetOn
    BY <1>2, <2>1, <2>3, ResetOver
  <2>4. CASE gate'.gen # gate.gen
    <3>1. ASSUME NEW c \in Callers, ShutGate(c), gate.gen < MaxGeneration
          PROVE  FALSE
      <4>1. call[c].op = "reset" /\ call' = [call EXCEPT ![c].at = "lock", ![c].gen = gate.gen + 1]
        BY <3>1 DEF ShutGate, CallInv
      <4> QED BY <1>1, <1>2, <4>1 DEF ResetOn, Calls
    <3>2. ASSUME NEW c \in Callers, AdvanceFor(c), CanAdvance
          PROVE  FALSE
      <4>1. call[c].op \in {"start", "resume"} /\ call[c].at = "advance" /\ failed' = failed
        BY <3>2 DEF AdvanceFor, CallInv, Starts
      <4> QED BY <1>2, <2>1, <4>1 DEF EndInv, Working
    <3>3. ~Cleared
      <4>1. Cleared => gate' = Advanced /\ CanAdvance
                       /\ session' = [Discarded(OldSession(hand.from)) EXCEPT !.gen = gate.gen + 1]
        BY DEF Cleared, WorkerClears
      <4>2. Discarded(OldSession(hand.from)) \in Sessions
        BY <1>1, OldTypes DEF Discarded, Sessions
      <4>3. Cleared => session'.gen = gate'.gen
        BY <1>1, <4>1, <4>2, GateTypes DEF CanAdvance, Sessions
      <4> QED BY <1>2, <4>3
    <3>4. ~Changed
      <4>1. Changed => gate' = Advanced /\ CanAdvance
                       /\ session' = [session EXCEPT !.profile = hand.profile, !.gen = gate.gen + 1]
        BY DEF Changed, WorkerChangesProfile
      <4>2. Changed => session'.gen = gate'.gen
        BY <1>1, <4>1, GateTypes DEF CanAdvance, Sessions
      <4> QED BY <1>2, <4>2
    <3>5. ~SupervisorShuts
      BY <2>1 DEF SupervisorShuts
    <3> QED BY <2>4, <3>1, <3>2, <3>3, <3>4, <3>5, GenSteps
  <2> QED BY <1>2, <2>1, <2>2, <2>3, <2>4 DEF BehindInv
<1> QED BY <1>1, <1>2, <1>3, SessionSteps, Blanks

-----------------------------------------------------------------------------
(* The stored deadline.                                                    *)

(* What is stored is of an earlier opening than what is about to be.       *)
PublishInv ==
  /\ stored # None => stored.gen <= gate.of
  /\ \A c \in Callers : call[c].at = "publish" =>
       call[c].gen <= gate.of /\ (stored # None => stored.gen < call[c].gen)

Published == IF gate.deadline = None THEN None ELSE [gen |-> gate.gen, deadline |-> gate.deadline]

(* While the gate is open the deadline it was opened with is stored, or    *)
(* about to be.                                                            *)
StoredInv ==
  ~gate.closed =>
    /\ \A c \in Callers : call[c].at = "publish" =>
         call[c].gen = gate.gen /\ call[c].deadline = gate.deadline
    /\ (\A c \in Callers : call[c].at # "publish") => stored = Published

(* An operation publishes after it has opened the gate.                    *)
LEMMA Publishing ==
  ASSUME TypeOK, QueueInv, WaitInv, CallInv, NEW c \in Callers, call'[c].at = "publish", [Next]_vars
  PROVE  \/ call'[c] = call[c]
         \/ Open(c) /\ ~gate'.closed
<1>1. Moves(c)
  BY CallSteps
<1>2. call \in [Callers -> Calls]
  BY Typing
<1>3. Open(c) => ~gate'.closed
  <2>1. Fails(c) => call'[c] = NoCall
    BY <1>2 DEF Fails
  <2> QED BY <2>1, Blanks DEF Open, Opened
<1> QED BY <1>1, <1>3, Blanks DEF Moves

LEMMA PublishKept ==
  ASSUME TypeOK, Told, QueueInv, WaitInv, CallInv, FreshInv, PublishInv, [Next]_vars
  PROVE  PublishInv'
<1>1. /\ call \in [Callers -> Calls] /\ gate.gen \in Nat /\ gate.of \in Nat /\ gate'.of \in Nat
      /\ gate.of <= gate'.of
      /\ stored # None => stored.gen \in Nat
      /\ \A c \in Callers : call[c].gen \in Nat
  <2>1. TypeOK'
    BY Typed
  <2>2. gate'.of \in Nat
    BY <2>1, Bounds DEF TypeOK, Gates
  <2>3. gate.of <= gate'.of
    BY <2>2, Typing, GateSteps DEF Told
  <2> QED BY <2>2, <2>3, Typing, Bounds DEF TypeOK
<1>2. ASSUME NEW c \in Callers, PublishDeadline(c)
      PROVE  /\ stored' # None => stored'.gen = call[c].gen
             /\ call[c].gen <= gate.of
             /\ \A d \in Callers : call'[d].at # "publish"
  <2>1. call[c].at = "publish" /\ call' = [call EXCEPT ![c] = NoCall]
    BY <1>2 DEF PublishDeadline, Returns
  <2>2. \A d \in Callers : d # c => call[d].at # "publish"
    BY <2>1 DEF CallInv, Holding
  <2>3. \A d \in Callers : call'[d].at # "publish"
    BY <1>1, <2>1, <2>2, Blanks
  <2>4. stored' # None => stored'.gen = call[c].gen
    BY <1>2 DEF PublishDeadline
  <2> QED BY <2>1, <2>3, <2>4 DEF PublishInv
<1>3. \/ stored' = stored \/ stored' = None
      \/ \E c \in Callers : PublishDeadline(c)
  BY StoredSteps DEF EndClosed
<1>4. ASSUME stored' # None
      PROVE  stored'.gen <= gate'.of
  <2>1. CASE stored' = stored
    <3>1. stored # None /\ stored'.gen = stored.gen
      BY <1>4, <2>1
    <3>2. stored.gen <= gate.of
      BY <3>1 DEF PublishInv
    <3> QED BY <1>1, <3>1, <3>2
  <2>2. ASSUME NEW c \in Callers, PublishDeadline(c)
        PROVE  stored'.gen <= gate'.of
    <3>1. stored'.gen = call[c].gen /\ call[c].gen <= gate.of
      BY <1>2, <1>4, <2>2
    <3> QED BY <1>1, <3>1
  <2> QED BY <1>3, <1>4, <2>1, <2>2
<1>5. ASSUME NEW c \in Callers, call'[c].at = "publish"
      PROVE  call'[c].gen <= gate'.of /\ (stored' # None => stored'.gen < call'[c].gen)
  <2>1. stored' = stored \/ stored' = None
    BY <1>2, <1>3, <1>5
  <2>2. CASE call'[c] = call[c]
    <3>1. call[c].at = "publish" /\ call'[c].gen = call[c].gen
      BY <1>5, <2>2
    <3>2. call[c].gen <= gate.of /\ (stored # None => stored.gen < call[c].gen)
      BY <3>1 DEF PublishInv
    <3>3. call'[c].gen <= gate'.of
      BY <1>1, <3>1, <3>2
    <3> QED BY <2>1, <3>1, <3>2, <3>3
  <2>3. CASE Open(c) /\ ~gate'.closed
    <3>1. /\ call' = [call EXCEPT ![c].at = "publish"] /\ call[c].gen = gate.gen
          /\ gate'.of = gate.gen /\ call[c].at = "open"
      BY <2>3, Opening DEF Opened
    <3>2. call'[c].gen = gate.gen
      BY <1>1, <3>1 DEF Calls
    <3>3. gate.of < gate.gen
      BY <3>1 DEF FreshInv, AboutToOpen
    <3> QED BY <1>1, <2>1, <3>1, <3>2, <3>3 DEF PublishInv
  <2> QED BY <1>5, <2>2, <2>3, Publishing
<1> QED BY <1>4, <1>5 DEF PublishInv

LEMMA StoredKept ==
  ASSUME TypeOK, QueueInv, WaitInv, CallInv, StoredInv, [Next]_vars
  PROVE  StoredInv'
<1>1. call \in [Callers -> Calls]
  BY Typing
<1>2. SUFFICES ASSUME ~gate'.closed
               PROVE  /\ \A c \in Callers : call'[c].at = "publish" =>
                           call'[c].gen = gate'.gen /\ call'[c].deadline = gate'.deadline
                      /\ (\A c \in Callers : call'[c].at # "publish") => stored' = Published'
  BY DEF StoredInv
<1>3. CASE ~gate.closed /\ gate'.gen = gate.gen /\ gate'.deadline = gate.deadline
  <2>1. ASSUME NEW c \in Callers, call'[c].at = "publish"
        PROVE  call'[c].gen = gate'.gen /\ call'[c].deadline = gate'.deadline
    <3>1. call'[c] = call[c]
      BY <1>2, <1>3, <2>1, Publishing, Opening
    <3> QED BY <1>3, <2>1, <3>1 DEF StoredInv
  <2>2. ASSUME \A c \in Callers : call'[c].at # "publish"
        PROVE  stored' = Published
    <3>1. CASE \E c \in Callers : call[c].at = "publish"
      <4>1. PICK c \in Callers : call[c].at = "publish"
        BY <3>1
      <4>2. Moves(c)
        BY CallSteps
      <4>3. call'[c] = NoCall
        BY <2>2, <4>1, <4>2, Blanks DEF Moves
      <4>4. PublishDeadline(c)
        BY <4>1, <4>3, Leaving DEF TakeLock, EndClosed
      <4> QED BY <1>3, <4>1, <4>4 DEF PublishDeadline, StoredInv, Published
    <3>2. CASE \A c \in Callers : call[c].at # "publish"
      <4>1. stored = Published
        BY <1>3, <3>2 DEF StoredInv
      <4>2. ASSUME NEW c \in Callers
            PROVE  ~ShutGate(c) /\ ~PublishDeadline(c) /\ ~EndClosed(c)
        <5>1. ShutGate(c) => gate'.closed
          BY GateTypes DEF ShutGate, TypeOK
        <5>2. ~EndClosed(c)
          BY <1>3 DEF EndClosed, CallInv, Holding
        <5> QED BY <1>2, <3>2, <5>1, <5>2 DEF PublishDeadline
      <4>3. ~SupervisorShuts
        BY <1>2, GateTypes DEF SupervisorShuts, TypeOK
      <4> QED BY <1>3, <4>1, <4>2, <4>3, StoredSteps
    <3> QED BY <3>1, <3>2
  <2>3. Published' = Published
    BY <1>3 DEF Published
  <2> QED BY <2>1, <2>2, <2>3
<1>4. ASSUME NEW c \in Callers, Open(c)
      PROVE  /\ call'[c].at = "publish"
             /\ \A d \in Callers : call'[d].at = "publish" =>
                  call'[d].gen = gate'.gen /\ call'[d].deadline = gate'.deadline
  <2>1. /\ call' = [call EXCEPT ![c].at = "publish"] /\ call[c].gen = gate.gen
        /\ gate' = Opened(call[c].gen, call[c].profile, call[c].deadline)
        /\ c \in Holding
    BY <1>2, <1>4, Opening
  <2>2. /\ call'[c].at = "publish" /\ call'[c].gen = call[c].gen /\ call'[c].deadline = call[c].deadline
    BY <1>1, <2>1 DEF Calls
  <2>3. \A d \in Callers : d # c => call'[d].at # "publish"
    BY <1>1, <2>1 DEF CallInv, Holding
  <2> QED BY <2>1, <2>2, <2>3 DEF Opened
<1> QED BY <1>2, <1>3, <1>4, GateSteps

-----------------------------------------------------------------------------
(* A capture does not stop silently.                                       *)

(* The operation that has opened the gate has not stored the deadline yet, *)
(* and it has passed.                                                      *)
Overdue(c) == call[c].at = "publish" /\ call[c].gen = gate.gen /\ call[c].deadline \in past

(* Who knows of a capturing session behind a closed gate, when no reset is *)
(* on and no operation has failed.                                         *)
SilentInv ==
  session.state = "capturing" /\ gate.closed /\ ~ResetOn /\ ~failed =>
    \/ \E c \in Holding : call[c].at # "publish"
    \/ \E c \in Callers : Overdue(c)
    \/ Due

LEMMA ShutSteps ==
  ASSUME TypeOK, CallInv, NEW c \in Callers, ShutGate(c)
  PROVE  ResetOn' \/ failed'
<1>1. call \in [Callers -> Calls] /\ call[c].op = "reset"
  BY Typing DEF ShutGate, CallInv
<1>2. CASE gate.gen < MaxGeneration
  <2>1. call' = [call EXCEPT ![c].at = "lock", ![c].gen = gate.gen + 1]
    BY <1>2 DEF ShutGate
  <2>2. call'[c].op = "reset"
    BY <1>1, <2>1 DEF Calls
  <2> QED BY <2>2 DEF ResetOn
<1>3. CASE ~(gate.gen < MaxGeneration)
  BY <1>3 DEF ShutGate, Fails
<1> QED BY <1>2, <1>3

(* The gate closes over a capture.                                         *)
LEMMA SilentClosing ==
  ASSUME TypeOK, LeaseOfItsGeneration, QueueInv, WaitInv, CallInv, GateInv, StoredInv, [Next]_vars,
         ~gate.closed, gate'.closed, session'.state = "capturing", ~ResetOn', ~failed',
         \A c \in Callers : c \in Holding' => call'[c].at = "publish"
  PROVE  (\E c \in Callers : Overdue(c)') \/ Due'
<1> USE DEF gatev, workv, queues, callv
<1>1. gate \in Gates /\ call \in [Callers -> Calls] /\ past \subseteq Deadlines /\ None \notin Deadlines
  BY Typing, RecorderAssumption DEF TypeOK
<1>2. ASSUME NEW p \in Producers, CloseExpired(p)
      PROVE  (\E c \in Callers : Overdue(c)') \/ Due'
  <2>1. /\ stored' = stored /\ past' = past /\ call' = call
        /\ gate' = [gate EXCEPT !.closed = TRUE] /\ producer[p].at = "leased" /\ TraceOver(p)
    BY <1>2 DEF CloseExpired
  <2>2. gate.deadline \in past /\ gate.deadline # None /\ gate'.gen = gate.gen
    BY <1>1, <2>1 DEF LeaseOfItsGeneration, TraceOver, Gates
  <2>3. ASSUME NEW c \in Callers, call[c].at = "publish"
        PROVE  Overdue(c)'
    <3>1. call[c].gen = gate.gen /\ call[c].deadline = gate.deadline
      BY <2>3 DEF StoredInv
    <3> QED BY <2>1, <2>2, <2>3, <3>1 DEF Overdue
  <2>4. ASSUME \A c \in Callers : call[c].at # "publish"
        PROVE  Due'
    <3>1. stored = [gen |-> gate.gen, deadline |-> gate.deadline]
      BY <2>2, <2>4 DEF StoredInv, Published
    <3>2. stored # None
      BY <3>1, <1>1, <2>2, RecorderAssumption DEF Gates, Generations
    <3> QED BY <2>1, <2>2, <3>1, <3>2 DEF Due
  <2> QED BY <2>3, <2>4
<1>3. ASSUME NEW c \in Callers, TakeLock(c), ~Pointless(c)
      PROVE  FALSE
  <2>1. call' = [call EXCEPT ![c].at = "quiesce"]
    BY <1>3 DEF TakeLock, Goes
  <2>2. call'[c].at = "quiesce"
    BY <1>1, <2>1 DEF Calls
  <2> QED BY <2>2 DEF Holding
<1>4. ~SupervisorShuts
  BY DEF SupervisorShuts, GateInv
<1> QED BY <1>2, <1>3, <1>4, ShutSteps, ClosingSteps

(* A holder of the lifecycle lock goes on, fails, or ends.                 *)
LEMMA HolderGoesOn ==
  ASSUME TypeOK, QueueInv, WaitInv, CallInv, EndInv, [Next]_vars, gate'.closed,
         session.state = "capturing", ~failed, ~failed',
         NEW c \in Callers, c \in Holding, call[c].at # "publish"
  PROVE  c \in Holding' /\ call'[c].at # "publish"
<1>1. call'[c].at # "publish"
  BY Publishing
<1>2. call'[c] # NoCall
  <2>1. ~TakeLock(c) /\ ~PublishDeadline(c) /\ ~EndClosed(c)
    BY DEF TakeLock, PublishDeadline, EndClosed, Holding, EndInv
  <2> QED BY <2>1, Leaving DEF Holding
<1>3. Moves(c)
  BY CallSteps
<1>4. call'[c].at \notin {"idle", "shut", "lock"}
  BY <1>2, <1>3 DEF Moves, Holding
<1> QED BY <1>1, <1>4 DEF Holding

(* The generation does not move behind a closed gate unless somebody       *)
(* knows.                                                                  *)
LEMMA SilentGeneration ==
  ASSUME TypeOK, QueueInv, WaitInv, CallInv, HandInv, GateInv, OrphanInv, BehindInv, [Next]_vars,
         session.state = "capturing", ~ResetOn, ~ResetOn', ~failed, ~failed',
         \A c \in Callers : c \in Holding' => call'[c].at = "publish"
  PROVE  gate'.gen = gate.gen
<1> USE DEF gatev, workv, queues, callv
<1>1. call \in [Callers -> Calls] /\ hand \in Items
  BY Typing
<1>2. ASSUME NEW c \in Callers, AdvanceFor(c), CanAdvance
      PROVE  FALSE
  <2>1. call' = [call EXCEPT ![c].at = "send", ![c].gen = gate.gen + 1]
    BY <1>2 DEF AdvanceFor
  <2>2. call'[c].at = "send"
    BY <1>1, <2>1 DEF Calls
  <2> QED BY <2>2 DEF Holding
<1>3. hand.kind \in {"clear", "profile"} => hand.from # None
  <2>1. SUFFICES ASSUME hand.kind \in {"clear", "profile"}, hand.from = None
                 PROVE  FALSE
    OBVIOUS
  <2>2. hand.gen = gate.gen
    BY <2>1 DEF HandInv, BehindInv
  <2>3. hand \in Barriers
    BY <2>1 DEF Barriers, Ordered
  <2> QED BY <2>1, <2>2, <2>3 DEF OrphanInv
<1>4. ASSUME NEW g, NEW pr, NEW d, Opens(hand.from, g, pr, d), hand.from # None
      PROVE  FALSE
  <2>1. hand.from \in Callers
    BY <1>1, <1>4 DEF Items
  <2>2. call'[hand.from].at = "open"
    BY <1>1, <1>4, <2>1 DEF Opens
  <2>3. hand.from \in Holding'
    BY <2>1, <2>2 DEF Holding
  <2> QED BY <2>1, <2>2, <2>3
<1>5. ~Cleared
  <2>1. Cleared => hand.kind = "clear" /\ Opens(hand.from, gate.gen + 1, session.profile, hand.deadline)
    BY DEF Cleared, WorkerClears, WorkerAdvances
  <2> QED BY <1>3, <1>4, <2>1
<1>6. ~Changed
  <2>1. Changed => hand.kind = "profile" /\ Opens(hand.from, gate.gen + 1, hand.profile, hand.deadline)
    BY DEF Changed, WorkerChangesProfile, WorkerAdvances
  <2> QED BY <1>3, <1>4, <2>1
<1>7. ~SupervisorShuts
  BY DEF SupervisorShuts, GateInv
<1> QED BY <1>2, <1>5, <1>6, <1>7, ShutSteps, GenSteps

LEMMA SilentKept ==
  ASSUME TypeOK, Told, LeaseOfItsGeneration, QueueInv, WaitInv, CallInv, HandInv, GateInv, OrphanInv,
         EndInv, BehindInv, PublishInv, StoredInv, SilentInv, [Next]_vars
  PROVE  SilentInv'
<1> USE DEF gatev, workv, queues, callv
<1>1. SUFFICES ASSUME session'.state = "capturing", gate'.closed, ~ResetOn', ~failed',
                      \A c \in Callers : c \in Holding' => call'[c].at = "publish"
               PROVE  (\E c \in Callers : Overdue(c)') \/ Due'
  BY DEF SilentInv, Holding
<1>2. CASE ~gate.closed
  BY <1>1, <1>2, SilentClosing
<1>3. CASE gate.closed
  <2>1. session.state = "capturing"
    <3>1. ASSUME NEW c \in Callers, call'[c].at = "open"
          PROVE  FALSE
      BY <1>1, <3>1 DEF Holding
    <3> QED BY <1>1, <3>1, Begun
  <2>2. ~failed
    BY <1>1, Forgetting
  <2>3. ~ResetOn
    BY <1>1, <2>1, ResetOver
  <2>4. gate'.gen = gate.gen
    BY <1>1, <2>1, <2>2, <2>3, SilentGeneration
  <2>5. ASSUME NEW c \in Callers, c \in Holding, call[c].at # "publish"
        PROVE  FALSE
    BY <1>1, <2>1, <2>2, <2>5, HolderGoesOn
  <2>6. ASSUME NEW c \in Callers, Overdue(c)
        PROVE  Overdue(c)' \/ Due'
    <3>1. call[c].at = "publish" /\ call[c].gen = gate.gen /\ call[c].deadline \in past
      BY <2>6 DEF Overdue
    <3>2. CASE call'[c] = call[c]
      <4>1. call[c].deadline \in past'
        BY <3>1, PastSteps DEF InUse
      <4> QED BY <2>4, <3>1, <3>2, <4>1 DEF Overdue
    <3>3. CASE call'[c] = NoCall
      <4>1. PublishDeadline(c)
        BY <3>1, <3>3, Leaving DEF TakeLock, EndClosed
      <4>2. call[c].deadline # None /\ call[c].gen \in Generations /\ call[c].deadline \in Deadlines
        <5>1. call[c] \in Calls /\ past \subseteq Deadlines
          BY Typing DEF TypeOK
        <5> QED BY <3>1, <5>1, RecorderAssumption DEF Calls
      <4>3. /\ stored' = [gen |-> call[c].gen, deadline |-> call[c].deadline]
            /\ past' = past /\ gate' = gate
        BY <4>1, <4>2 DEF PublishDeadline
      <4>4. stored' # None
        BY <4>2, <4>3, RecorderAssumption DEF Generations
      <4> QED BY <3>1, <4>3, <4>4 DEF Due
    <3>4. Moves(c)
      BY CallSteps
    <3> QED BY <3>1, <3>2, <3>3, <3>4 DEF Moves
  <2>7. ASSUME Due
        PROVE  Due'
    <3>1. stored # None /\ stored.gen = gate.gen /\ stored.deadline \in past
      BY <2>7 DEF Due
    <3>2. stored.deadline \in past'
      BY <3>1, PastSteps DEF InUse
    <3>3. ASSUME NEW c \in Callers, PublishDeadline(c)
          PROVE  FALSE
      <4>1. call[c].gen <= gate.of /\ gate.gen < call[c].gen
        BY <3>1, <3>3 DEF PublishInv, PublishDeadline
      <4> QED BY <4>1, Typing DEF Told
    <3>4. ASSUME NEW c \in Callers, EndClosed(c)
          PROVE  FALSE
      BY <2>1, <2>2, <3>4 DEF EndClosed, EndInv
    <3>5. ~SupervisorShuts
      BY <2>1 DEF SupervisorShuts, GateInv
    <3>6. session' # NoSession
      BY <1>1, Blanks
    <3>7. stored' = stored
      BY <1>1, <3>3, <3>4, <3>5, <3>6, ShutSteps, StoredSteps
    <3> QED BY <2>4, <3>1, <3>2, <3>7 DEF Due
  <2> QED BY <1>3, <2>1, <2>2, <2>3, <2>5, <2>6, <2>7 DEF SilentInv, Holding
<1> QED BY <1>2, <1>3

-----------------------------------------------------------------------------
(* The inductive invariant.                                                *)

(* Who waits for what, and who may open the gate.                          *)
ProtocolInv ==
  /\ TypeOK /\ Told /\ LeaseInv /\ LeaseOfItsGeneration
  /\ QueueInv /\ WaitInv /\ CallInv /\ AnswerComes
  /\ HandInv /\ GateInv /\ OpenInv /\ BoundaryInv /\ OpenMatchesSession

(* What a boundary has left behind.                                        *)
PrivacyInv == AgeInv /\ ReplayInv /\ NothingSurvives

(* Who knows why the gate is closed.                                       *)
CaptureInv ==
  /\ OnceInv /\ FreshInv /\ OrphanInv /\ EndInv /\ BehindInv
  /\ PublishInv /\ StoredInv /\ SilentInv

IInv == ProtocolInv /\ PrivacyInv /\ CaptureInv

LEMMA InitProtocol == Init => ProtocolInv
<1> SUFFICES ASSUME Init
             PROVE  ProtocolInv
  OBVIOUS
<1>1. TypeOK
  BY InitTyped
<1>2. /\ gate.closed /\ gate.gen = 0 /\ gate.of = 0 /\ stored = None /\ session = NoSession
      /\ worker.at = "ready" /\ hand = NoItem /\ \A c \in Callers : call[c] = NoCall
      /\ \A p \in Producers : producer[p] = NoLease
  BY DEF Init
<1>3. Queued(ingress) = {} /\ Queued(urgent) = {} /\ Single(ingress) /\ Single(urgent)
  BY EmptyOf DEF Init
<1>4. Told /\ LeaseInv /\ LeaseOfItsGeneration
  BY <1>2, Blanks DEF Told, LeaseInv, LeaseOfItsGeneration
<1>5. QueueInv /\ WaitInv /\ CallInv /\ AnswerComes
  BY <1>2, <1>3, Blanks DEF QueueInv, WaitInv, Waits, CallInv, Holding, AnswerComes
<1>6. HandInv /\ GateInv /\ OpenInv /\ OpenMatchesSession
  BY <1>2, Blanks DEF HandInv, GateInv, OpenInv, OpenMatchesSession
<1>7. BoundaryInv
  BY <1>2, <1>3, Blanks DEF BoundaryInv, Barriers, Ordered, Resetting, AboutToOpen, Starting
<1> QED BY <1>1, <1>4, <1>5, <1>6, <1>7 DEF ProtocolInv

LEMMA InitRest == Init => PrivacyInv /\ CaptureInv
<1> SUFFICES ASSUME Init
             PROVE  PrivacyInv /\ CaptureInv
  OBVIOUS
<1>1. /\ gate.closed /\ stored = None /\ session = NoSession /\ query = NoQuery /\ hand = NoItem
      /\ \A c \in Callers : call[c] = NoCall
      /\ \A p \in Producers : producer[p] = NoLease
  BY DEF Init
<1>2. Queued(ingress) = {} /\ Queued(urgent) = {} /\ Once(urgent)
  BY EmptyOf DEF Init, Once
<1>3. AgeInv /\ ReplayInv /\ NothingSurvives
  BY <1>1, <1>2, Blanks DEF AgeInv, Drafts, Sending, ReplayInv, NothingSurvives
<1>4. OnceInv /\ FreshInv /\ OrphanInv
  BY <1>1, <1>2, Blanks
     DEF OnceInv, FreshInv, OrphanInv, AboutToOpen, Starting, Barriers, Ordered
<1>5. EndInv /\ BehindInv /\ PublishInv /\ StoredInv /\ SilentInv
  BY <1>1, Blanks DEF EndInv, BehindInv, PublishInv, StoredInv, SilentInv
<1> QED BY <1>3, <1>4, <1>5 DEF PrivacyInv, CaptureInv

LEMMA Steps == IInv /\ [Next]_vars => IInv'
<1> SUFFICES ASSUME IInv, [Next]_vars
             PROVE  IInv'
  OBVIOUS
<1> USE DEF IInv, ProtocolInv, PrivacyInv, CaptureInv
<1>1. TypeOK' /\ Told' /\ LeaseInv' /\ LeaseOfItsGeneration'
  BY Typed, LeasesKept
<1>2. QueueInv' /\ WaitInv' /\ CallInv' /\ AnswerComes'
  BY QueuesKept, WaitsKept, CallsKept, AnswersKept
<1>3. HandInv' /\ GateInv' /\ OpenInv'
  BY HandKept, GateKept, OpensKept
<1>4. BoundaryInv' /\ OpenMatchesSession'
  BY BoundariesKept, MatchesKept
<1>5. AgeInv' /\ ReplayInv' /\ NothingSurvives'
  BY AgesKept, ReplaysKept, SurvivesKept
<1>6. OnceInv' /\ FreshInv' /\ OrphanInv' /\ EndInv' /\ BehindInv'
  BY OnceKept, FreshKept, OrphansKept, EndsKept, BehindKept
<1>7. PublishInv' /\ StoredInv' /\ SilentInv'
  BY PublishKept, StoredKept, SilentKept
<1> QED BY <1>1, <1>2, <1>3, <1>4, <1>5, <1>6, <1>7

LEMMA Always == Spec => []IInv
<1>1. Init => IInv
  BY InitProtocol, InitRest DEF IInv
<1> QED BY <1>1, Steps, PTL DEF Spec

(* Every variable keeps its type: the gate's word, the worker's session,   *)
(* what is queued, and every lease and operation.                          *)
THEOREM RecorderTypes == Spec => []TypeOK
<1>1. IInv => TypeOK
  BY DEF IInv, ProtocolInv
<1> QED BY <1>1, Always, PTL

(* A producer that holds a lease has the profile and the deadline that the *)
(* gate published with the generation it was admitted for, whoever closes  *)
(* the gate or advances the generation meanwhile (gate.rs, try_admit).     *)
THEOREM LeasesOfTheirGeneration == Spec => []LeaseOfItsGeneration
<1>1. IInv => LeaseOfItsGeneration
  BY DEF IInv, ProtocolInv
<1> QED BY <1>1, Always, PTL

(* The gate is open only for a worker that captures with the same          *)
(* generation and the same profile: no order of operations, resets,        *)
(* panics and time limits lets a stale answer of the worker open it        *)
(* (lifecycle.rs, apply_open_ack; gate.rs, open_if_generation).            *)
THEOREM OpenGatesMatch == Spec => []OpenMatchesSession
<1>1. IInv => OpenMatchesSession
  BY DEF IInv, ProtocolInv
<1> QED BY <1>1, Always, PTL

(* No operation waits for an answer that nobody will give: its command is  *)
(* queued, in the worker's hands, or a panic is about to refuse it         *)
(* (worker.rs, drain_ingress and reject_all).                              *)
THEOREM AnswersCome == Spec => []AnswerComes
<1>1. IInv => AnswerComes
  BY DEF IInv, ProtocolInv
<1> QED BY <1>1, Always, PTL

(* Once a reset or a clear has been acknowledged, nothing admitted before  *)
(* it is in the session, in a batch for the user interface or in an answer *)
(* that is still being serialized, nor does it come back from a queue      *)
(* (lifecycle.rs, hard_reset and clear).                                   *)
THEOREM NothingOldSurvives == Spec => []NothingSurvives
<1>1. IInv => NothingSurvives
  BY DEF IInv, PrivacyInv
<1> QED BY <1>1, Always, PTL

(* When the gate is closed over a session that captures and nobody is at   *)
(* work, an operation has reported a failure since the gate was last open  *)
(* or the expiry of a Trace will be found due (lifecycle.rs,               *)
(* expire_trace_if_due).                                                   *)
THEOREM CaptureStopsLoudly == Spec => []NoSilentStop
<1>1. SilentInv => NoSilentStop
  BY DEF SilentInv, NoSilentStop, ResetOn, Overdue, Holding
<1>2. IInv => SilentInv
  BY DEF IInv, CaptureInv
<1> QED BY <1>1, <1>2, Always, PTL
=============================================================================
