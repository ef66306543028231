----------------------- MODULE AttachmentStagingProofs -----------------------
(***************************************************************************)
(* Theorems about AttachmentStaging, for every set of tokens, every set of *)
(* sizes and any number of sessions.                                       *)
(***************************************************************************)
EXTENDS AttachmentStaging, FiniteSetTheorems, TLAPS

USE DEF session, memory, owned, disk, registry, retry, outbox, work, At, In,
        Goes, Fresh

-----------------------------------------------------------------------------
(* The budget's operators keep budgets and leases in their types.          *)
LEMMA LeaseForType ==
  ASSUME NEW bytes \in Sizes
  PROVE  LeaseFor(bytes) \in Leases
  BY DEF LeaseFor, LaneOf, Leases, Lanes

LEMMA BytesType ==
  ASSUME NEW l \in Leases
  PROVE  l.bytes \in Nat
  BY BudgetAssumption DEF Leases

LEMMA ReservedType ==
  ASSUME NEW b \in Budgets, NEW l \in Leases
  PROVE  Reserved(b, l) \in Budgets
  BY BytesType DEF Reserved, Budgets

LEMMA ReleasedType ==
  ASSUME NEW b \in Budgets, NEW l \in Leases
  PROVE  Released(b, l) \in Budgets
  BY BytesType DEF Released, Budgets

LEMMA RebookedType ==
  ASSUME NEW b \in Budgets, NEW l \in Leases, NEW bytes \in Sizes
  PROVE  /\ RebookedLease(b, l, bytes) \in Leases
         /\ Rebooked(b, l, bytes) \in Budgets
<1>1. RebookedLease(b, l, bytes) \in Leases
  BY DEF RebookedLease, LaneOf, Leases, Lanes
<1> QED BY <1>1, ReservedType, ReleasedType DEF Rebooked

LEMMA StageNumbers ==
  ASSUME NEW s \in Stages
  PROVE  s.written \in Nat /\ s.size \in Nat
<1>1. s.size \in Sizes \union {0} /\ s.written \in Nat
  BY DEF Stages
<1>2. Sizes \subseteq Nat
  BY BudgetAssumption
<1>3. 0 \in Nat
  OBVIOUS
<1> QED BY <1>1, <1>2, <1>3, Zenon

(* Moving a stage or a send on keeps it in its type.                       *)
LEMMA StageMoves ==
  ASSUME NEW s \in [Tokens -> Stages], NEW t \in Tokens, NEW place \in Places
  PROVE  [s EXCEPT ![t].place = place] \in [Tokens -> Stages]
  BY DEF Stages

LEMMA MoreWritten ==
  ASSUME NEW s \in [Tokens -> Stages], NEW t \in Tokens, NEW n \in Nat,
         s[t].written + n <= s[t].size
  PROVE  [s EXCEPT ![t].written = @ + n] \in [Tokens -> Stages]
<1>1. /\ s[t] \in Stages
      /\ [s[t] EXCEPT !.written = @ + n] \in Stages
  BY DEF Stages
<1> QED BY <1>1

LEMMA StageMayMove ==
  ASSUME NEW t \in Tokens, stage \in [Tokens -> Stages],
         \/ stage' = stage
         \/ \E place \in Places : stage' = [stage EXCEPT ![t].place = place]
  PROVE  stage' \in [Tokens -> Stages]
<1>1. CASE stage' = stage
  BY <1>1
<1>2. ASSUME NEW place \in Places, stage' = [stage EXCEPT ![t].place = place]
      PROVE  stage' \in [Tokens -> Stages]
  BY <1>2, StageMoves
<1> QED BY <1>1, <1>2

LEMMA SendMoves ==
  ASSUME NEW s \in [Tokens -> Sends], NEW t \in Tokens, NEW phase \in Phases
  PROVE  [s EXCEPT ![t].phase = phase] \in [Tokens -> Sends]
  BY DEF Sends

LEMMA DrainedType ==
  ASSUME stage \in [Tokens -> Stages], Drained
  PROVE  stage' \in [Tokens -> Stages]
  BY DEF Drained, Stages, Places

-----------------------------------------------------------------------------
(* A set of subsets that has every subset of a finite set whose own strict *)
(* subsets it has, has the finite set itself.                              *)
LEMMA SubsetInduction ==
  ASSUME NEW S, IsFiniteSet(S), NEW F,
         \A T \in SUBSET S : (\A U \in SUBSET T : U # T => U \in F) => T \in F
  PROVE  S \in F
<1> DEFINE R == StrictSubsetOrdering(S)
           Bad == (SUBSET S) \ F
<1> SUFFICES ASSUME S \notin F PROVE FALSE
  OBVIOUS
<1>1. IsWellFoundedOn(R, FiniteSubsetsOf(S))
  BY FS_StrictSubsetOrderingWellFounded
<1>2. Bad \subseteq FiniteSubsetsOf(S)
  BY FS_Subset DEF FiniteSubsetsOf
<1>3. Bad # {}
  OBVIOUS
<1>4. PICK T \in Bad : \A U \in Bad : <<U, T>> \notin R
  <2> HIDE DEF R, Bad
  <2> QED BY <1>1, <1>2, <1>3, WFMin
<1>5. PICK U \in SUBSET T : U # T /\ U \notin F
  BY <1>4
<1>6. <<U, T>> \in R
  BY <1>4, <1>5 DEF StrictSubsetOrdering
<1> QED BY <1>4, <1>5, <1>6

(* The fold picks its elements one after the other, in an order of its     *)
(* own: what it computes is the sum over the set, whatever the order.      *)
Chosen(s) == CHOOSE x \in s : TRUE
Fold(l, S, f) ==
  f = [s \in SUBSET S |->
         IF s = {} THEN 0 ELSE l[Chosen(s)].bytes + f[s \ {Chosen(s)}]]

LEMMA TotalUnfold ==
  ASSUME NEW l, NEW S
  PROVE  TotalOf(l, S) = (CHOOSE f : Fold(l, S, f))[S]
  BY Zenon DEF TotalOf, MapThenSumSet, MapThenFoldSet, Chosen, Fold

(* Every lease of the set has a size.                                      *)
Weighed(l, S) == \A x \in S : l[x].bytes \in Nat

(* A function that sums the leases of every subset, whatever the order.    *)
Measure(l, S, g) ==
  /\ g \in [SUBSET S -> Nat]
  /\ g[{}] = 0
  /\ \A s \in SUBSET S : \A x \in s : g[s] = l[x].bytes + g[s \ {x}]

Alike(l, k, S) == \A x \in S : k[x] = l[x]

(* It can be extended by one element, exists for every finite set, and is  *)
(* what the fold computes.                                                 *)
Grown(l, S, g, a, h) ==
  Measure(l, S \union {a}, h) /\ h[S \union {a}] = l[a].bytes + g[S]

LEMMA MeasureGrows ==
  ASSUME NEW l, NEW S, NEW g, Measure(l, S, g), Weighed(l, S),
         NEW a, a \notin S, l[a].bytes \in Nat
  PROVE  \E h : Grown(l, S, g, a, h)
<1> DEFINE T == S \union {a}
           h == [s \in SUBSET T |->
                   IF a \in s THEN l[a].bytes + g[s \ {a}] ELSE g[s]]
<1>1. h \in [SUBSET T -> Nat]
  <2> SUFFICES ASSUME NEW s \in SUBSET T
               PROVE  (IF a \in s THEN l[a].bytes + g[s \ {a}] ELSE g[s]) \in Nat
    OBVIOUS
  <2>1. s \ {a} \in SUBSET S /\ (a \notin s => s \in SUBSET S)
    OBVIOUS
  <2> QED BY <2>1 DEF Measure
<1>2. h[{}] = 0
  BY DEF Measure
<1>3. ASSUME NEW s \in SUBSET T, NEW x \in s
      PROVE  h[s] = l[x].bytes + h[s \ {x}]
  <2>0. s \ {x} \in SUBSET T
    OBVIOUS
  <2>1. CASE x = a
    <3>1. h[s \ {x}] = g[s \ {a}] /\ h[s] = l[a].bytes + g[s \ {a}]
      BY <2>0, <2>1
    <3> QED BY <2>1, <3>1
  <2>2. CASE x # a /\ a \notin s
    <3>1. s \in SUBSET S /\ h[s] = g[s] /\ h[s \ {x}] = g[s \ {x}]
      BY <2>0, <2>2
    <3> QED BY <3>1 DEF Measure
  <2>3. CASE x # a /\ a \in s
    <3>1. h[s] = l[a].bytes + g[s \ {a}] /\ h[s \ {x}] = l[a].bytes + g[(s \ {x}) \ {a}]
      BY <2>0, <2>3
    <3>2. s \ {a} \in SUBSET S /\ x \in s \ {a} /\ (s \ {a}) \ {x} = (s \ {x}) \ {a}
      BY <2>3
    <3>3. g[s \ {a}] = l[x].bytes + g[(s \ {x}) \ {a}]
      <4>1. \A r \in SUBSET S : \A y \in r : g[r] = l[y].bytes + g[r \ {y}]
        BY DEF Measure
      <4>2. g[s \ {a}] = l[x].bytes + g[(s \ {a}) \ {x}]
        BY <3>2, <4>1
      <4> QED BY <3>2, <4>2
    <3>4. l[x].bytes \in Nat /\ l[a].bytes \in Nat
      <4>1. x \in S
        BY <2>3
      <4> QED BY <4>1 DEF Weighed
    <3>5. g[(s \ {x}) \ {a}] \in Nat /\ g[s \ {a}] \in Nat
      <4>1. (s \ {x}) \ {a} \in SUBSET S
        BY <3>2
      <4> QED BY <3>2, <4>1 DEF Measure
    <3> HIDE DEF h
    <3> QED BY <3>1, <3>3, <3>4, <3>5
  <2> QED BY <2>1, <2>2, <2>3
<1>4. h[T] = l[a].bytes + g[S]
  <2>1. T \in SUBSET T /\ a \in T /\ T \ {a} = S
    OBVIOUS
  <2> QED BY <2>1
<1> HIDE DEF h
<1> QED BY <1>1, <1>2, <1>3, <1>4 DEF Measure, Grown

LEMMA MeasureExists ==
  ASSUME NEW l, NEW S, IsFiniteSet(S), Weighed(l, S)
  PROVE  \E g : Measure(l, S, g)
<1> DEFINE F == {T \in SUBSET S : \E g : Measure(l, T, g)}
<1>1. ASSUME NEW T \in SUBSET S, \A U \in SUBSET T : U # T => U \in F
      PROVE  T \in F
  <2>1. CASE T = {}
    <3>1. Measure(l, {}, [s \in {{}} |-> 0])
      BY DEF Measure
    <3> QED BY <2>1, <3>1
  <2>2. CASE T # {}
    <3>1. PICK a \in T : TRUE
      BY <2>2
    <3>2. T \ {a} \in F
      BY <1>1, <3>1
    <3>3. PICK g : Measure(l, T \ {a}, g)
      BY <3>2
    <3>6. l[a].bytes \in Nat /\ Weighed(l, T \ {a})
      BY <3>1 DEF Weighed
    <3>7. a \notin T \ {a}
      OBVIOUS
    <3>4. \E h : Measure(l, (T \ {a}) \union {a}, h)
      BY <3>3, <3>6, <3>7, MeasureGrows DEF Grown
    <3>5. (T \ {a}) \union {a} = T
      BY <3>1
    <3> QED BY <3>4, <3>5
  <2> QED BY <2>1, <2>2
<1>2. S \in F
  <2> HIDE DEF F
  <2> QED BY <1>1, SubsetInduction
<1> QED BY <1>2

LEMMA MeasureIsTotal ==
  ASSUME NEW l, NEW S, IsFiniteSet(S), NEW g, Measure(l, S, g)
  PROVE  TotalOf(l, S) = g[S]
<1> DEFINE f == CHOOSE h : Fold(l, S, h)
<1>1. Fold(l, S, g)
  <2>1. g = [s \in SUBSET S |-> g[s]]
    BY DEF Measure
  <2>2. ASSUME NEW s \in SUBSET S
        PROVE  g[s] = IF s = {} THEN 0 ELSE l[Chosen(s)].bytes + g[s \ {Chosen(s)}]
    <3>1. CASE s = {}
      BY <3>1 DEF Measure
    <3>2. CASE s # {}
      <4>1. Chosen(s) \in s
        BY <3>2 DEF Chosen
      <4> QED BY <3>2, <4>1 DEF Measure
    <3> QED BY <3>1, <3>2
  <2>3. [s \in SUBSET S |-> g[s]]
          = [s \in SUBSET S |->
               IF s = {} THEN 0 ELSE l[Chosen(s)].bytes + g[s \ {Chosen(s)}]]
    BY <2>2
  <2> QED BY <2>1, <2>3, Zenon DEF Fold
<1>2. Fold(l, S, f)
  BY <1>1, Zenon
<1> HIDE DEF f
<1> DEFINE F == {T \in SUBSET S : f[T] = g[T]}
<1>3. ASSUME NEW T \in SUBSET S, \A U \in SUBSET T : U # T => U \in F
      PROVE  T \in F
  <2>1. f[T] = IF T = {} THEN 0 ELSE l[Chosen(T)].bytes + f[T \ {Chosen(T)}]
    BY <1>2 DEF Fold
  <2>2. g[T] = IF T = {} THEN 0 ELSE l[Chosen(T)].bytes + g[T \ {Chosen(T)}]
    BY <1>1 DEF Fold
  <2>3. CASE T = {}
    BY <2>1, <2>2, <2>3
  <2>4. CASE T # {}
    <3>1. Chosen(T) \in T
      BY <2>4 DEF Chosen
    <3>2. T \ {Chosen(T)} \in F
      BY <1>3, <3>1
    <3> QED BY <2>1, <2>2, <2>4, <3>2
  <2> QED BY <2>3, <2>4
<1>4. S \in F
  <2> HIDE DEF F
  <2> QED BY <1>3, SubsetInduction
<1> QED BY <1>4, TotalUnfold DEF f

(* What the operator returns.                                              *)
LEMMA TotalAdd ==
  ASSUME NEW l, NEW S, IsFiniteSet(S), Weighed(l, S),
         NEW a, a \notin S, l[a].bytes \in Nat
  PROVE  /\ TotalOf(l, S) \in Nat
         /\ TotalOf(l, S \union {a}) = l[a].bytes + TotalOf(l, S)
<1>1. PICK g : Measure(l, S, g)
  BY MeasureExists
<1>2. PICK h : Grown(l, S, g, a, h)
  BY <1>1, MeasureGrows
<1>3. IsFiniteSet(S \union {a})
  BY FS_AddElement
<1>4. TotalOf(l, S) = g[S] /\ g[S] \in Nat
  <2>1. g[S] \in Nat
    BY <1>1 DEF Measure
  <2> QED BY <1>1, <2>1, MeasureIsTotal
<1>5. TotalOf(l, S \union {a}) = h[S \union {a}]
  BY <1>2, <1>3, MeasureIsTotal DEF Grown
<1> QED BY <1>2, <1>4, <1>5 DEF Grown

LEMMA TotalRemove ==
  ASSUME NEW l, NEW S, IsFiniteSet(S), Weighed(l, S), NEW a \in S
  PROVE  /\ TotalOf(l, S \ {a}) \in Nat
         /\ TotalOf(l, S) = l[a].bytes + TotalOf(l, S \ {a})
<1>1. IsFiniteSet(S \ {a}) /\ a \notin S \ {a} /\ (S \ {a}) \union {a} = S
  BY FS_RemoveElement
<1>2. Weighed(l, S \ {a}) /\ l[a].bytes \in Nat
  BY DEF Weighed
<1> DEFINE T == S \ {a}
<1>4. /\ TotalOf(l, T) \in Nat
      /\ TotalOf(l, T \union {a}) = l[a].bytes + TotalOf(l, T)
  <2> HIDE DEF T
  <2> QED BY <1>1, <1>2, TotalAdd DEF T
<1> QED BY <1>1, <1>4

(* ... and it depends on the leases of the set only.                       *)
LEMMA TotalSame ==
  ASSUME NEW l, NEW k, NEW S, IsFiniteSet(S), Weighed(l, S),
         Alike(l, k, S)
  PROVE  TotalOf(k, S) = TotalOf(l, S)
<1>1. PICK g : Measure(l, S, g)
  BY MeasureExists
<1>2. Measure(k, S, g)
  BY <1>1 DEF Measure, Alike
<1> QED BY <1>1, <1>2, MeasureIsTotal

LEMMA TotalNone ==
  ASSUME NEW l
  PROVE  TotalOf(l, {}) = 0
<1>1. Measure(l, {}, [s \in {{}} |-> 0])
  BY DEF Measure
<1> QED BY <1>1, MeasureIsTotal, FS_EmptySet

-----------------------------------------------------------------------------
(* What holds of each token.  A send has the stage exactly in the phases   *)
(* between the taking and the hand-over of the lease, a token not yet      *)
(* staged has no send, and one with a message has left the stages.         *)
Sending == {"reading", "waiting", "admitting", "queued", "restoring"}
Ended   == {"held", "published", "revoking", "done"}
Placed(t) ==
  /\ At(t, "taken") <=> send[t].phase \in Sending
  /\ stage[t].place \in {"none", "reserved", "stamped"} => In(t, "idle")
  /\ In(t, "fenced") => stage[t].place \in {"staged", "gone"}
  /\ send[t].phase \in Ended => At(t, "gone")
  /\ In(t, "admitting") => stage[t].kind = "clip"
  /\ message[t] # "none" => send[t].phase \in Ended \union {"queued"}

(* A lease is in one hand: its stage, the deliveries or a drop to come.    *)
Owned(t) ==
  /\ lease[t] # None <=>
       \/ stage[t].place \in {"reserved", "stamped", "staged", "taken"}
       \/ t \in held \/ t \in unwinding
  /\ t \in held \union unwinding => At(t, "gone")
  /\ t \notin held \/ t \notin unwinding

(* A chunk under way fits what is left of the declared size, and nobody    *)
(* writes to a stage that a send has taken or a preparation reads.         *)
WritesFit(t) ==
  /\ At(t, "staged") => stage[t].written + writer[t] <= stage[t].size
  /\ stage[t].place \in {"none", "reserved", "stamped", "taken"} => writer[t] = 0
  /\ stage[t].image = "preparing" =>
       stage[t].written = stage[t].size /\ (At(t, "staged") => writer[t] = 0)

OfSession(t) ==
  stage[t].kind = "clip" /\ message[t] # "none" => signer[t] = stage[t].gen

TokenInv(t) == Placed(t) /\ Owned(t) /\ WritesFit(t) /\ OfSession(t)

(* While no switch is under way the manager is the one of the session, and *)
(* a voice send that admits its clip keeps switches out.                   *)
Locked ==
  /\ lock # "switch" => manager = generation
  /\ \A t \in Tokens : In(t, "admitting") => lock = t

(* The sum is taken over finitely many leases.                            *)
SmallInv == IsFiniteSet(Leased("small")) /\ SmallLane

LanesInv == LargeLane /\ SmallInv

IInv == TypeOK /\ (\A t \in Tokens : TokenInv(t)) /\ Locked /\ LanesInv

LEMMA InitIInv == Init => IInv
<1> SUFFICES ASSUME Init PROVE IInv
  OBVIOUS
<1>1. TypeOK
  <2>1. stage \in [Tokens -> Stages]
    BY DEF Init, Stages, Places, AllKinds
  <2>2. send \in [Tokens -> Sends]
    BY DEF Init, Sends, Phases
  <2>3. generation \in Generations /\ manager \in Generations
    BY StagingAssumption DEF Init, Generations
  <2>4. budget \in Budgets
    BY DEF Init, EmptyBudget, Budgets
  <2> QED BY <2>1, <2>2, <2>3, <2>4 DEF Init, TypeOK
<1>2. (\A t \in Tokens : TokenInv(t)) /\ Locked
  BY DEF Init, TokenInv, Placed, Owned, WritesFit, OfSession, Locked, Sending, Ended
<1>3. LanesInv
  <2>1. Leased("small") = {} /\ Leased("large") = {}
    BY DEF Init, Leased
  <2>2. TotalOf(lease, Leased("small")) = 0 /\ IsFiniteSet(Leased("small"))
    BY <2>1, TotalNone, FS_EmptySet
  <2>3. budget.small = 0 /\ budget.large = FALSE /\ 0 <= SmallBudget
    BY BudgetAssumption DEF Init, EmptyBudget
  <2> QED BY <2>1, <2>2, <2>3 DEF LanesInv, LargeLane, SmallInv, SmallLane
<1> QED BY <1>1, <1>2, <1>3 DEF IInv

-----------------------------------------------------------------------------
(* Every step of a command, of the preparation and of the runtime keeps    *)
(* every variable in its type.                                             *)
LEMMA StagingType ==
  ASSUME IInv, NEW t \in Tokens, Staging(t)
  PROVE  TypeOK'
<1> USE DEF Places
<1>0. TypeOK /\ Owned(t) /\ WritesFit(t)
  BY DEF IInv, TokenInv
<1>s. /\ stage \in [Tokens -> Stages] /\ send \in [Tokens -> Sends]
      /\ generation \in Generations
  BY <1>0 DEF TypeOK
<1>1. ASSUME NEW kind \in Kinds, NEW size \in Sizes, Begin(t, kind, size)
      PROVE  TypeOK'
  <2>1. kind \in AllKinds /\ size \in Nat
    BY StagingAssumption, BudgetAssumption
  <2>2. stage' \in [Tokens -> Stages]
    BY <1>s, <1>1, <2>1 DEF Begin, Stages, Places
  <2>3. budget' \in Budgets /\ LeaseFor(size) \in Leases
    BY <1>0, <1>1, LeaseForType, ReservedType DEF TypeOK, Begin
  <2> QED BY <1>0, <1>1, <2>2, <2>3 DEF TypeOK, Begin
<1>2. CASE Stamp(t)
  <2>1. [stage[t] EXCEPT !.place = "stamped", !.gen = generation] \in Stages
    BY <1>s DEF Stages
  <2>2. stage' = [stage EXCEPT ![t] =
                    [stage[t] EXCEPT !.place = "stamped", !.gen = generation]]
    BY <1>s, <1>2, Zenon DEF Stamp
  <2>3. stage' \in [Tokens -> Stages]
    BY <1>s, <2>1, <2>2
  <2> QED BY <1>0, <1>2, <2>3 DEF TypeOK, Stamp
<1>3. CASE Insert(t)
  <2>1. stage' \in [Tokens -> Stages]
    BY <1>s, <1>3, StageMoves DEF Insert
  <2> QED BY <1>0, <1>3, <2>1 DEF TypeOK, Insert
<1>4. ASSUME NEW n \in Sizes, AppendBegin(t, n) PROVE TypeOK'
  BY <1>0, <1>4, BudgetAssumption DEF TypeOK, AppendBegin
<1>5. ASSUME NEW ok \in BOOLEAN, AppendEnd(t, ok) PROVE TypeOK'
  <2>1. stage' \in [Tokens -> Stages]
    <3>1. CASE At(t, "staged") /\ ok
      <4>1. writer[t] \in Nat /\ stage[t].written + writer[t] <= stage[t].size
        BY <1>0, <3>1 DEF WritesFit, TypeOK
      <4> QED BY <1>s, <1>5, <3>1, <4>1, MoreWritten DEF AppendEnd
    <3>2. CASE ~(At(t, "staged") /\ ok)
      BY <1>s, <1>5, <3>2 DEF AppendEnd
    <3> QED BY <3>1, <3>2
  <2> QED BY <1>0, <1>5, <2>1 DEF TypeOK, AppendEnd
<1>6. CASE PrepareBegin(t)
  <2>1. [stage[t] EXCEPT !.image = "preparing"] \in Stages
    BY <1>s DEF Stages
  <2>2. stage' \in [Tokens -> Stages]
    BY <1>s, <1>6, <2>1 DEF PrepareBegin
  <2>3. preparer' \in Preparations
    BY <1>6 DEF PrepareBegin, Preparations
  <2> QED BY <1>0, <1>6, <2>2, <2>3 DEF TypeOK, PrepareBegin
<1>7. CASE MarkAsFile(t)
  <2>1. [stage[t] EXCEPT !.kind = "file", !.image = "ready"] \in Stages
    BY <1>s DEF Stages, AllKinds
  <2>2. stage' \in [Tokens -> Stages]
    BY <1>s, <1>7, <2>1 DEF MarkAsFile
  <2> QED BY <1>0, <1>7, <2>2 DEF TypeOK, MarkAsFile
<1>8. CASE CancelStage(t)
  <2>1. stage' \in [Tokens -> Stages]
    <3>1. \/ stage' = stage
          \/ \E place \in Places : stage' = [stage EXCEPT ![t].place = place]
      BY <1>8 DEF CancelStage, Dropped
    <3> QED BY <1>s, <3>1, StageMayMove
  <2> QED BY <1>0, <1>8, <2>1 DEF TypeOK, CancelStage, Dropped
<1>9. CASE Unwind(t)
  <2>1. lease[t] \in Leases
    BY <1>0, <1>9 DEF TypeOK, Unwind, Owned
  <2> QED BY <1>0, <1>9, <2>1, ReleasedType DEF TypeOK, Unwind
<1> QED BY <1>1, <1>2, <1>3, <1>4, <1>5, <1>6, <1>7, <1>8, <1>9 DEF Staging

LEMMA SendingType ==
  ASSUME IInv, NEW t \in Tokens, SendingFile(t) \/ SendingClip(t)
  PROVE  TypeOK'
<1> USE DEF Places, Phases
<1>0. TypeOK
  BY DEF IInv
<1>s. /\ stage \in [Tokens -> Stages] /\ send \in [Tokens -> Sends]
      /\ generation \in Generations
  BY <1>0 DEF TypeOK
<1>1. CASE TakeFile(t)
  <2>1. stage' \in [Tokens -> Stages]
    BY <1>s, <1>1, StageMoves DEF TakeFile
  <2>2. send' \in [Tokens -> Sends]
    <3>1. PICK phase \in Phases : send' = [send EXCEPT ![t].phase = phase]
      BY <1>1 DEF TakeFile
    <3> QED BY <1>s, <3>1, SendMoves
  <2> QED BY <1>0, <1>1, <2>1, <2>2 DEF TypeOK, TakeFile
<1>2. ASSUME NEW size \in Sizes, BeginInline(t, size) PROVE TypeOK'
  <2>1. stage' \in [Tokens -> Stages]
    <3>1. size \in Nat /\ size <= size
      BY BudgetAssumption
    <3>2. [stage[t] EXCEPT !.place = "taken", !.kind = "inline",
                           !.size = size, !.written = size] \in Stages
      BY <1>s, <3>1 DEF Stages, AllKinds
    <3> QED BY <1>s, <1>2, <3>2 DEF BeginInline
  <2>2. budget' \in Budgets /\ LeaseFor(size) \in Leases
    BY <1>0, <1>2, LeaseForType, ReservedType DEF TypeOK, BeginInline
  <2>3. lease' \in [Tokens -> Leases \union {None}]
    BY <1>0, <1>2, <2>2 DEF TypeOK, BeginInline
  <2>4. send' \in [Tokens -> Sends]
    BY <1>s, <1>2, SendMoves DEF BeginInline
  <2> QED BY <1>0, <1>2, <2>1, <2>2, <2>3, <2>4 DEF TypeOK, BeginInline
<1>3. ASSUME NEW named \in BOOLEAN, QueueFile(t, named) \/ SendClip(t, named)
      PROVE  TypeOK'
  <2>1. send' \in [Tokens -> Sends]
    BY <1>s, <1>3 DEF QueueFile, SendClip, Sends
  <2>2. /\ op' \in [Tokens -> {"none", "preparing", "published"}]
        /\ stopped' \subseteq Tokens
    BY <1>0, <1>3 DEF TypeOK, QueueFile, SendClip, Registered
  <2> QED BY <1>0, <1>3, <2>1, <2>2 DEF TypeOK, QueueFile, SendClip
<1>4. CASE FileFails(t)
  <2>1. stage' \in [Tokens -> Stages]
    BY <1>s, <1>4, StageMoves DEF FileFails, Dropped, Unregistered
  <2>2. send' \in [Tokens -> Sends]
    <3>1. PICK phase \in Phases : send' = [send EXCEPT ![t].phase = phase]
      BY <1>4 DEF FileFails, Dropped, Unregistered
    <3> QED BY <1>s, <3>1, SendMoves
  <2> QED BY <1>0, <1>4, <2>1, <2>2 DEF TypeOK, FileFails, Dropped, Unregistered
<1>5. CASE AdmitFile(t) \/ AdmitClip(t)
  <2>1. stage' \in [Tokens -> Stages]
    BY <1>s, <1>5, StageMoves DEF AdmitFile, AdmitClip, Admitted
  <2>2. send' \in [Tokens -> Sends]
    <3>1. PICK phase \in Phases : send' = [send EXCEPT ![t].phase = phase]
      BY <1>5 DEF AdmitFile, AdmitClip, Admitted
    <3> QED BY <1>s, <3>1, SendMoves
  <2> QED BY <1>0, <1>5, <2>1, <2>2 DEF TypeOK, AdmitFile, AdmitClip, Admitted
<1>6. CASE TakeClip(t)
  <2>1. stage' \in [Tokens -> Stages]
    <3>1. \/ stage' = stage
          \/ \E place \in Places : stage' = [stage EXCEPT ![t].place = place]
      BY <1>6 DEF TakeClip, Unregistered
    <3> QED BY <1>s, <3>1, StageMayMove
  <2>2. send' \in [Tokens -> Sends]
    <3>1. PICK phase \in Phases : send' = [send EXCEPT ![t].phase = phase]
      BY <1>6 DEF TakeClip, Unregistered
    <3> QED BY <1>s, <3>1, SendMoves
  <2> QED BY <1>0, <1>6, <2>1, <2>2 DEF TypeOK, TakeClip, Unregistered
<1>7. CASE QueueClip(t) \/ LockClip(t)
  <2>1. stage' \in [Tokens -> Stages]
    BY <1>s, <1>7, StageMoves DEF QueueClip, LockClip
  <2>2. send' \in [Tokens -> Sends]
    <3>1. PICK phase \in Phases : send' = [send EXCEPT ![t].phase = phase]
      BY <1>7 DEF QueueClip, LockClip
    <3> QED BY <1>s, <3>1, SendMoves
  <2> QED BY <1>0, <1>7, <2>1, <2>2 DEF TypeOK, QueueClip, LockClip
<1>8. CASE DropClip(t)
  <2>1. stage' \in [Tokens -> Stages]
    BY <1>s, <1>8, StageMoves DEF DropClip, Dropped, Finished, Unregistered
  <2>2. send' \in [Tokens -> Sends]
    <3>1. PICK phase \in Phases : send' = [send EXCEPT ![t].phase = phase]
      BY <1>8 DEF DropClip, Dropped, Finished, Unregistered
    <3> QED BY <1>s, <3>1, SendMoves
  <2> QED BY <1>0, <1>8, <2>1, <2>2 DEF TypeOK, DropClip, Dropped, Finished, Unregistered
<1>9. CASE ClipFails(t)
  <2>1. stage' \in [Tokens -> Stages]
    BY <1>s, <1>9, StageMoves DEF ClipFails, Unregistered
  <2>2. send' \in [Tokens -> Sends]
    <3>1. PICK phase \in Phases : send' = [send EXCEPT ![t].phase = phase]
      BY <1>9 DEF ClipFails, Unregistered
    <3> QED BY <1>s, <3>1, SendMoves
  <2> QED BY <1>0, <1>9, <2>1, <2>2 DEF TypeOK, ClipFails, Unregistered
<1>10. CASE Restore(t)
  <2>1. stage' \in [Tokens -> Stages]
    <3>1. \/ stage' = stage
          \/ \E place \in Places : stage' = [stage EXCEPT ![t].place = place]
      BY <1>10 DEF Restore, Dropped
    <3> QED BY <1>s, <3>1, StageMayMove
  <2>2. send' \in [Tokens -> Sends]
    <3>1. PICK phase \in Phases : send' = [send EXCEPT ![t].phase = phase]
      BY <1>10 DEF Restore, Dropped
    <3> QED BY <1>s, <3>1, SendMoves
  <2> QED BY <1>0, <1>10, <2>1, <2>2 DEF TypeOK, Restore, Dropped
<1> QED BY <1>1, <1>2, <1>3, <1>4, <1>5, <1>6, <1>7, <1>8, <1>9, <1>10
        DEF SendingFile, SendingClip

LEMMA DeliveringType ==
  ASSUME IInv, NEW t \in Tokens, Delivering(t)
  PROVE  TypeOK'
<1> USE DEF Places, Phases, Finished, Unregistered
<1>0. TypeOK
  BY DEF IInv
<1>s. /\ stage \in [Tokens -> Stages] /\ send \in [Tokens -> Sends]
      /\ generation \in Generations
  BY <1>0 DEF TypeOK
<1>1. CASE Hold(t)
  <2>1. stage' \in [Tokens -> Stages]
    BY <1>s, <1>1, StageMoves DEF Hold
  <2>2. send' \in [Tokens -> Sends]
    <3>1. PICK phase \in Phases : send' = [send EXCEPT ![t].phase = phase]
      BY <1>1 DEF Hold
    <3> QED BY <1>s, <3>1, SendMoves
  <2> QED BY <1>0, <1>1, <2>1, <2>2 DEF TypeOK, Hold
<1>2. CASE Publish(t)
  <2>1. stage' \in [Tokens -> Stages]
    BY <1>s, <1>2, StageMoves DEF Publish
  <2>2. send' \in [Tokens -> Sends]
    <3>1. PICK phase \in Phases : send' = [send EXCEPT ![t].phase = phase]
      BY <1>2 DEF Publish
    <3> QED BY <1>s, <3>1, SendMoves
  <2>3. /\ op' \in [Tokens -> {"none", "preparing", "published"}]
        /\ stopped' \subseteq Tokens
    BY <1>0, <1>2 DEF TypeOK, Publish, Noted
  <2> QED BY <1>0, <1>2, <2>1, <2>2, <2>3 DEF TypeOK, Publish
<1>3. CASE Finish(t)
  <2>1. stage' \in [Tokens -> Stages]
    BY <1>s, <1>3, StageMoves DEF Finish
  <2>2. send' \in [Tokens -> Sends]
    <3>1. PICK phase \in Phases : send' = [send EXCEPT ![t].phase = phase]
      BY <1>3 DEF Finish
    <3> QED BY <1>s, <3>1, SendMoves
  <2> QED BY <1>0, <1>3, <2>1, <2>2 DEF TypeOK, Finish
<1>4. CASE Revoke(t) \/ CancelCanonical(t)
  <2>1. stage' \in [Tokens -> Stages]
    BY <1>s, <1>4, StageMoves DEF Revoke, CancelCanonical, Withdrawn, ReleaseHeld
  <2>2. send' \in [Tokens -> Sends]
    <3>1. CASE Revoke(t)
      BY <1>s, <3>1, SendMoves DEF Revoke
    <3>2. CASE CancelCanonical(t)
      BY <1>s, <3>2 DEF CancelCanonical
    <3> QED BY <1>4, <3>1, <3>2
  <2> QED BY <1>0, <1>4, <2>1, <2>2 DEF TypeOK, Revoke, CancelCanonical, Withdrawn, ReleaseHeld
<1>5. CASE CancelSend(t) \/ CancelMessage(t)
  BY <1>0, <1>5 DEF TypeOK, CancelSend, CancelMessage
<1>6. CASE Settle(t)
  BY <1>0, <1>6 DEF TypeOK, Settle, ReleaseHeld
<1> QED BY <1>1, <1>2, <1>3, <1>4, <1>5, <1>6 DEF Delivering

LEMMA RuntimeType ==
  ASSUME IInv, Preparing \/ Runtime
  PROVE  TypeOK'
<1> USE DEF Places
<1>0. TypeOK /\ \A t \in Tokens : Owned(t)
  BY DEF IInv, TokenInv
<1>s. /\ stage \in [Tokens -> Stages] /\ send \in [Tokens -> Sends]
      /\ generation \in Generations
  BY <1>0 DEF TypeOK
<1>1. ASSUME NEW size \in Sizes, PrepareWork(size) PROVE TypeOK'
  <2>1. preparer' \in Preparations /\ preparer.token \in Tokens
    BY <1>0, <1>1 DEF TypeOK, PrepareWork, Preparations
  <2> QED BY <1>0, <1>1, <2>1 DEF TypeOK, PrepareWork
<1>2. CASE PrepareFails
  <2>1. stage' \in [Tokens -> Stages]
    <3>1. preparer.token \in Tokens
      BY <1>0, <1>2 DEF TypeOK, PrepareFails, Preparations
    <3> DEFINE s == stage[preparer.token]
    <3>2. [s EXCEPT !.image = "raw"] \in Stages
      BY <1>s, <3>1 DEF Stages
    <3> QED BY <1>s, <1>2, <3>1, <3>2 DEF PrepareFails, Aborted
  <2> QED BY <1>0, <1>2, <2>1 DEF TypeOK, PrepareFails
<1>3. CASE PrepareFinish
  <2>1. preparer \in Preparations
    BY <1>0, <1>3 DEF TypeOK, PrepareFinish
  <2>2. preparer.token \in Tokens /\ preparer.size \in Sizes
    BY <1>0, <1>3, <2>1 DEF TypeOK, PrepareFinish, Preparations
  <2>3. lease[preparer.token] \in Leases
    BY <1>0, <1>3, <2>2 DEF TypeOK, PrepareFinish, Owned
  <2>4. stage' \in [Tokens -> Stages]
    BY <1>s, <1>3, <2>2, BudgetAssumption DEF PrepareFinish, Stages
  <2>5. budget' \in Budgets /\ lease' \in [Tokens -> Leases \union {None}]
    BY <1>0, <1>3, <2>2, <2>3, RebookedType DEF TypeOK, PrepareFinish
  <2> QED BY <1>0, <1>3, <2>4, <2>5 DEF TypeOK, PrepareFinish
<1>4. CASE Warn \/ PauseEnds
  BY <1>0, <1>4 DEF TypeOK, Warn, PauseEnds
<1>5. CASE BeginSwitch
  BY <1>0, <1>5, StagingAssumption DEF TypeOK, BeginSwitch, Generations
<1>6. CASE Drain
  <2>1. stage' \in [Tokens -> Stages]
    BY <1>s, <1>6, DrainedType DEF Drain
  <2> QED BY <1>0, <1>6, <2>1 DEF TypeOK, Drain, Drained, Staged
<1>7. CASE StopRuntime
  <2>1. stage' \in [Tokens -> Stages]
    BY <1>s, <1>7, DrainedType DEF StopRuntime, Cleared
  <2> QED BY <1>0, <1>7, <2>1 DEF TypeOK, StopRuntime, Cleared, Drained, Staged
<1>8. ASSUME NEW next \in {generation, generation + 1}, OpenSession(next)
      PROVE  TypeOK'
  <2>1. stage' \in [Tokens -> Stages]
    BY <1>s, <1>8, DrainedType DEF OpenSession, Cleared
  <2> QED BY <1>0, <1>8, <2>1 DEF TypeOK, OpenSession, Cleared, Drained, Staged
<1> QED BY <1>1, <1>2, <1>3, <1>4, <1>5, <1>6, <1>7, <1>8 DEF Preparing, Runtime

-----------------------------------------------------------------------------
(* A step of one token leaves the others alone.                            *)
Kept(u) ==
  /\ stage'[u] = stage[u] /\ send'[u] = send[u] /\ lease'[u] = lease[u]
  /\ writer'[u] = writer[u] /\ message'[u] = message[u] /\ signer'[u] = signer[u]
  /\ (u \in held') = (u \in held) /\ (u \in unwinding') = (u \in unwinding)

LEMMA KeptInv ==
  ASSUME NEW u \in Tokens, TokenInv(u), Kept(u)
  PROVE  TokenInv(u)'
  BY DEF TokenInv, Placed, Owned, WritesFit, OfSession, Kept

LEMMA OthersKept ==
  ASSUME TypeOK, NEW t \in Tokens, NEW u \in Tokens \ {t},
         Staging(t) \/ SendingFile(t) \/ SendingClip(t) \/ Delivering(t)
  PROVE  Kept(u)
<1> USE DEF Kept, TypeOK, Dropped, Admitted, Finished, ReleaseHeld, Withdrawn
<1>1. CASE Staging(t)
  BY <1>1 DEF Staging, Begin, Stamp, Insert, AppendBegin, AppendEnd,
     PrepareBegin, MarkAsFile, CancelStage, Unwind
<1>2. CASE SendingFile(t)
  <2>1. CASE TakeFile(t) \/ FileFails(t) \/ AdmitFile(t)
    BY <2>1 DEF TakeFile, FileFails, AdmitFile
  <2>2. ASSUME NEW size \in Sizes, BeginInline(t, size) PROVE Kept(u)
    BY <2>2 DEF BeginInline
  <2>3. ASSUME NEW named \in BOOLEAN, QueueFile(t, named) PROVE Kept(u)
    BY <2>3 DEF QueueFile
  <2> QED BY <1>2, <2>1, <2>2, <2>3 DEF SendingFile
<1>3. CASE SendingClip(t)
  BY <1>3 DEF SendingClip, SendClip, TakeClip, QueueClip, LockClip, AdmitClip,
     DropClip, ClipFails, Restore
<1>4. CASE Delivering(t)
  BY <1>4 DEF Delivering, Hold, Publish, Finish, Revoke, CancelSend,
     CancelMessage, CancelCanonical, Settle
<1> QED BY <1>1, <1>2, <1>3, <1>4

(* ... and keeps what holds of its own.                                    *)
LEMMA StagingKeeps ==
  ASSUME IInv, NEW t \in Tokens, Staging(t)
  PROVE  TokenInv(t)'
<1> USE DEF TypeOK, Stages, Sends, TokenInv, Placed, Owned, WritesFit,
            OfSession, Sending, Ended
<1>0. TypeOK /\ TokenInv(t)
  BY DEF IInv
<1>1. ASSUME NEW kind \in Kinds, NEW size \in Sizes, Begin(t, kind, size)
      PROVE  TokenInv(t)'
  <2>1. LeaseFor(size) # None
    BY LeaseForType, StagingAssumption
  <2> QED BY <1>0, <1>1, <2>1, BudgetAssumption DEF Begin
<1>2. CASE Stamp(t) \/ Insert(t)
  BY <1>0, <1>2 DEF Stamp, Insert
<1>3. ASSUME NEW n \in Sizes, AppendBegin(t, n) PROVE TokenInv(t)'
  <2>1. n \in Nat \ {0}
    BY BudgetAssumption
  <2>0. stage[t].written \in Nat /\ stage[t].size \in Nat
    BY <1>0, StageNumbers
  <2>2. stage[t].written + n <= stage[t].size
    BY <1>3, <2>0, <2>1 DEF AppendBegin
  <2>3. stage[t].image # "preparing"
    BY <1>0, <2>0, <2>1, <2>2
  <2> QED BY <1>0, <1>3, <2>0, <2>1, <2>2, <2>3 DEF AppendBegin
<1>4. ASSUME NEW ok \in BOOLEAN, AppendEnd(t, ok) PROVE TokenInv(t)'
  BY <1>0, <1>4, BudgetAssumption, SMTT(40) DEF AppendEnd
<1>5. CASE PrepareBegin(t)
  BY <1>0, <1>5, BudgetAssumption DEF PrepareBegin, RawImage
<1>8. CASE MarkAsFile(t)
  BY <1>0, <1>8 DEF MarkAsFile, RawImage
<1>6. CASE CancelStage(t)
  <2>1. CASE At(t, "staged") /\ Dropped(t)
    BY <1>0, <1>6, <2>1 DEF CancelStage, Dropped
  <2>2. CASE UNCHANGED <<stage, unwinding>>
    BY <1>0, <1>6, <2>2 DEF CancelStage
  <2> QED BY <1>6, <2>1, <2>2 DEF CancelStage
<1>7. CASE Unwind(t)
  BY <1>0, <1>7 DEF Unwind
<1> QED BY <1>1, <1>2, <1>3, <1>4, <1>5, <1>6, <1>7, <1>8 DEF Staging

LEMMA SendingFileKeeps ==
  ASSUME IInv, NEW t \in Tokens, SendingFile(t)
  PROVE  TokenInv(t)'
<1> USE DEF TypeOK, Stages, Sends, TokenInv, Placed, Owned, WritesFit,
            OfSession, Sending, Ended
<1>0. TypeOK /\ TokenInv(t)
  BY DEF IInv
<1>1. CASE TakeFile(t)
  BY <1>0, <1>1 DEF TakeFile, Complete
<1>2. ASSUME NEW size \in Sizes, BeginInline(t, size) PROVE TokenInv(t)'
  <2>1. LeaseFor(size) # None
    BY LeaseForType, StagingAssumption
  <2> QED BY <1>0, <1>2, <2>1, BudgetAssumption DEF BeginInline
<1>3. ASSUME NEW named \in BOOLEAN, QueueFile(t, named) PROVE TokenInv(t)'
  BY <1>0, <1>3 DEF QueueFile
<1>4. CASE FileFails(t)
  BY <1>0, <1>4 DEF FileFails, Dropped
<1>5. CASE AdmitFile(t)
  BY <1>0, <1>5 DEF AdmitFile, Admitted
<1> QED BY <1>1, <1>2, <1>3, <1>4, <1>5 DEF SendingFile

LEMMA SendingClipKeeps ==
  ASSUME IInv, NEW t \in Tokens, SendingClip(t)
  PROVE  TokenInv(t)'
<1> USE DEF TypeOK, Stages, Sends, TokenInv, Placed, Owned, WritesFit,
            OfSession, Sending, Ended
<1>0. TypeOK /\ TokenInv(t) /\ Locked
  BY DEF IInv
<1>1. ASSUME NEW named \in BOOLEAN, SendClip(t, named) PROVE TokenInv(t)'
  BY <1>0, <1>1 DEF SendClip
<1>2. CASE TakeClip(t)
  BY <1>0, <1>2 DEF TakeClip, Complete
<1>3. CASE QueueClip(t) \/ LockClip(t)
  BY <1>0, <1>3 DEF QueueClip, LockClip
<1>4. CASE AdmitClip(t)
  <2>1. manager = stage[t].gen
    BY <1>0, <1>4, StagingAssumption DEF AdmitClip, Current, Locked
  <2> QED BY <1>0, <1>4, <2>1 DEF AdmitClip, Admitted
<1>5. CASE DropClip(t)
  BY <1>0, <1>5 DEF DropClip, Dropped, Finished
<1>6. CASE ClipFails(t)
  BY <1>0, <1>6 DEF ClipFails
<1>7. CASE Restore(t)
  <2>1. CASE Restorable(t)
    BY <1>0, <1>7, <2>1 DEF Restore
  <2>2. CASE ~Restorable(t)
    BY <1>0, <1>7, <2>2 DEF Restore, Dropped
  <2> QED BY <2>1, <2>2
<1> QED BY <1>1, <1>2, <1>3, <1>4, <1>5, <1>6, <1>7 DEF SendingClip

LEMMA DeliveringKeeps ==
  ASSUME IInv, NEW t \in Tokens, Delivering(t)
  PROVE  TokenInv(t)'
<1> USE DEF TypeOK, Stages, Sends, TokenInv, Placed, Owned, WritesFit,
            OfSession, Sending, Ended, ReleaseHeld, Withdrawn, Finished
<1>0. TypeOK /\ TokenInv(t)
  BY DEF IInv
<1>1. CASE Hold(t)
  BY <1>0, <1>1 DEF Hold
<1>2. CASE Publish(t) \/ Finish(t)
  BY <1>0, <1>2 DEF Publish, Finish
<1>3. CASE Revoke(t)
  BY <1>0, <1>3 DEF Revoke
<1>4. CASE CancelSend(t) \/ CancelMessage(t)
  BY <1>0, <1>4 DEF CancelSend, CancelMessage
<1>5. CASE CancelCanonical(t) \/ Settle(t)
  BY <1>0, <1>5 DEF CancelCanonical, Settle
<1> QED BY <1>1, <1>2, <1>3, <1>4, <1>5 DEF Delivering

LEMMA RuntimeKeeps ==
  ASSUME IInv, NEW t \in Tokens, Preparing \/ Runtime
  PROVE  TokenInv(t)'
<1> USE DEF TypeOK, Stages, Sends, TokenInv, Placed, Owned, WritesFit,
            OfSession, Sending, Ended, Drained, Cleared, Staged
<1>0. TypeOK /\ TokenInv(t)
  BY DEF IInv
<1>1. ASSUME NEW size \in Sizes, PrepareWork(size) PROVE TokenInv(t)'
  BY <1>0, <1>1 DEF PrepareWork
<1>2. CASE PrepareFails
  BY <1>0, <1>2 DEF PrepareFails, Aborted
<1>3. CASE PrepareFinish
  <2>1. preparer.token \in Tokens /\ preparer.size \in Sizes
    BY <1>0, <1>3 DEF PrepareFinish, Preparations
  <2>2. preparer.size \in Nat
    BY <2>1, BudgetAssumption
  <2>3. CASE t # preparer.token
    BY <1>0, <1>3, <2>1, <2>3 DEF PrepareFinish
  <2>4. CASE t = preparer.token
    <3>1. lease[t] \in Leases
      BY <1>0, <1>3, <2>4 DEF PrepareFinish
    <3>2. RebookedLease(budget, lease[t], preparer.size) # None
      BY <1>0, <2>1, <3>1, RebookedType, StagingAssumption
    <3> QED BY <1>0, <1>3, <2>1, <2>2, <2>4, <3>2, SMTT(40) DEF PrepareFinish
  <2> QED BY <2>3, <2>4
<1>4. CASE Warn \/ PauseEnds \/ BeginSwitch
  BY <1>0, <1>4 DEF Warn, PauseEnds, BeginSwitch
<1>5. CASE Drain
  BY <1>0, <1>5 DEF Drain
<1>6. CASE StopRuntime
  BY <1>0, <1>6 DEF StopRuntime
<1>7. ASSUME NEW next \in {generation, generation + 1}, OpenSession(next)
      PROVE  TokenInv(t)'
  BY <1>0, <1>7 DEF OpenSession
<1> QED BY <1>1, <1>2, <1>3, <1>4, <1>5, <1>6, <1>7 DEF Preparing, Runtime

-----------------------------------------------------------------------------
(* The lifecycle lock: only a switch changes the session, and it never     *)
(* meets a voice send that is admitting.                                   *)
LEMMA TokenLocked ==
  ASSUME IInv, NEW t \in Tokens,
         Staging(t) \/ SendingFile(t) \/ SendingClip(t) \/ Delivering(t)
  PROVE  Locked'
<1>0. TypeOK /\ Locked /\ \A u \in Tokens : TokenInv(u)
  BY DEF IInv
<1>1. ASSUME NEW u \in Tokens, In(u, "admitting")', u # t PROVE lock' = u
  <2>1. In(u, "admitting") /\ lock = u
    BY <1>0, <1>1, OthersKept DEF Kept, Locked
  <2> QED BY <1>1, <2>1, StagingAssumption
          DEF Staging, Begin, Stamp, Insert, AppendBegin, AppendEnd, PrepareBegin,
              MarkAsFile, CancelStage, Unwind, SendingFile, TakeFile, BeginInline,
              QueueFile, FileFails, AdmitFile, SendingClip, SendClip, TakeClip,
              QueueClip, LockClip, AdmitClip, DropClip, ClipFails, Restore,
              Delivering, Hold, Publish, Finish, Revoke, CancelSend,
              CancelMessage, CancelCanonical, Settle, Finished
<1>2. ASSUME In(t, "admitting")' PROVE lock' = t
  <2>1. CASE Staging(t) \/ Delivering(t)
    <3>1. In(t, "admitting") /\ UNCHANGED lock
      BY <1>0, <1>2, <2>1
         DEF TypeOK, Sends, Staging, Begin, Stamp, Insert, AppendBegin,
             AppendEnd, PrepareBegin, MarkAsFile, CancelStage, Unwind, Delivering,
             Hold, Publish, Finish, Revoke, CancelSend, CancelMessage,
             CancelCanonical, Settle, Finished
    <3> QED BY <1>0, <3>1 DEF Locked
  <2>2. CASE SendingFile(t)
    <3> USE DEF TypeOK, Sends
    <3>1. CASE TakeFile(t) \/ FileFails(t) \/ AdmitFile(t)
      BY <1>0, <1>2, <3>1 DEF TakeFile, FileFails, AdmitFile
    <3>2. ASSUME NEW size \in Sizes, BeginInline(t, size) PROVE FALSE
      BY <1>0, <1>2, <3>2 DEF BeginInline
    <3>3. ASSUME NEW named \in BOOLEAN, QueueFile(t, named) PROVE FALSE
      BY <1>0, <1>2, <3>3 DEF QueueFile
    <3> QED BY <2>2, <3>1, <3>2, <3>3 DEF SendingFile
  <2>3. CASE SendingClip(t)
    BY <1>0, <1>2, <2>3 DEF TypeOK, Sends, SendingClip, SendClip, TakeClip,
       QueueClip, LockClip, AdmitClip, DropClip, ClipFails, Restore, Finished
  <2> QED BY <2>1, <2>2, <2>3
<1>3. lock' # "switch" => manager' = generation'
  <2>1. UNCHANGED <<generation, manager>> /\ (lock = "switch" => lock' = "switch")
    BY StagingAssumption
       DEF Staging, Begin, Stamp, Insert, AppendBegin, AppendEnd, PrepareBegin,
           MarkAsFile, CancelStage, Unwind, SendingFile, TakeFile, BeginInline,
           QueueFile, FileFails, AdmitFile, SendingClip, SendClip, TakeClip,
           QueueClip, LockClip, AdmitClip, DropClip, ClipFails, Restore,
           Delivering, Hold, Publish, Finish, Revoke, CancelSend,
           CancelMessage, CancelCanonical, Settle, Finished
  <2> QED BY <1>0, <2>1 DEF Locked
<1> QED BY <1>1, <1>2, <1>3 DEF Locked

LEMMA RuntimeLocked ==
  ASSUME IInv, Preparing \/ Runtime
  PROVE  Locked'
<1>0. Locked /\ send' = send
  BY DEF IInv, Preparing, PrepareWork, PrepareFails, PrepareFinish, Runtime,
     Warn, Drain, PauseEnds, BeginSwitch, StopRuntime, OpenSession
<1>1. CASE Preparing \/ Warn \/ Drain \/ PauseEnds
  BY <1>0, <1>1 DEF Locked, Preparing, PrepareWork, PrepareFails, PrepareFinish,
     Warn, Drain, PauseEnds
<1>2. CASE BeginSwitch
  BY <1>0, <1>2, StagingAssumption DEF Locked, BeginSwitch
<1>3. CASE StopRuntime
  BY <1>0, <1>3 DEF Locked, StopRuntime
<1>4. ASSUME NEW next \in {generation, generation + 1}, OpenSession(next)
      PROVE  Locked'
  BY <1>0, <1>4, StagingAssumption DEF Locked, OpenSession
<1> QED BY <1>1, <1>2, <1>3, <1>4 DEF Runtime

-----------------------------------------------------------------------------
(* The lanes.  Only four steps touch the budget or a lease.                *)
LEMMA LaneKept ==
  ASSUME LargeLane, UNCHANGED <<budget, lease>>
  PROVE  LargeLane'
  BY DEF LargeLane, Leased

LEMMA LaneReserved ==
  ASSUME TypeOK, LargeLane, NEW t \in Tokens, NEW bytes \in Sizes,
         lease[t] = None, Admits(budget, bytes, pressured),
         budget' = Reserved(budget, LeaseFor(bytes)),
         lease' = [lease EXCEPT ![t] = LeaseFor(bytes)]
  PROVE  LargeLane'
<1>1. LeaseFor(bytes) # None
  BY LeaseForType, StagingAssumption
<1>2. CASE LaneOf(bytes) = "large"
  <2>1. Leased("large") = {} /\ budget'.large = TRUE
    BY <1>2 DEF LargeLane, Admits, Reserved, LeaseFor
  <2>2. Leased("large")' = {t}
    BY <1>1, <1>2, <2>1 DEF Leased, LeaseFor, TypeOK
  <2> QED BY <2>1, <2>2 DEF LargeLane
<1>3. CASE LaneOf(bytes) # "large"
  <2>1. budget'.large = budget.large
    BY <1>3 DEF Reserved, LeaseFor
  <2>2. Leased("large")' = Leased("large")
    BY <1>3 DEF Leased, LeaseFor, TypeOK
  <2> QED BY <2>1, <2>2 DEF LargeLane
<1> QED BY <1>2, <1>3

LEMMA LaneReleased ==
  ASSUME TypeOK, LargeLane, NEW t \in Tokens, lease[t] # None,
         budget' = Released(budget, lease[t]),
         lease' = [lease EXCEPT ![t] = None]
  PROVE  LargeLane'
<1>1. Leased("large")' = Leased("large") \ {t}
  BY DEF Leased, TypeOK
<1>2. CASE lease[t].lane = "large"
  <2>1. Leased("large") = {t} /\ budget'.large = FALSE
    BY <1>2 DEF LargeLane, Leased, Released
  <2> QED BY <1>1, <2>1 DEF LargeLane
<1>3. CASE lease[t].lane # "large"
  <2>1. t \notin Leased("large") /\ budget'.large = budget.large
    BY <1>3 DEF Leased, Released
  <2> QED BY <1>1, <2>1 DEF LargeLane
<1> QED BY <1>2, <1>3

LEMMA LaneRebooked ==
  ASSUME TypeOK, LargeLane, NEW t \in Tokens, NEW bytes \in Sizes,
         lease[t] # None, CanRebook(budget, lease[t], bytes, pressured),
         budget' = Rebooked(budget, lease[t], bytes),
         lease' = [lease EXCEPT ![t] = RebookedLease(budget, lease[t], bytes)]
  PROVE  LargeLane'
<1> DEFINE new == RebookedLease(budget, lease[t], bytes)
           lane == new.lane
<1>1. new # None /\ new \in Leases /\ lease[t] \in Leases
  BY RebookedType, StagingAssumption DEF TypeOK
<1>2. Leased("large")' =
        IF lane = "large" THEN Leased("large") \union {t} ELSE Leased("large") \ {t}
  BY <1>1 DEF Leased, TypeOK
<1>3. budget'.large =
        IF lane = "large" THEN TRUE
        ELSE IF lease[t].lane = "large" THEN FALSE ELSE budget.large
  BY DEF Rebooked, Reserved, Released
<1> HIDE DEF new
<1>4. lease[t].lane = "large" => Leased("large") = {t}
  BY DEF LargeLane, Leased
<1>5. lease[t].lane # "large" => t \notin Leased("large")
  BY DEF Leased
<1>6. lease[t].lane # "large" /\ lane = "large" => Leased("large") = {}
  BY <1>1 DEF new, LargeLane, CanRebook, RebookedLease, LaneOf, Leases, Lanes
<1> QED BY <1>2, <1>3, <1>4, <1>5, <1>6 DEF LargeLane

(* The small lane: the same three steps.                                   *)
LEMMA LeasedWeighed ==
  ASSUME TypeOK
  PROVE  Weighed(lease, Leased("small"))
  BY BytesType DEF TypeOK, Weighed, Leased

(* Without the lease of a token the lane counts what the others add up to. *)
LEMMA SmallWithout ==
  ASSUME TypeOK, SmallInv, NEW t \in Tokens, lease[t] # None
  PROVE  LET rest == Leased("small") \ {t} IN
         /\ IsFiniteSet(rest) /\ Weighed(lease, rest)
         /\ TotalOf(lease, rest) \in Nat
         /\ Released(budget, lease[t]).small = TotalOf(lease, rest)
         /\ TotalOf(lease, rest) <= SmallBudget
<1> DEFINE S == Leased("small")
           rest == S \ {t}
<1>0. IsFiniteSet(S) /\ budget.small = TotalOf(lease, S) /\ budget.small <= SmallBudget
  BY DEF SmallInv, SmallLane
<1>1. IsFiniteSet(rest)
  BY <1>0, FS_RemoveElement
<1>2. Weighed(lease, S) /\ Weighed(lease, rest)
  BY LeasedWeighed DEF Weighed
<1>3. budget.small \in Nat /\ SmallBudget \in Nat /\ lease[t] \in Leases
  BY BudgetAssumption DEF TypeOK, Budgets
<1>4. CASE lease[t].lane = "small"
  <2>1. t \in S
    BY <1>4 DEF Leased
  <2>2. /\ TotalOf(lease, rest) \in Nat
        /\ TotalOf(lease, S) = lease[t].bytes + TotalOf(lease, rest)
    <3> HIDE DEF S
    <3> QED BY <1>0, <1>2, <2>1, TotalRemove DEF rest
  <2>3. lease[t].bytes \in Nat
    BY <1>3, BytesType
  <2>4. Released(budget, lease[t]).small
          = IF budget.small < lease[t].bytes THEN 0 ELSE budget.small - lease[t].bytes
    BY <1>4 DEF Released
  <2> HIDE DEF S, rest
  <2>5. Released(budget, lease[t]).small = TotalOf(lease, rest)
    BY <1>0, <1>3, <2>2, <2>3, <2>4
  <2> QED BY <1>0, <1>1, <1>2, <1>3, <2>2, <2>3, <2>5 DEF rest, S
<1>5. CASE lease[t].lane # "small"
  <2>1. rest = S
    BY <1>5 DEF Leased
  <2>2. Released(budget, lease[t]).small = budget.small
    BY <1>3, <1>5 DEF Released, Leases, Lanes
  <2> QED BY <1>0, <1>1, <1>2, <1>3, <2>1, <2>2
<1> QED BY <1>4, <1>5

(* ... and with a new one it counts that one as well.                      *)
LEMMA SmallWith ==
  ASSUME NEW t \in Tokens, NEW new, new.bytes \in Nat, NEW R, IsFiniteSet(R),
         Weighed(lease, R), t \notin R, R \subseteq Tokens,
         lease \in [Tokens -> Leases \union {None}],
         lease' = [lease EXCEPT ![t] = new]
  PROVE  /\ TotalOf(lease', R) = TotalOf(lease, R)
         /\ TotalOf(lease', R \union {t}) = new.bytes + TotalOf(lease, R)
         /\ IsFiniteSet(R \union {t})
<1>1. Alike(lease, lease', R)
  BY DEF Alike
<1>2. lease'[t] = new
  OBVIOUS
<1>3. TotalOf(lease', R) = TotalOf(lease, R)
  BY <1>1, TotalSame
<1>4. Weighed(lease', R)
  BY <1>1 DEF Weighed, Alike
<1>5. TotalOf(lease', R \union {t}) = lease'[t].bytes + TotalOf(lease', R)
  <2>1. lease'[t].bytes \in Nat
    BY <1>2
  <2> QED BY <1>4, <2>1, TotalAdd
<1> QED BY <1>2, <1>3, <1>5, FS_AddElement

LEMMA SmallReserved ==
  ASSUME TypeOK, SmallInv, NEW t \in Tokens, NEW bytes \in Sizes,
         lease[t] = None, Admits(budget, bytes, pressured),
         budget' = Reserved(budget, LeaseFor(bytes)),
         lease' = [lease EXCEPT ![t] = LeaseFor(bytes)]
  PROVE  SmallInv'
<1> DEFINE S == Leased("small")
<1>0. /\ IsFiniteSet(S) /\ budget.small = TotalOf(lease, S) /\ budget.small <= SmallBudget
      /\ Weighed(lease, S) /\ t \notin S /\ S \subseteq Tokens
  BY LeasedWeighed DEF SmallInv, SmallLane, Leased
<1>1. LeaseFor(bytes) # None /\ LeaseFor(bytes).bytes \in Nat /\ LeaseFor(bytes).bytes = bytes
  BY LeaseForType, StagingAssumption, BudgetAssumption DEF LeaseFor
<1>2. /\ TotalOf(lease', S) = TotalOf(lease, S)
      /\ TotalOf(lease', S \union {t}) = bytes + TotalOf(lease, S)
      /\ IsFiniteSet(S \union {t})
  <2>1. lease \in [Tokens -> Leases \union {None}]
    BY DEF TypeOK
  <2> DEFINE new == LeaseFor(bytes)
  <2>2. new.bytes \in Nat /\ lease' = [lease EXCEPT ![t] = new]
    BY <1>1
  <2> HIDE DEF S, new
  <2>3. /\ TotalOf(lease', S) = TotalOf(lease, S)
        /\ TotalOf(lease', S \union {t}) = new.bytes + TotalOf(lease, S)
        /\ IsFiniteSet(S \union {t})
    BY <1>0, <2>1, <2>2, SmallWith
  <2> QED BY <1>1, <2>3 DEF new
<1>3. CASE LaneOf(bytes) = "large"
  <2>1. Leased("small")' = S
    BY <1>1, <1>3 DEF Leased, LeaseFor, TypeOK
  <2>2. budget'.small = budget.small
    BY <1>3 DEF Reserved, LeaseFor
  <2>3. budget'.small = TotalOf(lease', S) /\ budget'.small <= SmallBudget
    BY <1>0, <1>2, <2>2
  <2> QED BY <1>0, <2>1, <2>3 DEF SmallInv, SmallLane
<1>4. CASE LaneOf(bytes) # "large"
  <2>1. Leased("small")' = S \union {t}
    BY <1>1, <1>4 DEF Leased, LeaseFor, TypeOK, LaneOf
  <2>2. budget'.small = budget.small + bytes /\ budget.small + bytes <= SmallBudget
    BY <1>4 DEF Reserved, LeaseFor, Admits
  <2>4. budget.small \in Nat /\ bytes \in Nat
    BY BudgetAssumption DEF TypeOK, Budgets
  <2>3. budget'.small = TotalOf(lease', S \union {t}) /\ budget'.small <= SmallBudget
    <3> HIDE DEF S
    <3> QED BY <1>0, <1>2, <2>2, <2>4
  <2> QED BY <1>2, <2>1, <2>3 DEF SmallInv, SmallLane
<1> QED BY <1>3, <1>4

LEMMA SmallReleased ==
  ASSUME TypeOK, SmallInv, NEW t \in Tokens, lease[t] # None,
         budget' = Released(budget, lease[t]),
         lease' = [lease EXCEPT ![t] = None]
  PROVE  SmallInv'
<1> DEFINE rest == Leased("small") \ {t}
<1>1. /\ IsFiniteSet(rest) /\ Weighed(lease, rest)
      /\ TotalOf(lease, rest) \in Nat
      /\ budget'.small = TotalOf(lease, rest)
      /\ TotalOf(lease, rest) <= SmallBudget
  BY SmallWithout
<1>2. Leased("small")' = rest
  BY DEF Leased, TypeOK
<1>3. Alike(lease, lease', rest)
  BY DEF Alike, Leased, TypeOK
<1>4. TotalOf(lease', rest) = TotalOf(lease, rest)
  <2> HIDE DEF rest
  <2> QED BY <1>1, <1>3, TotalSame
<1>5. budget'.small = TotalOf(lease', rest) /\ budget'.small <= SmallBudget
  BY <1>1, <1>4
<1> QED BY <1>1, <1>2, <1>5 DEF SmallInv, SmallLane

LEMMA SmallRebooked ==
  ASSUME TypeOK, SmallInv, NEW t \in Tokens, NEW bytes \in Sizes,
         lease[t] # None, CanRebook(budget, lease[t], bytes, pressured),
         budget' = Rebooked(budget, lease[t], bytes),
         lease' = [lease EXCEPT ![t] = RebookedLease(budget, lease[t], bytes)]
  PROVE  SmallInv'
<1> DEFINE rest == Leased("small") \ {t}
           new == RebookedLease(budget, lease[t], bytes)
           b == Released(budget, lease[t])
<1>1. /\ IsFiniteSet(rest) /\ Weighed(lease, rest)
      /\ TotalOf(lease, rest) \in Nat
      /\ b.small = TotalOf(lease, rest)
      /\ TotalOf(lease, rest) <= SmallBudget
  BY SmallWithout
<1>2. new # None /\ new \in Leases /\ lease[t] \in Leases /\ new.bytes = bytes /\ bytes \in Nat
  BY RebookedType, StagingAssumption, BudgetAssumption DEF TypeOK, RebookedLease
<1>3. t \notin rest /\ rest \subseteq Tokens
  BY DEF Leased
<1>4. /\ TotalOf(lease', rest) = TotalOf(lease, rest)
      /\ TotalOf(lease', rest \union {t}) = bytes + TotalOf(lease, rest)
      /\ IsFiniteSet(rest \union {t})
  <2>1. lease \in [Tokens -> Leases \union {None}]
    BY DEF TypeOK
  <2>2. new.bytes \in Nat /\ lease' = [lease EXCEPT ![t] = new]
    BY <1>2
  <2> HIDE DEF rest, new
  <2>3. /\ TotalOf(lease', rest) = TotalOf(lease, rest)
        /\ TotalOf(lease', rest \union {t}) = new.bytes + TotalOf(lease, rest)
        /\ IsFiniteSet(rest \union {t})
    BY <1>1, <1>3, <2>1, <2>2, SmallWith
  <2> QED BY <1>2, <2>3
<1>5. CASE new.lane = "large"
  <2>1. Leased("small")' = rest
    <3> HIDE DEF new
    <3> QED BY <1>2, <1>5 DEF Leased, TypeOK, new
  <2>2. budget'.small = b.small
    BY <1>5 DEF Rebooked, Reserved
  <2>3. budget'.small = TotalOf(lease', rest) /\ budget'.small <= SmallBudget
    <3> HIDE DEF rest, b
    <3> QED BY <1>1, <1>4, <2>2
  <2> QED BY <1>1, <2>1, <2>3 DEF SmallInv, SmallLane
<1>6. CASE new.lane # "large"
  <2>0. new.lane = "small"
    BY <1>2, <1>6 DEF Leases, Lanes
  <2>1. Leased("small")' = rest \union {t}
    <3> HIDE DEF new
    <3> QED BY <1>2, <2>0 DEF Leased, TypeOK, new
  <2>2. budget'.small = b.small + bytes
    BY <1>2, <1>6 DEF Rebooked, Reserved
  <2>4. b.small + bytes <= SmallBudget
    <3>1. CASE lease[t].lane = "large"
      <4>1. LeavesLarge(budget, lease[t], bytes)
        BY <1>6, <3>1 DEF RebookedLease
      <4>2. b.small = budget.small
        BY <3>1 DEF Released
      <4> QED BY <4>1, <4>2 DEF LeavesLarge
    <3>2. CASE lease[t].lane # "large"
      <4>1. LaneOf(bytes) # "large"
        BY <1>6, <3>2 DEF RebookedLease
      <4> QED BY <3>2, <4>1 DEF CanRebook
    <3> QED BY <3>1, <3>2
  <2>3. budget'.small = TotalOf(lease', rest \union {t}) /\ budget'.small <= SmallBudget
    <3> HIDE DEF rest, b
    <3> QED BY <1>1, <1>2, <1>4, <2>2, <2>4
  <2> QED BY <1>4, <2>1, <2>3 DEF SmallInv, SmallLane
<1> QED BY <1>5, <1>6

LEMMA LaneStep ==
  ASSUME IInv, Next
  PROVE  LanesInv'
<1>0. TypeOK /\ LargeLane /\ SmallInv /\ \A t \in Tokens : Owned(t)
  BY DEF IInv, TokenInv, LanesInv
<1>1. ASSUME NEW t \in Tokens, NEW kind \in Kinds, NEW size \in Sizes,
             Begin(t, kind, size) \/ BeginInline(t, size)
      PROVE  LanesInv'
  <2>1. lease[t] = None
    BY <1>0, <1>1 DEF Begin, BeginInline, Owned
  <2> QED BY <1>0, <1>1, <2>1, LaneReserved, SmallReserved
       DEF Begin, BeginInline, LanesInv
<1>2. ASSUME NEW t \in Tokens, Unwind(t) PROVE LanesInv'
  <2>1. lease[t] # None
    BY <1>0, <1>2 DEF Unwind, Owned
  <2> QED BY <1>0, <1>2, <2>1, LaneReleased, SmallReleased DEF Unwind, LanesInv
<1>3. CASE PrepareFinish
  <2>1. preparer.token \in Tokens /\ preparer.size \in Sizes
    BY <1>0, <1>3 DEF PrepareFinish, Preparations, TypeOK
  <2>2. lease[preparer.token] # None
    BY <1>0, <1>3, <2>1 DEF PrepareFinish, Owned
  <2> QED BY <1>0, <1>3, <2>1, <2>2, LaneRebooked, SmallRebooked
       DEF PrepareFinish, LanesInv
<1>4. CASE UNCHANGED <<budget, lease>>
  BY <1>0, <1>4, LaneKept DEF LanesInv, SmallInv, SmallLane, Leased
<1>5. ASSUME NEW t \in Tokens, Staging(t) PROVE LanesInv'
  <2>1. CASE \E kind \in Kinds, size \in Sizes : Begin(t, kind, size)
    BY <1>1, <2>1
  <2>2. CASE ~\E kind \in Kinds, size \in Sizes : Begin(t, kind, size)
    BY <1>2, <1>4, <1>5, <2>2 DEF Staging, Stamp, Insert, AppendBegin, AppendEnd,
       PrepareBegin, MarkAsFile, CancelStage
  <2> QED BY <2>1, <2>2
<1>6. ASSUME NEW t \in Tokens, SendingFile(t) \/ SendingClip(t) \/ Delivering(t)
      PROVE  LanesInv'
  <2>1. ASSUME NEW size \in Sizes, BeginInline(t, size) PROVE LanesInv'
    <3>1. lease[t] = None
      BY <1>0, <2>1 DEF BeginInline, Owned
    <3> QED BY <1>0, <2>1, <3>1, LaneReserved, SmallReserved DEF BeginInline, LanesInv
  <2>2. CASE ~\E size \in Sizes : BeginInline(t, size)
    BY <1>4, <1>6, <2>2
       DEF SendingFile, TakeFile, QueueFile, FileFails, AdmitFile, SendingClip,
           SendClip, TakeClip, QueueClip, LockClip, AdmitClip, DropClip, ClipFails,
           Restore, Delivering, Hold, Publish, Finish, Revoke, CancelSend,
           CancelMessage, CancelCanonical, Settle
  <2> QED BY <2>1, <2>2
<1>7. CASE Preparing \/ Runtime
  BY <1>3, <1>4, <1>7 DEF Preparing, PrepareWork, PrepareFails, Runtime, Warn,
     Drain, PauseEnds, BeginSwitch, StopRuntime, OpenSession, Cleared
<1> QED BY <1>5, <1>6, <1>7 DEF Next

-----------------------------------------------------------------------------
LEMMA NextIInv == IInv /\ Next => IInv'
<1> SUFFICES ASSUME IInv, Next PROVE IInv'
  OBVIOUS
<1>1. LanesInv'
  BY LaneStep
<1>2. ASSUME NEW t \in Tokens,
             Staging(t) \/ SendingFile(t) \/ SendingClip(t) \/ Delivering(t)
      PROVE  IInv'
  <2>1. TypeOK'
    BY <1>2, StagingType, SendingType, DeliveringType
  <2>2. ASSUME NEW u \in Tokens PROVE TokenInv(u)'
    <3>1. CASE u = t
      BY <1>2, <3>1, StagingKeeps, SendingFileKeeps, SendingClipKeeps,
         DeliveringKeeps
    <3>2. CASE u # t
      BY <1>2, <3>2, OthersKept, KeptInv DEF IInv
    <3> QED BY <3>1, <3>2
  <2>3. Locked'
    BY <1>2, TokenLocked
  <2> QED BY <1>1, <2>1, <2>2, <2>3 DEF IInv
<1>3. CASE Preparing \/ Runtime
  <2>1. ASSUME NEW u \in Tokens PROVE TokenInv(u)'
    BY <1>3, RuntimeKeeps
  <2> QED BY <1>1, <1>3, <2>1, RuntimeType, RuntimeLocked DEF IInv
<1> QED BY <1>2, <1>3 DEF Next

LEMMA StutterIInv == IInv /\ UNCHANGED vars => IInv'
  BY DEF IInv, vars, TypeOK, TokenInv, Placed, Owned, WritesFit, OfSession,
     Locked, LanesInv, LargeLane, SmallInv, SmallLane, Leased

LEMMA InvariantIInv == Spec => []IInv
<1>1. IInv /\ [Next]_vars => IInv'
  BY NextIInv, StutterIInv
<1> QED BY <1>1, InitIInv, PTL DEF Spec

-----------------------------------------------------------------------------
(***************************************************************************)
(* The second half of the invariant: what becomes of cancellations, of     *)
(* clips a send has taken and of files, given the first half.              *)
(***************************************************************************)
Registering == {"fenced", "reading", "waiting", "admitting", "queued", "held",
                "published", "revoking"}
(* An operation belongs to a send with a client id that is under way, and  *)
(* such a send has one until its flag is set.  A clip is never an image.   *)
Named(t) ==
  /\ op[t] # "none" => send[t].named /\ send[t].phase \in Registering
  /\ op[t] = "published" => send[t].phase \in {"published", "revoking"}
  /\ In(t, "published") => op[t] # "preparing"
  /\ t \in stopped => send[t].named
  /\ stage[t].kind = "clip" => stage[t].image = "ready"
  /\ At(t, "none") => stage[t].kind # "clip"
  /\ stage[t].kind # "clip" /\ send[t].phase \in {"idle", "reading"}
       => ~send[t].named
  /\ send[t].phase \in {"fenced", "restoring"} => stage[t].kind = "clip"
  /\ send[t].named /\ send[t].phase \in {"fenced", "reading", "waiting", "admitting"}
       => op[t] # "none" \/ t \in stopped

(* It is of the session, unless a switch is about to clear it.             *)
Fenced(t) ==
  op[t] # "none" =>
    send[t].fence = generation \/ (lock = "switch" /\ manager # 0)

(* A message is in the router of the manager that queued it.               *)
Live(t) == message[t] = "live" => signer[t] = manager /\ manager # 0

(* One of this session was queued by a send of this session, and if its    *)
(* flag is set its cancellation is at work or its send will see the flag.  *)
Heeded(t) ==
  message[t] = "live" /\ signer[t] = generation =>
    /\ send[t].named => send[t].fence = generation
    /\ t \in stopped \ cancels => send[t].phase \in {"queued", "held", "revoking"}

(* Before it is stopped the manager is of an earlier session.              *)
Older ==
  /\ manager <= generation
  /\ lock = "switch" /\ manager # 0 => manager < generation

(* Only clips a send has taken are in flight, and one that was given up    *)
(* never returns to the collection.                                        *)
InHand(t) ==
  /\ t \in inflight => At(t, "taken") /\ stage[t].kind = "clip"
  /\ t \in discarded => stage[t].place \in {"taken", "gone"} /\ stage[t].kind = "clip"

(* Files and outputs have an owner.                                        *)
Left(t) ==
  /\ t \in files /\ At(t, "gone") => t \in unwinding
  /\ t \in outputs => preparer # None /\ preparer.token = t

SendInv ==
  \A t \in Tokens :
    Named(t) /\ Fenced(t) /\ Live(t) /\ Heeded(t) /\ InHand(t) /\ Left(t)

WholeInv == IInv /\ SendInv /\ Older

LEMMA InitWhole == Init => WholeInv
<1> SUFFICES ASSUME Init PROVE WholeInv
  OBVIOUS
<1>1. SendInv
  BY DEF Init, SendInv, Named, Fenced, Live, Heeded, InHand, Left
<1>2. Older
  BY StagingAssumption DEF Init, Older
<1> QED BY <1>1, <1>2, InitIInv DEF WholeInv

(* Operations, step by step.                                               *)
LEMMA NamedStaging ==
  ASSUME WholeInv, NEW t \in Tokens, Staging(t), NEW u \in Tokens
  PROVE  Named(u)'
<1> USE DEF TypeOK, Stages, Sends, Named
<1>0. TypeOK /\ Named(u) /\ Placed(u)
  BY DEF WholeInv, IInv, SendInv, TokenInv
<1>1. ASSUME NEW kind \in Kinds, NEW size \in Sizes, Begin(t, kind, size)
      PROVE  Named(u)'
  BY <1>0, <1>1 DEF Begin, Placed
<1>2. CASE Stamp(t)
  BY <1>0, <1>2 DEF Stamp
<1>8. CASE Insert(t)
  BY <1>0, <1>8 DEF Insert
<1>5. CASE MarkAsFile(t)
  BY <1>0, <1>5 DEF MarkAsFile, RawImage
<1>6. CASE PrepareBegin(t)
  BY <1>0, <1>6 DEF PrepareBegin, RawImage
<1>3. ASSUME NEW n \in Sizes, AppendBegin(t, n) PROVE Named(u)'
  BY <1>0, <1>3 DEF AppendBegin
<1>7. ASSUME NEW ok \in BOOLEAN, AppendEnd(t, ok) PROVE Named(u)'
  BY <1>0, <1>7 DEF AppendEnd
<1>4. CASE CancelStage(t) \/ Unwind(t)
  BY <1>0, <1>4 DEF CancelStage, Unwind, Dropped
<1> QED BY <1>1, <1>2, <1>3, <1>4, <1>5, <1>6, <1>7, <1>8 DEF Staging

LEMMA NamedFile ==
  ASSUME WholeInv, NEW t \in Tokens, SendingFile(t), NEW u \in Tokens
  PROVE  Named(u)'
<1> USE DEF TypeOK, Stages, Sends, Named, Registering
<1>0. TypeOK /\ Named(u) /\ Placed(u) /\ Named(t) /\ Placed(t)
  BY DEF WholeInv, IInv, SendInv, TokenInv
<1>1. CASE TakeFile(t)
  BY <1>0, <1>1 DEF TakeFile
<1>4. CASE FileFails(t)
  BY <1>0, <1>4 DEF FileFails, Dropped, Unregistered
<1>5. CASE AdmitFile(t)
  BY <1>0, <1>5 DEF AdmitFile, Admitted
<1>2. ASSUME NEW size \in Sizes, BeginInline(t, size) PROVE Named(u)'
    BY <1>0, <1>2 DEF BeginInline, Placed
<1>3. ASSUME NEW named \in BOOLEAN, QueueFile(t, named) PROVE Named(u)'
    BY <1>0, <1>3 DEF QueueFile, Registered
<1> QED BY <1>1, <1>2, <1>3, <1>4, <1>5 DEF SendingFile

LEMMA NamedClip ==
  ASSUME WholeInv, NEW t \in Tokens, SendingClip(t), NEW u \in Tokens
  PROVE  Named(u)'
<1> USE DEF TypeOK, Stages, Sends, Named, Registering, Finished, Unregistered
<1>0. TypeOK /\ Named(u) /\ Placed(u) /\ Named(t) /\ Placed(t)
  BY DEF WholeInv, IInv, SendInv, TokenInv
<1>1. ASSUME NEW named \in BOOLEAN, SendClip(t, named) PROVE Named(u)'
  BY <1>0, <1>1 DEF SendClip, Registered
<1>2. CASE TakeClip(t)
  <2>1. CASE Complete(t)
    BY <1>0, <1>2, <2>1 DEF TakeClip
  <2>2. CASE ~Complete(t)
    BY <1>0, <1>2, <2>2 DEF TakeClip
  <2> QED BY <2>1, <2>2
<1>3. CASE QueueClip(t)
  BY <1>0, <1>3 DEF QueueClip
<1>8. CASE LockClip(t)
  BY <1>0, <1>8 DEF LockClip
<1>4. CASE AdmitClip(t)
  BY <1>0, <1>4 DEF AdmitClip, Admitted
<1>5. CASE DropClip(t)
  BY <1>0, <1>5 DEF DropClip, Dropped
<1>6. CASE ClipFails(t)
  BY <1>0, <1>6 DEF ClipFails
<1>7. CASE Restore(t)
  <2>1. CASE Restorable(t)
    BY <1>0, <1>7, <2>1 DEF Restore
  <2>2. CASE ~Restorable(t)
    BY <1>0, <1>7, <2>2 DEF Restore, Dropped
  <2> QED BY <2>1, <2>2
<1> QED BY <1>1, <1>2, <1>3, <1>4, <1>5, <1>6, <1>7, <1>8 DEF SendingClip

LEMMA NamedDelivering ==
  ASSUME WholeInv, NEW t \in Tokens, Delivering(t), NEW u \in Tokens
  PROVE  Named(u)'
<1> USE DEF TypeOK, Stages, Sends, Named, Registering, Finished, Unregistered,
        ReleaseHeld, Withdrawn
<1>0. TypeOK /\ Named(u) /\ Placed(u) /\ Named(t) /\ Placed(t)
  BY DEF WholeInv, IInv, SendInv, TokenInv
<1>1. CASE Hold(t)
  BY <1>0, <1>1 DEF Hold
<1>2. CASE Publish(t)
  <2>1. CASE ~send[t].named
    BY <1>0, <1>2, <2>1 DEF Publish
  <2>2. CASE send[t].named /\ CancelledFirst(t)
    BY <1>0, <1>2, <2>2 DEF Publish, Noted
  <2>3. CASE send[t].named /\ ~CancelledFirst(t)
    <3>1. CASE u = t
      BY <1>0, <1>2, <2>3, <3>1 DEF Publish, CancelledFirst
    <3>2. CASE u # t
      BY <1>0, <1>2, <2>3, <3>2 DEF Publish
    <3> QED BY <3>1, <3>2
  <2> QED BY <2>1, <2>2, <2>3
<1>6. CASE Finish(t)
  BY <1>0, <1>6 DEF Finish
<1>3. CASE Revoke(t)
  BY <1>0, <1>3 DEF Revoke
<1>4. CASE CancelSend(t) \/ CancelMessage(t)
  BY <1>0, <1>4 DEF CancelSend, CancelMessage
<1>5. CASE CancelCanonical(t) \/ Settle(t)
  BY <1>0, <1>5 DEF CancelCanonical, Settle
<1> QED BY <1>1, <1>2, <1>3, <1>4, <1>5, <1>6 DEF Delivering

LEMMA NamedRuntime ==
  ASSUME WholeInv, Preparing \/ Runtime, NEW u \in Tokens
  PROVE  Named(u)'
<1> USE DEF TypeOK, Stages, Sends, Named, Registering, Drained, Cleared
<1>0. TypeOK /\ Named(u)
  BY DEF WholeInv, IInv, SendInv, TokenInv
<1>1. CASE Preparing
  <2>1. ASSUME NEW size \in Sizes, PrepareWork(size) PROVE Named(u)'
     BY <1>0, <2>1 DEF PrepareWork
  <2>2. CASE PrepareFails
     <3>1. CASE At(preparer.token, "staged") /\ stage[preparer.token].image = "preparing"
       BY <1>0, <2>2, <3>1 DEF PrepareFails, Aborted
     <3>2. CASE UNCHANGED stage
       BY <1>0, <2>2, <3>2 DEF PrepareFails
     <3> QED BY <2>2, <3>1, <3>2 DEF PrepareFails, Aborted
  <2>3. CASE PrepareFinish
     BY <1>0, <2>3 DEF PrepareFinish
  <2> QED BY <1>1, <2>1, <2>2, <2>3 DEF Preparing
<1>2. CASE Runtime
  BY <1>0, <1>2 DEF Runtime, Warn, Drain, PauseEnds, BeginSwitch, StopRuntime, OpenSession
<1> QED BY <1>1, <1>2

(* Messages and their managers.                                            *)
LEMMA LiveStep ==
  ASSUME WholeInv, Next, NEW u \in Tokens
  PROVE  Live(u)'
<1> USE DEF TypeOK, Live
<1>0. TypeOK /\ Live(u)
  BY DEF WholeInv, IInv, SendInv
<1>1. ASSUME NEW t \in Tokens, Staging(t) PROVE Live(u)'
  BY <1>0, <1>1 DEF Staging, Begin, Stamp, Insert, AppendBegin, AppendEnd,
     PrepareBegin, MarkAsFile, CancelStage, Unwind
<1>2. ASSUME NEW t \in Tokens, SendingFile(t) PROVE Live(u)'
  BY <1>0, <1>2 DEF SendingFile, TakeFile, BeginInline, QueueFile, FileFails,
     AdmitFile, Admitted
<1>3. ASSUME NEW t \in Tokens, SendingClip(t) PROVE Live(u)'
  BY <1>0, <1>3 DEF SendingClip, SendClip, TakeClip, QueueClip, LockClip, AdmitClip,
     DropClip, ClipFails, Restore, Admitted, Finished
<1>4. ASSUME NEW t \in Tokens, Delivering(t) PROVE Live(u)'
  BY <1>0, <1>4 DEF Delivering, Hold, Publish, Finish, Revoke, CancelSend,
     CancelMessage, CancelCanonical, Settle, Finished, Withdrawn
<1>5. CASE Preparing
  BY <1>0, <1>5 DEF Preparing, PrepareWork, PrepareFails, PrepareFinish
<1>6. CASE Runtime
  BY <1>0, <1>6 DEF Runtime, Warn, Drain, PauseEnds, BeginSwitch, StopRuntime, OpenSession
<1> QED BY <1>1, <1>2, <1>3, <1>4, <1>5, <1>6 DEF Next

(* Clips in flight.                                                        *)
LEMMA InHandStep ==
  ASSUME WholeInv, Next, NEW u \in Tokens
  PROVE  InHand(u)'
<1> USE DEF TypeOK, Stages, InHand, Dropped
<1>0. TypeOK /\ InHand(u) /\ Placed(u)
  BY DEF WholeInv, IInv, SendInv, TokenInv
<1>1. ASSUME NEW t \in Tokens, Staging(t) PROVE InHand(u)'
  <2>1. CASE \E kind \in Kinds, size \in Sizes : Begin(t, kind, size)
    BY <1>0, <2>1 DEF Begin
  <2>2. CASE Stamp(t) \/ Insert(t) \/ MarkAsFile(t) \/ PrepareBegin(t)
    BY <1>0, <2>2 DEF Stamp, Insert, MarkAsFile, PrepareBegin, RawImage
  <2>3. CASE (\E n \in Sizes : AppendBegin(t, n)) \/ \E ok \in BOOLEAN : AppendEnd(t, ok)
    BY <1>0, <2>3 DEF AppendBegin, AppendEnd
  <2>4. CASE CancelStage(t) \/ Unwind(t)
    BY <1>0, <2>4 DEF CancelStage, Unwind
  <2> QED BY <1>1, <2>1, <2>2, <2>3, <2>4 DEF Staging
<1>2. ASSUME NEW t \in Tokens, SendingFile(t) PROVE InHand(u)'
  BY <1>0, <1>2 DEF SendingFile, TakeFile, BeginInline, QueueFile, FileFails,
     AdmitFile, Complete
<1>3. ASSUME NEW t \in Tokens, SendingClip(t) PROVE InHand(u)'
  <2>0. Named(t) /\ Placed(t)
    BY DEF WholeInv, IInv, SendInv, TokenInv
  <2>1. CASE \E named \in BOOLEAN : SendClip(t, named)
    BY <1>0, <2>1 DEF SendClip
  <2>2. CASE TakeClip(t)
    BY <1>0, <2>0, <2>2 DEF TakeClip, Complete, Named
  <2>3. CASE QueueClip(t) \/ LockClip(t) \/ AdmitClip(t) \/ ClipFails(t)
    BY <1>0, <2>3 DEF QueueClip, LockClip, AdmitClip, ClipFails
  <2>4. CASE DropClip(t)
    BY <1>0, <2>4 DEF DropClip
  <2>5. CASE Restore(t) /\ Restorable(t)
    BY <1>0, <2>5 DEF Restore, Restorable, Current
  <2>6. CASE Restore(t) /\ ~Restorable(t)
    BY <1>0, <2>6 DEF Restore
  <2> QED BY <1>3, <2>1, <2>2, <2>3, <2>4, <2>5, <2>6 DEF SendingClip
<1>4. ASSUME NEW t \in Tokens, Delivering(t) PROVE InHand(u)'
  BY <1>0, <1>4 DEF Delivering, Hold, Publish, Finish, Revoke, CancelSend,
     CancelMessage, CancelCanonical, Settle
<1>5. CASE Preparing
  BY <1>0, <1>5 DEF Preparing, PrepareWork, PrepareFails, PrepareFinish, Aborted
<1>6. CASE Runtime
  BY <1>0, <1>6 DEF Runtime, Warn, Drain, PauseEnds, BeginSwitch, StopRuntime, OpenSession,
     Drained, Cleared
<1> QED BY <1>1, <1>2, <1>3, <1>4, <1>5, <1>6 DEF Next

(* Files.                                                                  *)
LEMMA LeftStep ==
  ASSUME WholeInv, Next, NEW u \in Tokens
  PROVE  Left(u)'
<1> USE DEF TypeOK, Stages, Left, Dropped
<1>0. TypeOK /\ Left(u)
  BY DEF WholeInv, IInv, SendInv, TokenInv
<1>1. ASSUME NEW t \in Tokens, Staging(t) PROVE Left(u)'
  BY <1>0, <1>1, PreparationAssumption DEF Staging, Begin, Stamp, Insert, AppendBegin, AppendEnd,
     PrepareBegin, MarkAsFile, CancelStage, Unwind
<1>2. ASSUME NEW t \in Tokens, SendingFile(t) PROVE Left(u)'
  <2>1. CASE TakeFile(t)
    BY <1>0, <2>1 DEF TakeFile
  <2>4. CASE FileFails(t)
    BY <1>0, <2>4 DEF FileFails
  <2>5. CASE AdmitFile(t)
    BY <1>0, <2>5 DEF AdmitFile, Admitted
  <2>2. CASE \E size \in Sizes : BeginInline(t, size)
    BY <1>0, <2>2 DEF BeginInline
  <2>3. CASE \E named \in BOOLEAN : QueueFile(t, named)
    BY <1>0, <2>3 DEF QueueFile
  <2> QED BY <1>2, <2>1, <2>2, <2>3, <2>4, <2>5 DEF SendingFile
<1>3. ASSUME NEW t \in Tokens, SendingClip(t) PROVE Left(u)'
  <2>1. CASE \E named \in BOOLEAN : SendClip(t, named)
    BY <1>0, <2>1 DEF SendClip
  <2>2. CASE TakeClip(t)
    BY <1>0, <2>2 DEF TakeClip
  <2>3. CASE QueueClip(t) \/ LockClip(t) \/ AdmitClip(t) \/ ClipFails(t)
    BY <1>0, <2>3 DEF QueueClip, LockClip, AdmitClip, ClipFails
  <2>4. CASE DropClip(t)
    BY <1>0, <2>4 DEF DropClip
  <2>5. CASE Restore(t)
    BY <1>0, <2>5 DEF Restore
  <2> QED BY <1>3, <2>1, <2>2, <2>3, <2>4, <2>5 DEF SendingClip
<1>4. ASSUME NEW t \in Tokens, Delivering(t) PROVE Left(u)'
  BY <1>0, <1>4 DEF Delivering, Hold, Publish, Finish, Revoke, CancelSend,
     CancelMessage, CancelCanonical, Settle, Withdrawn, ReleaseHeld
<1>5. ASSUME NEW size \in Sizes, PrepareWork(size) PROVE Left(u)'
  <2>1. preparer' \in Preparations /\ preparer'.token = preparer.token
    BY <1>0, <1>5 DEF PrepareWork, Preparations
  <2> QED BY <1>0, <1>5, <2>1, PreparationAssumption DEF PrepareWork
<1>5a. CASE PrepareFails \/ PrepareFinish
  BY <1>0, <1>5a DEF PrepareFails, PrepareFinish, Aborted
<1>6. CASE Runtime
  BY <1>0, <1>6 DEF Runtime, Warn, Drain, PauseEnds, BeginSwitch, StopRuntime, OpenSession,
     Drained, Cleared, Staged
<1> QED BY <1>1, <1>2, <1>3, <1>4, <1>5, <1>5a, <1>6 DEF Next, Preparing

(* The manager and the session.                                            *)
LEMMA OlderStep ==
  ASSUME WholeInv, Next
  PROVE  Older'
<1> USE DEF TypeOK, Older, Generations
<1>0. TypeOK /\ Older /\ Locked /\ generation \in Nat /\ manager \in Nat
  BY StagingAssumption DEF WholeInv, IInv
<1>1. CASE \E t \in Tokens : Staging(t) \/ SendingFile(t) \/ SendingClip(t) \/ Delivering(t)
  <2> DEFINE Quiet == /\ UNCHANGED <<generation, manager>>
                      /\ lock' = "switch" => lock = "switch"
  <2>1. ASSUME NEW t \in Tokens, Staging(t) PROVE Quiet
    BY <2>1 DEF Staging, Begin, Stamp, Insert, AppendBegin, AppendEnd, PrepareBegin,
           MarkAsFile, CancelStage, Unwind
  <2>2. ASSUME NEW t \in Tokens, SendingFile(t) PROVE Quiet
    BY <2>2 DEF SendingFile, TakeFile, BeginInline,
           QueueFile, FileFails, AdmitFile
  <2>3. ASSUME NEW t \in Tokens, SendingClip(t) PROVE Quiet
    BY <2>3, StagingAssumption DEF SendingClip, SendClip, TakeClip,
           QueueClip, LockClip, AdmitClip, DropClip, ClipFails, Restore, Finished
  <2>4. ASSUME NEW t \in Tokens, Delivering(t) PROVE Quiet
    BY <2>4 DEF Delivering, Hold, Publish, Finish, Revoke, CancelSend,
           CancelMessage, CancelCanonical, Settle, Finished
  <2>5. Quiet
    BY <1>1, <2>1, <2>2, <2>3, <2>4
  <2> QED BY <1>0, <2>5
<1>5. CASE Preparing
  BY <1>0, <1>5 DEF Preparing, PrepareWork, PrepareFails, PrepareFinish
<1>6. CASE Runtime
  BY <1>0, <1>6, StagingAssumption DEF Runtime, Warn, Drain, PauseEnds, BeginSwitch,
     StopRuntime, OpenSession, Locked
<1> QED BY <1>1, <1>5, <1>6 DEF Next

(* The sessions of operations.                                             *)
LEMMA FencedStep ==
  ASSUME WholeInv, Next, NEW u \in Tokens
  PROVE  Fenced(u)'
<1> USE DEF TypeOK, Sends, Fenced, Finished, Unregistered
<1>0. TypeOK /\ Fenced(u) /\ Named(u) /\ Locked
  BY DEF WholeInv, IInv, SendInv
<1>1. ASSUME NEW t \in Tokens, Staging(t) PROVE Fenced(u)'
  BY <1>0, <1>1 DEF Staging, Begin, Stamp, Insert, AppendBegin, AppendEnd,
     PrepareBegin, MarkAsFile, CancelStage, Unwind
<1>2. ASSUME NEW t \in Tokens, SendingFile(t) PROVE Fenced(u)'
  <2>1. CASE TakeFile(t) \/ FileFails(t) \/ AdmitFile(t)
    BY <1>0, <2>1 DEF TakeFile, FileFails, AdmitFile, Named
  <2>2. ASSUME NEW size \in Sizes, BeginInline(t, size) PROVE Fenced(u)'
    BY <1>0, <2>2 DEF BeginInline
  <2>3. ASSUME NEW named \in BOOLEAN, QueueFile(t, named) PROVE Fenced(u)'
    BY <1>0, <2>3 DEF QueueFile, Registered, Named
  <2> QED BY <1>2, <2>1, <2>2, <2>3 DEF SendingFile
<1>3. ASSUME NEW t \in Tokens, SendingClip(t) PROVE Fenced(u)'
  <2>1. ASSUME NEW named \in BOOLEAN, SendClip(t, named) PROVE Fenced(u)'
    BY <1>0, <2>1 DEF SendClip, Registered, Named, Registering
  <2>2. CASE TakeClip(t)
    BY <1>0, <2>2 DEF TakeClip
  <2>3. CASE \/ QueueClip(t) \/ LockClip(t) \/ AdmitClip(t)
             \/ DropClip(t) \/ ClipFails(t) \/ Restore(t)
    BY <1>0, <2>3, StagingAssumption DEF QueueClip, LockClip, AdmitClip, DropClip,
       ClipFails, Restore
  <2> QED BY <1>3, <2>1, <2>2, <2>3 DEF SendingClip
<1>4. ASSUME NEW t \in Tokens, Delivering(t) PROVE Fenced(u)'
  BY <1>0, <1>4, StagingAssumption DEF Delivering, Hold, Publish, Finish, Revoke, CancelSend,
     CancelMessage, CancelCanonical, Settle, Noted, CancelledFirst
<1>5. CASE Preparing
  BY <1>0, <1>5 DEF Preparing, PrepareWork, PrepareFails, PrepareFinish
<1>6. CASE Runtime
  BY <1>0, <1>6, StagingAssumption DEF Runtime, Warn, Drain, PauseEnds, BeginSwitch,
     StopRuntime, OpenSession, Cleared, Locked, Generations
<1> QED BY <1>1, <1>2, <1>3, <1>4, <1>5, <1>6 DEF Next

(* Cancellations: a flag set before publication is seen by it, one set     *)
(* after it adds a cancellation by the canonical id.                       *)
LEMMA HeededStep ==
  ASSUME WholeInv, Next, NEW u \in Tokens
  PROVE  Heeded(u)'
<1> USE DEF TypeOK, Sends, Heeded, Finished, Unregistered
<1>0. /\ TypeOK /\ Heeded(u) /\ Named(u) /\ Fenced(u) /\ Live(u) /\ Placed(u)
      /\ Older /\ Locked
      /\ generation \in Nat /\ manager \in Nat /\ OfSession(u)
  BY StagingAssumption DEF WholeInv, IInv, SendInv, TypeOK, TokenInv, Generations
<1>1. ASSUME NEW t \in Tokens, Staging(t) PROVE Heeded(u)'
  BY <1>0, <1>1 DEF Staging, Begin, Stamp, Insert, AppendBegin, AppendEnd,
     PrepareBegin, MarkAsFile, CancelStage, Unwind
<1>2. ASSUME NEW t \in Tokens, SendingFile(t) PROVE Heeded(u)'
  <2>1. CASE TakeFile(t) \/ FileFails(t)
    BY <1>0, <2>1 DEF TakeFile, FileFails, Placed, Ended
  <2>2. ASSUME NEW size \in Sizes, BeginInline(t, size) PROVE Heeded(u)'
    BY <1>0, <2>2 DEF BeginInline, Placed, Ended
  <2>3. ASSUME NEW named \in BOOLEAN, QueueFile(t, named) PROVE Heeded(u)'
    BY <1>0, <2>3 DEF QueueFile, Registered, Named, Placed, Ended
  <2>4. CASE AdmitFile(t)
    BY <1>0, <2>4 DEF AdmitFile, Admitted, Named, Fenced, Older
  <2> QED BY <1>2, <2>1, <2>2, <2>3, <2>4 DEF SendingFile
<1>3. ASSUME NEW t \in Tokens, SendingClip(t) PROVE Heeded(u)'
  <2>1. ASSUME NEW named \in BOOLEAN, SendClip(t, named) PROVE Heeded(u)'
    BY <1>0, <2>1 DEF SendClip, Registered, Named, Placed, Ended
  <2>2. CASE TakeClip(t)
    BY <1>0, <2>2 DEF TakeClip, Placed, Ended
  <2>3. CASE QueueClip(t) \/ LockClip(t) \/ DropClip(t) \/ ClipFails(t) \/ Restore(t)
    BY <1>0, <2>3 DEF QueueClip, LockClip, AdmitClip, DropClip, ClipFails, Restore, Placed, Ended
  <2>4. CASE AdmitClip(t)
    BY <1>0, <2>4, StagingAssumption DEF AdmitClip, Admitted, Named, Fenced, Locked, Older
  <2> QED BY <1>3, <2>1, <2>2, <2>3, <2>4 DEF SendingClip
<1>4. ASSUME NEW t \in Tokens, Delivering(t) PROVE Heeded(u)'
  <2>1. CASE Hold(t) \/ Finish(t) \/ CancelMessage(t)
    BY <1>0, <2>1 DEF Hold, Finish, CancelMessage
  <2>2. CASE Publish(t)
    BY <1>0, <2>2 DEF Publish, Noted, CancelledFirst, Named
  <2>3. CASE Revoke(t) \/ CancelCanonical(t) \/ Settle(t)
    BY <1>0, <2>3 DEF Revoke, CancelCanonical, Settle, Withdrawn, ReleaseHeld
  <2>4. CASE CancelSend(t)
    <3>1. CASE u # t
      BY <1>0, <2>4, <3>1 DEF CancelSend
    <3>2. CASE u = t
      <4>1. ASSUME message[t] = "live", signer[t] = generation
            PROVE  send[t].phase \in {"queued", "held", "revoking"} \/ op[t] = "published"
        BY <1>0, <2>4, <3>2, <4>1 DEF CancelSend, Named, Registering, Placed, Ended
      <4>2. ASSUME message[t] = "live", signer[t] = generation
            PROVE  send[t].named /\ send[t].fence = generation
        BY <1>0, <2>4, <3>2, <4>2 DEF CancelSend, Named
      <4> QED BY <1>0, <2>4, <3>2, <4>1, <4>2 DEF CancelSend
    <3> QED BY <3>1, <3>2
  <2> QED BY <1>4, <2>1, <2>2, <2>3, <2>4 DEF Delivering
<1>5. CASE Preparing
  BY <1>0, <1>5 DEF Preparing, PrepareWork, PrepareFails, PrepareFinish
<1>6. CASE Runtime
  BY <1>0, <1>6, StagingAssumption DEF Runtime, Warn, Drain, PauseEnds, BeginSwitch,
     StopRuntime, OpenSession, Cleared, Live, Older, Locked
<1> QED BY <1>1, <1>2, <1>3, <1>4, <1>5, <1>6 DEF Next

LEMMA WholeStep == WholeInv /\ [Next]_vars => WholeInv'
<1> SUFFICES ASSUME WholeInv, [Next]_vars PROVE WholeInv'
  OBVIOUS
<1>1. IInv'
  BY NextIInv, StutterIInv DEF WholeInv
<1>2. CASE Next
  <2>1. ASSUME NEW u \in Tokens PROVE Named(u)'
    BY <1>2, NamedStaging, NamedFile, NamedClip, NamedDelivering, NamedRuntime DEF Next
  <2> QED BY <1>1, <1>2, <2>1, FencedStep, LiveStep, HeededStep, InHandStep, LeftStep,
      OlderStep DEF WholeInv, SendInv
<1>3. CASE UNCHANGED vars
  BY <1>1, <1>3 DEF WholeInv, vars, SendInv, Older, Named, Fenced, Live, Heeded, InHand, Left
<1> QED BY <1>2, <1>3

LEMMA InvariantWhole == Spec => []WholeInv
  BY InitWhole, WholeStep, PTL DEF Spec

(* Every variable keeps its type; in particular no stage ever holds more   *)
(* than its declared size, although chunks are written outside the lock.   *)
THEOREM StagingTyped == Spec => []TypeOK
<1>1. IInv => TypeOK
  BY DEF IInv
<1> QED BY <1>1, InvariantIInv, PTL

(* Both lanes follow the live leases through re-booking, cancellation,     *)
(* memory warnings and switches: the large one is taken exactly while one  *)
(* lease holds it, the small one counts their sum and stays within bounds. *)
THEOREM LanesExact == Spec => []LanesKept
<1>1. IInv => LanesKept
  BY DEF IInv, LanesInv, SmallInv, LanesKept
<1> QED BY <1>1, InvariantIInv, PTL

(* A voice clip is admitted only by the manager of the session it was      *)
(* staged in, however many switches fall into its send.                    *)
THEOREM ClipsStayInSession == Spec => []ClipsOfTheirSession
<1>1. IInv => ClipsOfTheirSession
  BY DEF IInv, TokenInv, OfSession, ClipsOfTheirSession
<1> QED BY <1>1, InvariantIInv, PTL

(* What was admitted is never offered for sending again, however its send  *)
(* fails, is cancelled or retried.                                         *)
THEOREM AdmittedOnce == Spec => []SentOnce
<1>1. IInv => SentOnce
  BY DEF IInv, TokenInv, Placed, Sending, Ended, SentOnce
<1> QED BY <1>1, InvariantIInv, PTL

(* cancel_lxmf_client_send against publish_canonical: a message whose      *)
(* client id was cancelled is not on its way once its send has returned.   *)
THEOREM CancelledStaysBack == Spec => []CancellationHeeded
<1>1. WholeInv => CancellationHeeded
  BY DEF WholeInv, SendInv, Heeded, CancellationHeeded
<1> QED BY <1>1, InvariantWhole, PTL

(* Drop of StagedAttachment, append_attachment_staging and the preparation *)
(* of images: no file is left on disk that nobody owns.                    *)
THEOREM DisksCleared == Spec => []NoLeftovers
<1>1. WholeInv => NoLeftovers
  <2> SUFFICES ASSUME WholeInv PROVE NoLeftovers
    OBVIOUS
  <2>1. files \subseteq Tokens /\ outputs \subseteq Tokens
    BY DEF WholeInv, IInv, TypeOK
  <2> QED BY <2>1 DEF WholeInv, SendInv, Left, NoLeftovers
<1> QED BY <1>1, InvariantWhole, PTL

(* What no step does to a clip that was given up.                          *)
GoodStep == \A t \in discarded :
       /\ ~At(t, "staged") => stage'[t].place # "staged"
       /\ message[t] = "none" => message'[t] = "none"
LEMMA DiscardedStep ==
  ASSUME WholeInv, Next, NEW u \in discarded
  PROVE  /\ ~At(u, "staged") => stage'[u].place # "staged"
         /\ message[u] = "none" => message'[u] = "none"
<1> DEFINE Good == /\ ~At(u, "staged") => stage'[u].place # "staged"
                   /\ message[u] = "none" => message'[u] = "none"
<1>0. TypeOK /\ u \in Tokens /\ InHand(u)
  BY DEF WholeInv, IInv, SendInv, TypeOK
<1> USE DEF InHand, TypeOK, Stages
<1>1. ASSUME NEW t \in Tokens, Staging(t) PROVE Good
  <2>1. ASSUME NEW kind \in Kinds, NEW size \in Sizes, Begin(t, kind, size)
        PROVE  Good
    BY <1>0, <2>1 DEF Begin
  <2>2. CASE Stamp(t)
    BY <1>0, <2>2 DEF Stamp
  <2>6. CASE Insert(t)
    BY <1>0, <2>6 DEF Insert
  <2>7. CASE PrepareBegin(t)
    BY <1>0, <2>7 DEF PrepareBegin
  <2>8. CASE MarkAsFile(t)
    BY <1>0, <2>8 DEF MarkAsFile
  <2>3. ASSUME NEW n \in Sizes, AppendBegin(t, n) PROVE Good
    BY <1>0, <2>3 DEF AppendBegin
  <2>4. ASSUME NEW ok \in BOOLEAN, AppendEnd(t, ok) PROVE Good
    BY <1>0, <2>4 DEF AppendEnd
  <2>5. CASE CancelStage(t) \/ Unwind(t)
    BY <1>0, <2>5 DEF CancelStage, Unwind, Dropped
  <2> QED BY <1>1, <2>1, <2>2, <2>3, <2>4, <2>5, <2>6, <2>7, <2>8 DEF Staging
<1>2. ASSUME NEW t \in Tokens, SendingFile(t) PROVE Good
  BY <1>0, <1>2 DEF SendingFile, TakeFile, BeginInline, QueueFile, FileFails,
     AdmitFile, Admitted, Dropped
<1>3. ASSUME NEW t \in Tokens, SendingClip(t) PROVE Good
  BY <1>0, <1>3 DEF SendingClip, SendClip, TakeClip, QueueClip, LockClip, AdmitClip,
     DropClip, ClipFails, Restore, Admitted, Dropped, Current, Restorable
<1>4. ASSUME NEW t \in Tokens, Delivering(t) PROVE Good
  BY <1>0, <1>4 DEF Delivering, Hold, Publish, Finish, Revoke, CancelSend,
     CancelMessage, CancelCanonical, Settle, Finished, Withdrawn
<1>5. CASE Preparing
  BY <1>0, <1>5 DEF Preparing, PrepareWork, PrepareFails, PrepareFinish, Aborted
<1>6. CASE Runtime
  BY <1>0, <1>6 DEF Runtime, Warn, Drain, PauseEnds, BeginSwitch, StopRuntime, OpenSession,
     Cleared, Drained
<1> QED BY <1>1, <1>2, <1>3, <1>4, <1>5, <1>6 DEF Next

(* attachment_staging_is_current and restore_attachment_staging: a clip    *)
(* cancelled, drained or cleared while its send had it is neither sent nor *)
(* offered again.                                                          *)
THEOREM DiscardedStaysOut == Spec => DiscardedForGood
<1>1. WholeInv /\ [Next]_vars => [GoodStep]_vars
  BY DiscardedStep DEF GoodStep
<1> QED BY <1>1, InvariantWhole, PTL DEF Spec, DiscardedForGood, GoodStep
===============================================================================
