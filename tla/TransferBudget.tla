---------------------------- MODULE TransferBudget ----------------------------
(***************************************************************************)
(* The working-set budget of attachments (crates/ratspeak-runtime/src/     *)
(* state.rs): one transfer at a time in the large lane, a sum of bytes in  *)
(* the small one.  A budget is a record, and reserving, releasing and      *)
(* re-booking are operators on it, each one critical section of its lock.  *)
(* A lease is one reservation; dropping it is the only way to release it.  *)
(* Sizes are those the callers let through: not zero, below the protocol's *)
(* structural limit.                                                       *)
(***************************************************************************)
EXTENDS Naturals

CONSTANTS
  Sizes,        \* sizes of attachments
  MaxEfficient, \* MAX_EFFICIENT_SIZE: beyond it an attachment is large
  SmallBudget   \* LXMF_SMALL_ATTACHMENT_BUDGET_BYTES

ASSUME BudgetAssumption ==
  /\ Sizes \subseteq Nat \ {0}
  /\ MaxEfficient \in Nat
  /\ SmallBudget \in Nat

Lanes   == {"small", "large"}
Budgets == [small : Nat, large : BOOLEAN]
Leases  == [lane : Lanes, bytes : Sizes]

EmptyBudget == [small |-> 0, large |-> FALSE]

LaneOf(bytes)   == IF bytes > MaxEfficient THEN "large" ELSE "small"
LeaseFor(bytes) == [lane |-> LaneOf(bytes), bytes |-> bytes]

(* reserve_attachment_transfer: whether the lane takes the bytes.          *)
Admits(b, bytes, pressured) ==
  IF LaneOf(bytes) = "large"
  THEN ~pressured /\ ~b.large
  ELSE b.small + bytes <= SmallBudget

Reserved(b, lease) ==
  IF lease.lane = "large"
  THEN [small |-> b.small, large |-> TRUE]
  ELSE [small |-> b.small + lease.bytes, large |-> b.large]

(* Drop of a lease: the subtraction saturates.                             *)
Released(b, lease) ==
  IF lease.lane = "large"
  THEN [small |-> b.small, large |-> FALSE]
  ELSE [small |-> IF b.small < lease.bytes THEN 0 ELSE b.small - lease.bytes,
        large |-> b.large]

-----------------------------------------------------------------------------
(* Mutant of CanRebook: the large lane is entered without looking.         *)
CanRebookBusy(b, lease, bytes, pressured) ==
  \/ lease.lane = "large"
  \/ LaneOf(bytes) = "large" /\ ~pressured
  \/ LaneOf(bytes) = "small" /\ Released(b, lease).small + bytes <= SmallBudget

(* finish_staged_image_preparation: a prepared image may be of another     *)
(* size, and change lanes, than the source whose lease it takes over.      *)
CanRebook(b, lease, bytes, pressured) ==
  \/ lease.lane = "large"
  \/ LaneOf(bytes) = "large" /\ ~b.large /\ ~pressured
  \/ LaneOf(bytes) = "small" /\ Released(b, lease).small + bytes <= SmallBudget

(* A large image that became small moves to the small lane only if there   *)
(* is room for it there; otherwise it keeps the large lane.                *)
LeavesLarge(b, lease, bytes) ==
  /\ lease.lane = "large" /\ LaneOf(bytes) = "small"
  /\ b.small + bytes <= SmallBudget

RebookedLease(b, lease, bytes) ==
  [lane  |-> IF lease.lane = "large" /\ ~LeavesLarge(b, lease, bytes)
             THEN "large" ELSE LaneOf(bytes),
   bytes |-> bytes]

(* Mutant of Rebooked: the reservation of the source is kept as well.      *)
RebookedAtop(b, lease, bytes) == Reserved(b, RebookedLease(b, lease, bytes))

Rebooked(b, lease, bytes) ==
  Reserved(Released(b, lease), RebookedLease(b, lease, bytes))
===============================================================================
