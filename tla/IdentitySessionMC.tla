------------------------- MODULE IdentitySessionMC -------------------------
(***************************************************************************)
(* An instance of IdentitySession: one identity protected by a passcode    *)
(* and one on a token, or none yet.  Besides the start of the program it   *)
(* begins with the session a start and an unlock lead to, with its fenced  *)
(* request answered, whence two more commands reach the switch away and    *)
(* back.                                                                   *)
(***************************************************************************)
EXTENDS IdentitySession, TLC

CONSTANTS p, q

Protects   == p :> "passcode" @@ q :> "hardware"
ProfilesMC == {Protects, [i \in Ids |-> "absent"]}

InUse ==
  /\ kind = Protects
  /\ active = p /\ runtime = p /\ stage = "ready"
  /\ locked = None /\ retained = p /\ pin = None
  /\ auto = [id |-> p, num |-> 1, due |-> FALSE] /\ armed = 1
  /\ fence = [gen |-> 0, epoch |-> 4]
  /\ hold = Free
  /\ waiting = {} /\ progress = None
  /\ request = [at |-> "done", fence |-> NoFence]
  /\ asked = 0 /\ refused = 0
  /\ opened = {p} /\ expired = {}
  /\ before = NoSwitch
  /\ born = NoBirth

SpecMC == (Init \/ InUse) /\ [][Next]_vars /\ Fairness
=============================================================================
