---------------------------- MODULE MessageFates ----------------------------
(***************************************************************************)
(* What downloading from a propagation node promises: every message has    *)
(* one fate that survives crashes and only moves forward, the user sees a  *)
(* kept message once, and the node may forget a ciphertext only when       *)
(* nothing is lost by it.  DurableAdmission implements this specification. *)
(***************************************************************************)
CONSTANTS
  Tids,    \* ciphertexts the node offers
  Msgs,    \* messages
  MsgOf    \* the message a ciphertext carries

VARIABLES
  fate,     \* "unseen", "kept" or "deleted" by the user
  refused,  \* ciphertexts policy refused
  node,     \* ciphertexts the node still has
  shown     \* how often each message was shown

fates == <<fate, refused, node, shown>>

Settled(t) == fate[MsgOf[t]] # "unseen" \/ t \in refused

Init ==
  /\ fate = [m \in Msgs |-> "unseen"] /\ refused = {}
  /\ node = Tids /\ shown = [m \in Msgs |-> 0]

(* Fates become durable, several at once when a log reaches the disk late. *)
(* A refusal is taken back only for a message that has a fate by then.     *)
Settle ==
  /\ fate' \in [Msgs -> {"unseen", "kept", "deleted"}]
  /\ refused' \in SUBSET Tids
  /\ \A m \in Msgs :
       /\ fate[m] = "kept" => fate'[m] # "unseen"
       /\ fate[m] = "deleted" => fate'[m] = "deleted"
  /\ \A t \in refused \ refused' : fate'[MsgOf[t]] # "unseen"
  /\ UNCHANGED <<node, shown>>

Show(m) ==
  /\ fate[m] = "kept" /\ shown[m] = 0
  /\ shown' = [shown EXCEPT ![m] = 1]
  /\ UNCHANGED <<fate, refused, node>>

Forget(t) ==
  /\ t \in node /\ Settled(t)
  /\ node' = node \ {t}
  /\ UNCHANGED <<fate, refused, shown>>

Next == Settle \/ (\E m \in Msgs : Show(m)) \/ (\E t \in Tids : Forget(t))
Spec == Init /\ [][Next]_fates
=============================================================================
