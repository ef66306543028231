---------------------------- MODULE MessageSending ----------------------------
(***************************************************************************)
(* What sending promises of each message: it is sent once, by whichever    *)
(* way, and from there on only gives ways up.  One that Auto sends to its  *)
(* recipient may go to the node instead, and never comes back; what nobody *)
(* sends any more nobody takes up again; and it ends once, when nobody     *)
(* sends it and, if it ends well, after it has arrived.  OutboundDelivery  *)
(* implements this specification.                                          *)
(***************************************************************************)
CONSTANT Messages

VARIABLES
  state,    \* "none", "open", or how the message ended
  doing,    \* how it is being sent; "auto" may still fall back to the node
  arrived   \* where copies of it arrived

sending == <<state, doing, arrived>>

Ended == {"delivered", "propagated", "failed", "rejected", "cancelled", "timeout"}

(* The ways that are left after one.                                       *)
Left(way) ==
  CASE way = "auto" -> {"auto", "live", "node", "nothing"}
    [] way = "live" -> {"live", "nothing"}
    [] way = "node" -> {"node", "nothing"}
    [] OTHER        -> {"nothing"}

Ways == Left("auto")

Init ==
  /\ state = [m \in Messages |-> "none"]
  /\ doing = [m \in Messages |-> "nothing"]
  /\ arrived = [m \in Messages |-> {}]

Send(m) ==
  /\ state[m] = "none" /\ state' = [state EXCEPT ![m] = "open"]
  /\ \E way \in Ways \ {"nothing"} : doing' = [doing EXCEPT ![m] = way]
  /\ UNCHANGED arrived

(* A transfer to the node is heard of there; a packet may arrive late.     *)
Arrive(m) ==
  /\ state[m] # "none"
  /\ \E place \in {"recipient", "node"} :
       /\ place = "node" => doing[m] = "node"
       /\ arrived' = [arrived EXCEPT ![m] = @ \union {place}]
  /\ UNCHANGED <<state, doing>>

Ends(m) ==
  /\ state[m] = "open" /\ state'[m] \in Ended
  /\ doing'[m] = "nothing"
  /\ state'[m] = "delivered" => "recipient" \in arrived[m]
  /\ state'[m] = "propagated" => "node" \in arrived[m]

(* Ways are given up and messages end, all at once when the process does.  *)
Settle ==
  /\ doing' \in [Messages -> Ways] /\ \A m \in Messages : doing'[m] \in Left(doing[m])
  /\ state' \in [Messages -> Ended \union {"none", "open"}]
  /\ \A m \in Messages : state'[m] = state[m] \/ Ends(m)
  /\ UNCHANGED arrived

Next == Settle \/ \E m \in Messages : Send(m) \/ Arrive(m)
Spec == Init /\ [][Next]_sending
=============================================================================
