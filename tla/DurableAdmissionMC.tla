------------------------- MODULE DurableAdmissionMC -------------------------
(***************************************************************************)
(* Instances of DurableAdmission.                                          *)
(***************************************************************************)
EXTENDS DurableAdmission, TLC

CONSTANTS t1, t2, m1, m2, w1, w2, x

(* Two messages that carry the same media file.                            *)
SharedMsgOf   == t1 :> m1 @@ t2 :> m2
SharedWireOf  == t1 :> w1 @@ t2 :> w1
SharedMediaOf == m1 :> {x} @@ m2 :> {x}

(* Two ciphertexts of one message, under different wire images.            *)
CopiesMsgOf   == t1 :> m1 @@ t2 :> m1
CopiesWireOf  == t1 :> w1 @@ t2 :> w2
CopiesMediaOf == m1 :> {x}

(* One chat message with media, which may also arrive directly.            *)
SingleMsgOf   == t1 :> m1
SingleWireOf  == t1 :> w1
=============================================================================
