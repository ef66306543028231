---------------------------- MODULE VoiceCallsMC ----------------------------
(* Instances of VoiceCalls for TLC.                                        *)
EXTENDS VoiceCalls

CONSTANTS l1, l2

=============================================================================
