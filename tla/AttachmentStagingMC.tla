--------------------------- MODULE AttachmentStagingMC ---------------------------
(* Instances of AttachmentStaging for TLC. *)
EXTENDS AttachmentStaging, TLC

Symmetry == Permutations(Tokens)
===============================================================================
