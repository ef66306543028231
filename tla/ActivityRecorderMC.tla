------------------------- MODULE ActivityRecorderMC -------------------------
(***************************************************************************)
(* An instance of ActivityRecorder: one task that records and one instant  *)
(* at which a Trace ends.  Every generation, every worker and every        *)
(* operation that times out multiplies the states, so a behaviour has at   *)
(* most four advances of these three counters between them.                *)
(***************************************************************************)
EXTENDS ActivityRecorder

CONSTANTS p1, d1

FourAdvances == gate.gen + (worker.epoch - 1) + timeouts <= 4
=============================================================================
