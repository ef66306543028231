----------------------- MODULE DownloadSuppressionMC -----------------------
(* Instances of DownloadSuppression for TLC.                               *)
EXTENDS DownloadSuppression

=============================================================================
