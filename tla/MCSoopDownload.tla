--------------------------- MODULE MCSoopDownload ---------------------------
(* Bounded instances of SoopDownload. *)
EXTENDS SoopDownload

MCTwoParts == {1, 2}
MCTwoNames == {0, 1}
=============================================================================
