--------------------------- MODULE MCLiveWatcher ---------------------------
(* Bounded instances of LiveWatcher. *)
EXTENDS LiveWatcher

MCProtected  == {2}
MCNoneLocked == {}
=============================================================================
