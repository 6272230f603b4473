----------------------------- MODULE MCVodJobs -----------------------------
(* Bounded instances of VodJobs: the three providers and two callers of    *)
(* the facade, the window's command task and the queue worker.             *)
EXTENDS VodJobsSlot

CONSTANTS window, worker

MCProviders == {"SOOP", "CHZZK", "KICK"}
MCCallers   == {window, worker}
=============================================================================
