----------------------------- MODULE MCVodQueue -----------------------------
(* Bounded instances of VodQueue. *)
EXTENDS VodQueue

MCProviders  == {"SOOP", "KICK"}
MCOneProvider == {"SOOP"}
MCCallers    == {"worker", "client", "shutdown"}
MCPlatformOf == [i \in Items |-> "SOOP"]
=============================================================================
