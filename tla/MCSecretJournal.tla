-------------------------- MODULE MCSecretJournal --------------------------
(* Bounded instance of SecretJournal: two credentials that are saved        *)
(* together or alone, the owner and an observer, and four references, so    *)
(* that a replaced credential can be replaced again after a failure.        *)
EXTENDS SecretJournal, TLC

CONSTANTS owner, observer, aut, ses, r1, r2, r3, r4

MCProcs == {owner, observer}
MCKeys  == {aut, ses}
MCRefs  == {r1, r2, r3, r4}
MCOldRows ==
  {[setting |-> [k \in MCKeys |-> v], journal |-> [k \in MCKeys |-> {}]] : v \in MCRefs \cup {Unset}}

AnyOfAKind == Permutations(MCProcs) \cup Permutations(MCKeys) \cup Permutations(MCRefs)
=============================================================================
