--------------------------- MODULE MCProjectMemory ---------------------------
(***************************************************************************)
(* Instance of ProjectMemory for TLC: two repositories of one project in one *)
(* chat, two turn slots, three epochs, one record per authority and room for *)
(* two authorities in a snapshot.  MaxResident bounds the live records, and       *)
(* SlowMaxEpoch the epochs of one of the repositories.                       *)
(***************************************************************************)
EXTENDS ProjectMemory, TLC

CONSTANTS MaxResident, SlowHash, SlowMaxEpoch

MCTexts == {"c", "p", "k", " k"}
MCStrip == [t \in MCTexts |-> IF t = " k" THEN "k" ELSE t]
MCIds == {"c", "p"}
MCKeys == {"k"}
MCRawKeys == {" k"}

MCScopes ==
  {[chat_id |-> "c", project_id |-> "p", repo_scope_hash |-> h] : h \in Hashes}

MCRawAuthorities == {ScopeAuthority(s, e) : s \in Scopes, e \in 1..MaxEpoch}

MCEpochs == 1..MaxEpoch

TurnSymmetry == Permutations(Turns)

InstanceBound ==
  /\ Len(records) <= MaxResident
  /\ \A s \in Scopes : s.repo_scope_hash = SlowHash => epoch[s] <= SlowMaxEpoch
=============================================================================
