---------------------------- MODULE MemoryRecords ----------------------------
(***************************************************************************)
(* The list of records an EpochBoundMemoryStore keeps, and what each of its *)
(* operations makes of it (src/parking/memory_store_epoch_adapter.py), with *)
(* the persistence boundary (src/parking/memory_persistence.py).            *)
(*                                                                          *)
(* A payload stands for a value with its provenance; InertPayloads are the  *)
(* ones that pass the type, depth, node and text budgets.  The record list  *)
(* is a sequence in insertion order, which is also the order of the context *)
(* assembled from it.                                                       *)
(***************************************************************************)
EXTENDS MemoryAuthority, Sequences, FiniteSets, FiniteSetsExt, Functions

CONSTANTS Payloads, InertPayloads, MaxRecordsPerAuthority, MaxAuthoritiesPerSnapshot

ASSUME PayloadAssumption == InertPayloads \subseteq Payloads

ASSUME BudgetAssumption ==
  /\ MaxRecordsPerAuthority \in Nat \ {0}
  /\ MaxAuthoritiesPerSnapshot \in Nat \ {0}

Record == [authority : Authority, key : CleanKeys, payload : InertPayloads]

(* The positions of the records that auth may see. *)
Matching(recs, auth) == {i \in DOMAIN recs : Permits(auth, recs[i].authority)}

MatchingKey(recs, auth, key) == {i \in Matching(recs, auth) : recs[i].key = key}

(* Faulty updates, for the mutation runs: a repeated key becomes another     *)
(* entry; the budget is off by one; a full authority takes no replacement; a  *)
(* replaced record moves to the end.                                          *)
UpsertAppending(recs, incoming) ==
  IF Cardinality(Matching(recs, incoming.authority)) >= MaxRecordsPerAuthority
    THEN recs ELSE Append(recs, incoming)

UpsertOneTooMany(recs, incoming) ==
  LET same == MatchingKey(recs, incoming.authority, incoming.key)
  IN  IF same # {} THEN [recs EXCEPT ![Min(same)] = incoming]
      ELSE IF Cardinality(Matching(recs, incoming.authority)) > MaxRecordsPerAuthority
        THEN recs
        ELSE Append(recs, incoming)

UpsertRefusingReplacement(recs, incoming) ==
  LET same == MatchingKey(recs, incoming.authority, incoming.key)
  IN  IF Cardinality(Matching(recs, incoming.authority)) >= MaxRecordsPerAuthority
        THEN recs
      ELSE IF same # {} THEN [recs EXCEPT ![Min(same)] = incoming]
      ELSE Append(recs, incoming)

UpsertReordering(recs, incoming) ==
  LET same == MatchingKey(recs, incoming.authority, incoming.key)
  IN  IF same # {}
        THEN SubSeq(recs, 1, Min(same) - 1)
               \o SubSeq(recs, Min(same) + 1, Len(recs)) \o << incoming >>
      ELSE IF Cardinality(Matching(recs, incoming.authority)) >= MaxRecordsPerAuthority
        THEN recs
        ELSE Append(recs, incoming)

(* The update write_project ends with: replace the first record of the same *)
(* authority and key where it stands, refuse when the authority is full,    *)
(* otherwise append.                                                        *)
Upsert(recs, incoming) ==
  LET same == MatchingKey(recs, incoming.authority, incoming.key)
  IN  IF same # {} THEN [recs EXCEPT ![Min(same)] = incoming]
      ELSE IF Cardinality(Matching(recs, incoming.authority)) >= MaxRecordsPerAuthority
        THEN recs
        ELSE Append(recs, incoming)

Writable(raw, key, payload) ==
  /\ WellFormed(raw)
  /\ Strip[key] \in UsableKeys
  /\ payload \in InertPayloads

(* A faulty write: the key is checked stripped and stored as it came. *)
WriteProjectUnstripped(recs, raw, key, payload) ==
  IF Writable(raw, key, payload)
    THEN Upsert(recs, [authority |-> Parse(raw), key |-> key, payload |-> payload])
    ELSE recs

(* write_project: every check comes before the first change, so a call that *)
(* raises leaves the list as it was.                                        *)
WriteProject(recs, raw, key, payload) ==
  IF Writable(raw, key, payload)
    THEN Upsert(recs, [authority |-> Parse(raw), key |-> Strip[key], payload |-> payload])
    ELSE recs

(* Faulty retirements: the epoch being entered counts as stale; the repository *)
(* is not compared.                                                           *)
StaleUpToNew(record, new) ==
  /\ SameScope(record.authority, new)
  /\ record.authority.state_epoch <= new.state_epoch

StaleInAnyRepository(record, new) ==
  /\ record.authority.chat_id = new.chat_id
  /\ record.authority.project_id = new.project_id
  /\ record.authority.state_epoch < new.state_epoch

StaleSameScope(record, new) ==
  /\ SameScope(record.authority, new)
  /\ record.authority.state_epoch < new.state_epoch

(* s without its elements that belong to dropped, in the order they had. *)
Without(s, dropped) ==
  LET kept[n \in 0..Len(s)] ==
        IF n = 0 THEN << >>
        ELSE IF s[n] \in dropped THEN kept[n - 1]
        ELSE Append(kept[n - 1], s[n])
  IN  kept[Len(s)]

Retire(recs, new) == Without(recs, {r \in Range(recs) : StaleSameScope(r, new)})

ValidTransition(old, new) ==
  /\ SameScope(old, new)
  /\ new.state_epoch > old.state_epoch

(* advance_project_epoch: both authorities are parsed and compared before the *)
(* list changes.                                                              *)
AdvanceProjectEpoch(recs, previous, current) ==
  IF WellFormed(previous) /\ WellFormed(current)
       /\ ValidTransition(Parse(previous), Parse(current))
    THEN Retire(recs, Parse(current))
    ELSE recs

(* read_project and build_context: exact authority or nothing. *)
ReadProject(recs, raw) ==
  IF WellFormed(raw)
    THEN Without(recs, {r \in Range(recs) : ~ Permits(Parse(raw), r.authority)})
    ELSE << >>

ResidentAuthorities(recs) == {r.authority : r \in Range(recs)}

(* Faulty budgets: no cap on authorities; a cap that is off by one. *)
SnapshotAllowedUncapped(recs) ==
  Len(recs) <= MaxAuthoritiesPerSnapshot * MaxRecordsPerAuthority

SnapshotAllowedBelowCap(recs) ==
  /\ Len(recs) <= MaxAuthoritiesPerSnapshot * MaxRecordsPerAuthority
  /\ Cardinality(ResidentAuthorities(recs)) < MaxAuthoritiesPerSnapshot

(* snapshot raises beyond either global budget. *)
SnapshotAllowed(recs) ==
  /\ Len(recs) <= MaxAuthoritiesPerSnapshot * MaxRecordsPerAuthority
  /\ Cardinality(ResidentAuthorities(recs)) <= MaxAuthoritiesPerSnapshot

(* restore replays the persisted list through write_project into a fresh store. *)
Replay(data) ==
  LET replayed[n \in 0..Len(data)] ==
        IF n = 0 THEN << >>
        ELSE WriteProject(replayed[n - 1], data[n].authority, data[n].key, data[n].payload)
  IN  replayed[Len(data)]

(* A refused or a duplicate entry leaves the replayed list shorter than the *)
(* data: a refused write raises there and then, a duplicate is caught by the *)
(* final count.                                                             *)
RestoreAccepts(data) ==
  /\ Len(data) <= MaxAuthoritiesPerSnapshot * MaxRecordsPerAuthority
  /\ Cardinality(ResidentAuthorities(data)) <= MaxAuthoritiesPerSnapshot
  /\ Len(Replay(data)) = Len(data)

-----------------------------------------------------------------------------
(* Two shapes of a record list that the properties are stated with. *)

UniqueKeys(recs) ==
  \A i, j \in DOMAIN recs :
    recs[i].authority = recs[j].authority /\ recs[i].key = recs[j].key => i = j

WithinBudget(recs) ==
  \A i \in DOMAIN recs :
    Cardinality(Matching(recs, recs[i].authority)) <= MaxRecordsPerAuthority
=============================================================================
