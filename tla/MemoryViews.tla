----------------------------- MODULE MemoryViews -----------------------------
(***************************************************************************)
(* Three views of the project-memory component that must agree with it: the   *)
(* map it promises to be, the cardinality policy a caller may use in its       *)
(* place, and the guard that reads persisted envelopes.                        *)
(***************************************************************************)
EXTENDS EpochMemoryStore, CardinalityPolicy, EpochGuard

CONSTANT MissingPayload   \* what the map has where there is no record

ASSUME MissingAssumption == MissingPayload \notin Payloads

OlderInScope(a, new) == SameScope(a, new) /\ a.state_epoch < new.state_epoch

Map == INSTANCE EpochMemory WITH
  Authorities <- AuthoritiesOf(RawAuthorities), Contents <- InertPayloads,
  Absent <- MissingPayload, Budget <- MaxRecordsPerAuthority,
  SaveBudget <- MaxAuthoritiesPerSnapshot, Older <- OlderInScope,
  mem <- MapOf(records, MissingPayload), saved <- MapOf(disk, MissingPayload)

(* Seen as a map from authority and key to payload, the list store only ever *)
(* moves as EpochMemory does: one entry is put where there is room for it, the   *)
(* older epochs of one scope are emptied whole, or a restart brings back exactly  *)
(* the map that was saved last.  Which of these a call does, if any, is            *)
(* CallsDoAsPromised.                                                               *)
ImplementsMap == Map!Spec

(* What each call does to the map, stated of every state because a call without   *)
(* effect is no step.  A write lands exactly if its arguments are valid and its     *)
(* key is there already or its authority has room, so a full authority refuses a     *)
(* new key and nothing else; a valid advance empties every older epoch of its scope,   *)
(* the one it names and any it has missed, and no other; all other calls do nothing.    *)
CallsDoAsPromised ==
  LET held == MapOf(records, MissingPayload)
  IN  /\ \A raw \in RawAuthorities, key \in RawKeys, payload \in Payloads :
           MapOf(WriteProject(records, raw, key, payload), MissingPayload) =
             IF Writable(raw, key, payload)
               THEN Map!Written(held, Parse(raw), Strip[key], payload) ELSE held
      /\ \A previous, current \in RawAuthorities :
           MapOf(AdvanceProjectEpoch(records, previous, current), MissingPayload) =
             IF /\ WellFormed(previous) /\ WellFormed(current)
                /\ OlderInScope(Parse(previous), Parse(current))
               THEN Map!Retired(held, Parse(current)) ELSE held

(* The cardinality policy is the store's own write: for a record with a        *)
(* normalised authority and key, apply_write replaces, appends or refuses      *)
(* exactly where write_project does, at the budget too, so a caller may use    *)
(* either and no record is ever evicted.                                       *)
PolicyAgrees ==
  \A a \in AuthoritiesOf(RawAuthorities), k \in Keys, p \in InertPayloads :
    ApplyWrite(records, [authority |-> a, key |-> k, payload |-> p])
      = WriteProject(records, a, k, p)

EnvelopeOf(record) ==
  [inert |-> TRUE, chat_id |-> record.authority.chat_id,
   project_id |-> record.authority.project_id, state_epoch |-> record.authority.state_epoch,
   repo_scope |-> record.authority.repo_scope_hash, payload |-> record.payload]

ActiveScope(raw, repo) ==
  [chat_id |-> raw.chat_id, project_id |-> raw.project_id,
   state_epoch |-> raw.state_epoch, repo_scope |-> repo]

Envelopes(recs) == {EnvelopeOf(recs[i]) : i \in DOMAIN recs}

(* The guard on persisted envelopes is no way around the store: of what the     *)
(* store holds it shows a scope nothing that read_project would not, exactly the *)
(* same if the scope is spelled without blanks, and nothing at all to a chat of   *)
(* the project that has no repository or to one without a project.                 *)
GuardReadsNoMore ==
  LET held == Envelopes(records)
  IN  /\ ShownToChat(held, Unscoped) = {}
      /\ \A raw \in RawAuthorities :
           LET shown == ShownToChat(held, ActiveScope(raw, raw.repo_scope_hash))
               readable == Envelopes(ReadProject(records, raw))
           IN  /\ shown \subseteq readable
               /\ Parse(raw) = raw => shown = readable
               /\ ShownToChat(held, ActiveScope(raw, Unscoped)) = {}
=============================================================================
