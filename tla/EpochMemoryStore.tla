-------------------------- MODULE EpochMemoryStore --------------------------
(***************************************************************************)
(* The project-memory component on its own: one EpochBoundMemoryStore behind *)
(* a ProjectStateMemoryFacade, called by anyone with any arguments, and the  *)
(* last snapshot handed to Captain's native storage.                         *)
(*   src/parking/memory_store_epoch_adapter.py                               *)
(*   src/parking/project_state_memory_facade.py                              *)
(*   src/parking/memory_persistence.py                                       *)
(* ProjectMemory composes it with Project State and in-flight callers.       *)
(***************************************************************************)
EXTENDS MemoryRecords

CONSTANTS RawAuthorities, RawKeys   \* the arguments callers may pass

ASSUME InputAssumption ==
  /\ RawAuthorities \subseteq RawAuthority
  /\ RawKeys \subseteq Texts

VARIABLES
  records,   \* EpochBoundMemoryStore._records
  disk       \* the last snapshot persisted; the empty list before the first

storeVars == <<records, disk>>

StoreInit ==
  /\ records = << >>
  /\ disk = << >>

WriteCurrent(raw, key, payload) ==
  /\ records' = WriteProject(records, raw, key, payload)
  /\ UNCHANGED disk

Advance(previous, current) ==
  /\ records' = AdvanceProjectEpoch(records, previous, current)
  /\ UNCHANGED disk

(* snapshot_for_persistence, with the result stored. *)
SaveSnapshot ==
  /\ SnapshotAllowed(records)
  /\ disk' = records
  /\ UNCHANGED records

(* The process ends and a new facade is built from the stored snapshot; if  *)
(* restore raised there would be no facade.                                 *)
RestoreSnapshot ==
  /\ RestoreAccepts(disk)
  /\ records' = Replay(disk)
  /\ UNCHANGED disk

StoreNext ==
  \/ \E raw \in RawAuthorities, key \in RawKeys, payload \in Payloads :
       WriteCurrent(raw, key, payload)
  \/ \E previous, current \in RawAuthorities : Advance(previous, current)
  \/ SaveSnapshot
  \/ RestoreSnapshot

StoreSpec == StoreInit /\ [][StoreNext]_storeVars

-----------------------------------------------------------------------------

StoreTypeOK ==
  /\ records \in Seq(Record)
  /\ disk \in Seq(Record)

(* No authority ever holds two records of one key, whatever the calls, the  *)
(* blanks around the key and the restarts between them: a repeated write    *)
(* replaces, so assembled context cannot grow by repetition.                *)
NoDuplicateKeys == UniqueKeys(records)

(* No authority ever holds more records than its budget, however records    *)
(* came in: written, kept by an advance, or replayed from a snapshot.       *)
BudgetHeld == WithinBudget(records)

(* Whatever was persisted, at any moment of any history, is accepted by     *)
(* restore and comes back as exactly the list that was saved, in its order: *)
(* no snapshot the store can write locks its own memory out.                *)
PersistedRestores == RestoreAccepts(disk) /\ Replay(disk) = disk

(* What makes a persisted list restorable: the argument for PersistedRestores. *)
Restorable(data) == UniqueKeys(data) /\ WithinBudget(data) /\ SnapshotAllowed(data)

(* The inductive invariant: none of its conjuncts about records is preserved *)
(* by RestoreSnapshot without the last one, which says of the disk what Replay  *)
(* needs.                                                                    *)
StoreInv ==
  /\ StoreTypeOK
  /\ NoDuplicateKeys
  /\ BudgetHeld
  /\ Restorable(disk)

(* The context assembled for one authority, as seen by the model of a turn. *)
Context(recs, auth) ==
  Without(recs, {r \in Range(recs) : ~ Permits(auth, r.authority)})

(* What one call may do to the context of one authority: replace one entry  *)
(* where it stands, add one at the end, or drop it whole (retirement).      *)
OneEntryStep(old, new) ==
  \/ new = old
  \/ new = << >>
  \/ /\ Len(new) = Len(old)
     /\ \E i \in DOMAIN old : /\ new[i].key = old[i].key
                              /\ \A j \in DOMAIN old \ {i} : new[j] = old[j]
  \/ /\ Len(new) = Len(old) + 1
     /\ SubSeq(new, 1, Len(old)) = old

AuthoritiesOf(raws) == {Parse(raw) : raw \in {r \in raws : WellFormed(r)}}

(* While the process runs, a call disturbs the context of an authority only *)
(* by one whole entry or by retiring all of it, the order of the surviving  *)
(* entries never changes, and a write changes the context of at most one    *)
(* authority: nothing is evicted or reordered across an authority wall.     *)
ContextsStable ==
  [][ UNCHANGED records \/ RestoreSnapshot \/
      LET touched == {a \in AuthoritiesOf(RawAuthorities) :
                        Context(records', a) # Context(records, a)}
      IN  /\ \A a \in touched : OneEntryStep(Context(records, a), Context(records', a))
          /\ \A a, b \in touched :
               a # b => SameScope(a, b) /\ Context(records', a) = << >> ]_storeVars

-----------------------------------------------------------------------------
(* The refinement of the abstract map. *)

Keys == {Strip[k] : k \in {t \in RawKeys : Strip[t] \in UsableKeys}}

MapOf(recs, Absent) ==
  [a \in AuthoritiesOf(RawAuthorities) |->
     [k \in Keys |->
        LET same == MatchingKey(recs, a, k)
        IN  IF same = {} THEN Absent ELSE recs[Min(same)].payload]]
=============================================================================
