---------------------------- MODULE ProjectMemory ----------------------------
(***************************************************************************)
(* Project memory inside Captain: the epoch-bound store and its facade, with *)
(* the state and the actions of EpochMemoryStore, and what calls them.       *)
(* Project State, the turns of an LLM conversation and the delivery of epoch  *)
(* advances are not under src/; they are modelled from how the facade is used: Captain *)
(* "resolves the current Project State and passes that canonical authority   *)
(* into each operation", and the store must stand "missed/replayed events".  *)
(*                                                                          *)
(* A payload is abstracted to the Project State epoch of its scope at the    *)
(* moment it is written, which is what the properties tell payloads apart by. *)
(***************************************************************************)
EXTENDS EpochMemoryStore

CONSTANTS
  Scopes,    \* chat, project and repository hash, as canonical ids
  Turns,     \* the slots in which a turn may be in flight
  Idle,      \* the slot of a turn that is not in flight
  MaxEpoch   \* bound on the epochs Project State reaches

ScopeAuthority(scope, e) ==
  [chat_id |-> scope.chat_id, project_id |-> scope.project_id,
   repo_scope_hash |-> scope.repo_scope_hash, state_epoch |-> e]

ASSUME ScopeAssumption ==
  /\ Scopes \subseteq [chat_id : CleanIds, project_id : CleanIds, repo_scope_hash : Hashes]
  /\ IsFiniteSet(Scopes)
  /\ RawAuthorities = {ScopeAuthority(s, e) : s \in Scopes, e \in 1..MaxEpoch}

ASSUME StampAssumption ==
  /\ MaxEpoch \in Epochs
  /\ 1..MaxEpoch \subseteq InertPayloads

ASSUME IdleAssumption == Idle \notin Authority

VARIABLES
  epoch,      \* Project State: the current epoch of each scope
  announced,  \* every advance Project State has announced, as a pair of authorities
  turns,      \* the authority each in-flight turn captured when it began
  applied     \* history: the newest epoch of each scope this process was told of

vars == <<records, disk, epoch, announced, turns, applied>>

CurrentAuthority(scope) == ScopeAuthority(scope, epoch[scope])

Init ==
  /\ StoreInit
  /\ epoch = [s \in Scopes |-> 1]
  /\ announced = {}
  /\ turns = [t \in Turns |-> Idle]
  /\ applied = [s \in Scopes |-> 1]

(* Project State moves a scope to a later epoch and announces it. *)
AdvanceProjectState(scope) ==
  \E e \in (epoch[scope] + 1)..MaxEpoch :
    /\ epoch' = [epoch EXCEPT ![scope] = e]
    /\ announced' = announced \cup {<<CurrentAuthority(scope), ScopeAuthority(scope, e)>>}
    /\ UNCHANGED <<storeVars, turns, applied>>

(* facade.advance, for any announced advance: late, out of order, again, or *)
(* (when this is never taken) missed.                                       *)
DeliverAdvance ==
  /\ \E change \in announced :
       /\ Advance(change[1], change[2])
       /\ applied' = [s \in Scopes |->
            IF SameScope(CurrentAuthority(s), change[2]) /\ applied[s] < change[2].state_epoch
              THEN change[2].state_epoch ELSE applied[s]]
  /\ UNCHANGED <<epoch, announced, turns>>

BeginTurn(t, scope) ==
  /\ turns[t] = Idle
  /\ turns' = [turns EXCEPT ![t] = CurrentAuthority(scope)]
  /\ UNCHANGED <<storeVars, epoch, announced, applied>>

(* facade.write_current with the authority the turn captured, which the     *)
(* facade has no means to compare with Project State.                       *)
CommitWrite(t, key) ==
  /\ turns[t] # Idle
  /\ \E s \in Scopes :
       /\ SameScope(turns[t], CurrentAuthority(s))
       /\ WriteCurrent(turns[t], key, epoch[s])
  /\ UNCHANGED <<epoch, announced, turns, applied>>

EndTurn(t) ==
  /\ turns[t] # Idle
  /\ turns' = [turns EXCEPT ![t] = Idle]
  /\ UNCHANGED <<storeVars, epoch, announced, applied>>

Persist ==
  /\ SaveSnapshot
  /\ UNCHANGED <<epoch, announced, turns, applied>>

(* The process crashes with its turns and comes back from the last snapshot, *)
(* which may be older than the current epochs; Project State is durable.     *)
CrashAndRestart ==
  /\ RestoreSnapshot
  /\ turns' = [t \in Turns |-> Idle]
  /\ applied' = [s \in Scopes |-> 1]
  /\ UNCHANGED <<epoch, announced>>

Next ==
  \/ \E s \in Scopes : AdvanceProjectState(s)
  \/ DeliverAdvance
  \/ \E t \in Turns, s \in Scopes : BeginTurn(t, s)
  \/ \E t \in Turns, key \in RawKeys : CommitWrite(t, key)
  \/ \E t \in Turns : EndTurn(t)
  \/ Persist
  \/ CrashAndRestart

Spec == Init /\ [][Next]_vars

-----------------------------------------------------------------------------

TypeOK ==
  /\ StoreTypeOK
  /\ epoch \in [Scopes -> 1..MaxEpoch]
  /\ announced \subseteq (Authority \X Authority)
  /\ turns \in [Turns -> Authority \cup {Idle}]
  /\ applied \in [Scopes -> 1..MaxEpoch]

IsCurrent(auth) == \E s \in Scopes : auth = CurrentAuthority(s)

(* Memory that a turn would be given under the current authority of a scope *)
(* was written while that epoch was current: never before it, by a write    *)
(* that was in flight across a change, nor from a snapshot of another epoch. *)
VisibleIsFresh ==
  \A s \in Scopes :
    \A r \in Range(ReadProject(records, CurrentAuthority(s))) : r.payload = epoch[s]

(* Neither the store nor the snapshot ever holds memory of an epoch that    *)
(* Project State has not reached, so a later epoch never begins with memory  *)
(* already in it.                                                            *)
NoMemoryAhead ==
  \A s \in Scopes :
    \A r \in Range(records) \cup Range(disk) :
      SameScope(r.authority, CurrentAuthority(s)) => r.authority.state_epoch <= epoch[s]

(* With no more scopes than a snapshot has room for, persistence can only   *)
(* be refused while memory of a superseded epoch is still resident.         *)
PersistBlockedOnlyByStaleMemory ==
  Cardinality(Scopes) <= MaxAuthoritiesPerSnapshot /\ ~ SnapshotAllowed(records)
    => \E r \in Range(records) : ~ IsCurrent(r.authority)

(* While the process runs, nothing the memory layer does removes a memory   *)
(* of the current epoch of a scope: an advance that is late, repeated or     *)
(* out of order retires only what is already superseded.                     *)
CurrentMemoryKept ==
  [][ CrashAndRestart \/
      \A r \in Range(records) :
        IsCurrent(r.authority) =>
          \E kept \in Range(records') : kept.authority = r.authority /\ kept.key = r.key ]_vars

-----------------------------------------------------------------------------
(* The inductive invariant behind the safety properties: a record's epoch has *)
(* been reached by its scope, and while it is still the current one the record *)
(* carries its stamp; turns and announcements name epochs that were reached.   *)

Stamped(recs) ==
  \A s \in Scopes : \A i \in DOMAIN recs :
    SameScope(recs[i].authority, CurrentAuthority(s)) =>
      /\ recs[i].authority.state_epoch <= epoch[s]
      /\ recs[i].authority.state_epoch = epoch[s] => recs[i].payload = epoch[s]

TurnsReached ==
  \A t \in Turns : turns[t] # Idle =>
    \E s \in Scopes : \E e \in 1..epoch[s] : turns[t] = ScopeAuthority(s, e)

AnnouncementsReached ==
  \A change \in announced :
    \E s \in Scopes : \E d, e \in 1..epoch[s] :
      change = <<ScopeAuthority(s, d), ScopeAuthority(s, e)>>

IInv ==
  /\ StoreInv
  /\ TypeOK
  /\ Stamped(records)
  /\ Stamped(disk)
  /\ TurnsReached
  /\ AnnouncementsReached

-----------------------------------------------------------------------------

(* The contract's commit-time revalidation and its required regression "in-flight *)
(* old-epoch write is rejected after epoch change": once this process has applied *)
(* an advance of a scope, the scope holds no memory of an earlier epoch.          *)
InFlightOldEpochWriteRejected ==
  \A s \in Scopes :
    \A r \in Range(records) :
      SameScope(r.authority, CurrentAuthority(s)) => r.authority.state_epoch >= applied[s]
=============================================================================
