------------------------------ MODULE EpochGuard ------------------------------
(***************************************************************************)
(* The read guard of src/parking/project_memory_epoch_guard.py, which admits   *)
(* one persisted envelope to a turn under the active scope.  It compares the    *)
(* ids as they are, where the store strips them first.  An envelope is inert if  *)
(* its version, kind and payload are what they should be.                        *)
(***************************************************************************)
EXTENDS MemoryRecords

CONSTANT Unscoped   \* no repository scope; no active scope

ASSUME NoneAssumption ==
  /\ "" \notin UsableIds
  /\ Unscoped \notin Hashes
  /\ Unscoped \notin [chat_id : Texts, project_id : Texts, state_epoch : Int,
                      repo_scope : Texts \cup Hashes]

NonEmpty(id) == Strip[id] # ""

(* A faulty wall, for the mutation runs: a scope without a repository sees all. *)
RepoIfAny(envelope, active) ==
  active.repo_scope = Unscoped \/ envelope.repo_scope = active.repo_scope

SameRepo(envelope, active) == envelope.repo_scope = active.repo_scope

(* authorize_project_envelope. *)
Authorized(envelope, active) ==
  /\ envelope.inert
  /\ NonEmpty(active.chat_id) /\ NonEmpty(active.project_id)
  /\ active.state_epoch >= 0
  /\ envelope.chat_id = active.chat_id
  /\ envelope.project_id = active.project_id
  /\ envelope.state_epoch = active.state_epoch
  /\ SameRepo(envelope, active)

(* project_memory_for_chat: a chat without a project is shown nothing. *)
ShownToChat(envelopes, active) ==
  IF active = Unscoped THEN {}
  ELSE {envelope \in envelopes : Authorized(envelope, active)}
=============================================================================
