---------------------------- MODULE BuilderProject ----------------------------
(***************************************************************************)
(* The builder runtime (BuilderRuntime) composed with what issues its scopes. *)
(* Captain gives a builder a scope that carries the Project State epoch of   *)
(* the moment; Project State then moves on while the builder keeps calling.   *)
(* Project State and the builders are not under src/: the adapter's scope     *)
(* argument is all it ever learns of them.                                    *)
(*                                                                            *)
(* A content is abstracted to the epoch of its owner at the moment it is      *)
(* written.  A builder may also save a resume delta of the repository, which   *)
(* Captain puts to the guard (ResumeGuard) when a session is to go on.          *)
(***************************************************************************)
EXTENDS Integers, FiniteSets, ResumeGuard

CONSTANTS
  Owners, Sids, Paths, MaxFileBytes, MaxSessionBytes, MaxSessionFiles, MaxLogEvents,
  MaxCheckpoints, NoSession, NoOwner,
  MaxEpoch,  \* bound on the epochs Project State reaches
  Commits,   \* the commits the repository's head may be at
  NoDelta

ASSUME EpochAssumption == MaxEpoch \in Nat

VARIABLES
  sessions,   \* the adapter's sessions
  epoch,      \* Project State: the current epoch of each owner
  issued,     \* the scopes Captain has issued so far
  head,       \* the head of the repository
  delta       \* the last resume delta saved, with the epoch it was observed in

vars == <<sessions, epoch, issued, head, delta>>

Builder == INSTANCE BuilderRuntime WITH
  RawScopes <- [owner : Owners, builder_session_id : Sids, state_epoch : 0..MaxEpoch],
  RawPaths <- Paths, Contents <- 0..MaxEpoch, Size <- [c \in 0..MaxEpoch |-> 1]

Init ==
  /\ Builder!Init
  /\ epoch = [o \in Owners |-> 0]
  /\ issued = {}
  /\ head \in Commits
  /\ delta = NoDelta

AdvanceProjectState(owner) ==
  /\ epoch[owner] < MaxEpoch
  /\ epoch' = [epoch EXCEPT ![owner] = @ + 1]
  /\ UNCHANGED <<sessions, issued, head, delta>>

IssueScope(owner, sid) ==
  /\ issued' = issued \cup
       {[owner |-> owner, builder_session_id |-> sid, state_epoch |-> epoch[owner]]}
  /\ UNCHANGED <<sessions, epoch, head, delta>>

RepositoryMoves ==
  /\ head' \in Commits \ {head}
  /\ UNCHANGED <<sessions, epoch, issued, delta>>

(* A builder reports on the repository as it finds it, under the scope it was   *)
(* once issued, and claims what it believes.                                     *)
SaveDelta(scope, claims_fresh) ==
  /\ delta' = [scope |-> scope, head |-> head, claims_fresh |-> claims_fresh,
               observed |-> epoch[scope.owner]]
  /\ UNCHANGED <<sessions, epoch, issued, head>>

(* A builder that was issued a scope calls the adapter with it, at any later time. *)
BuilderCalls(scope) ==
  /\ \/ Builder!Create(scope)
     \/ \E path \in Paths : Builder!WriteFile(scope, path, epoch[scope.owner])
     \/ \E path \in Paths : Builder!DeleteFile(scope, path)
     \/ Builder!Run(scope)
     \/ Builder!Checkpoint(scope)
     \/ \E n \in 0..MaxCheckpoints : Builder!Rollback(scope, n)
     \/ Builder!Preview(scope)
     \/ Builder!Stop(scope)
  /\ UNCHANGED <<epoch, issued, head, delta>>

Next ==
  \/ \E owner \in Owners : AdvanceProjectState(owner)
  \/ \E owner \in Owners, sid \in Sids : IssueScope(owner, sid)
  \/ RepositoryMoves
  \/ \E scope \in issued, claims_fresh \in BOOLEAN : SaveDelta(scope, claims_fresh)
  \/ \E scope \in issued : BuilderCalls(scope)

Spec == Init /\ [][Next]_vars

-----------------------------------------------------------------------------

ContentsOf(s) ==
  {s.files[p] : p \in DOMAIN s.files} \cup
  UNION {{s.snapshots[n].files[p] : p \in DOMAIN s.snapshots[n].files} : n \in DOMAIN s.snapshots}

(* What a builder working under the current epoch can see or roll back to was *)
(* written while that epoch was current: a session is never handed from one    *)
(* epoch to the next with its files or its history.                            *)
CurrentSessionIsFresh ==
  \A sid \in Builder!Live :
    LET s == sessions[sid]
    IN  s.scope.state_epoch = epoch[s.scope.owner] =>
          ContentsOf(s) \subseteq {epoch[s.scope.owner]}

(* The state Captain resumes a session of an owner in. *)
Current(owner, sid) ==
  [head |-> head,
   scope |-> [owner |-> owner, builder_session_id |-> sid, state_epoch |-> epoch[owner]]]

(* A resume delta that the guard accepts was observed by a builder of that very  *)
(* owner during the current epoch, at the commit the repository is at: whatever the *)
(* delta claims, however late it was saved and however late it is used, nothing      *)
(* seen in an earlier epoch, by another owner or before the head moved is resumed     *)
(* from.                                                                               *)
UsableDeltaIsCurrent ==
  delta # NoDelta =>
    \A owner \in Owners, sid \in Sids :
      ResumeDeltaUsable(delta, Current(owner, sid)) =>
        /\ delta.scope.owner = owner
        /\ delta.observed = epoch[owner]
        /\ delta.head = head

(* Epoch invalidation of the calls that _owned lets through: once Project State *)
(* has left the epoch of a session's scope, no write, deletion or rollback       *)
(* changes the files of that session.                                             *)
SupersededSessionKeepsItsFiles ==
  [][ \A sid \in Builder!Live :
        LET s == sessions[sid]
        IN  sessions'[sid].files # s.files => s.scope.state_epoch = epoch[s.scope.owner] ]_vars
=============================================================================
