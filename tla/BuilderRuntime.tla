--------------------------- MODULE BuilderRuntime ---------------------------
(***************************************************************************)
(* The builder runtime adapter (src/parking/builder_runtime_adapter_fake.py): *)
(* sessions with files, logs, checkpoints and a preview, each owned by one    *)
(* scope of chat, project, repository, session id and Project State epoch.    *)
(*                                                                            *)
(* An owner stands for the chat, project and repository of a scope.  A file's *)
(* content is a model value with a Size in bytes.  Every log event is the     *)
(* same string, so a log is its length.                                       *)
(***************************************************************************)
EXTENDS Integers, FiniteSets, FiniteSetsExt, Functions

CONSTANTS
  Owners,            \* owners with three non-blank ids
  Sids,              \* non-blank session ids
  RawScopes,         \* the scopes callers may pass, valid or not
  Paths,             \* repository-relative paths that pass _safe_relpath
  RawPaths,          \* the paths callers may pass
  Contents, Size,    \* contents and their UTF-8 sizes
  MaxFileBytes, MaxSessionBytes, MaxSessionFiles, MaxLogEvents, MaxCheckpoints,
  NoSession, NoOwner

ASSUME QuotaAssumption ==
  /\ Size \in [Contents -> Nat]
  /\ MaxFileBytes \in Nat /\ MaxSessionBytes \in Nat /\ MaxSessionFiles \in Nat
  /\ MaxLogEvents \in Nat
  /\ MaxCheckpoints \in Nat \ {0}

Scope == [owner : Owners, builder_session_id : Sids, state_epoch : Nat]

Files == UNION {[D -> Contents] : D \in SUBSET Paths}

(* The sessions that have the checkpoints 0..n. *)
Session(n) ==
  [scope : Scope, checkpoint : Nat, preview_owner : Scope \cup {NoOwner}, stopped : BOOLEAN,
   files : Files, logs : Nat, snapshots : [0..n -> [files : Files, log_len : Nat]]]

IsSession(s) == \E n \in 0..(MaxCheckpoints - 1) : s \in Session(n)

ASSUME NullAssumption ==
  /\ NoOwner \notin Scope /\ NoOwner \notin Contents
  /\ ~ IsSession(NoSession)

VARIABLE sessions   \* FakeBuilderRuntimeAdapter._sessions, NoSession where there is none

(* BuilderScope.validate *)
Valid(scope) == scope \in Scope

NoFiles == [p \in {} |-> NoOwner]

NewSession(scope) ==
  [scope |-> scope, checkpoint |-> 0, preview_owner |-> NoOwner, stopped |-> FALSE,
   files |-> NoFiles, logs |-> 0,
   snapshots |-> [n \in {0} |-> [files |-> NoFiles, log_len |-> 0]]]

(* A faulty ownership check, for the mutation runs: the epoch is not compared. *)
OwnedAtAnyEpoch(scope) ==
  /\ Valid(scope)
  /\ sessions[scope.builder_session_id] # NoSession
  /\ ~ sessions[scope.builder_session_id].stopped
  /\ sessions[scope.builder_session_id].scope.owner = scope.owner

(* The owned session of scope, or no step at all where the code raises. *)
Owned(scope) ==
  /\ Valid(scope)
  /\ sessions[scope.builder_session_id] # NoSession
  /\ ~ sessions[scope.builder_session_id].stopped
  /\ sessions[scope.builder_session_id].scope = scope

SessionOf(scope) == sessions[scope.builder_session_id]

Update(scope, session) ==
  sessions' = [sessions EXCEPT ![scope.builder_session_id] = session]

BytesUsed(files) == SumFunction([p \in DOMAIN files |-> Size[files[p]]])

With(files, path, content) ==
  [p \in DOMAIN files \cup {path} |-> IF p = path THEN content ELSE files[p]]

Init == sessions = [sid \in Sids |-> NoSession]

(* A faulty create: a stopped id starts afresh. *)
CreateResurrecting(scope) ==
  /\ Valid(scope)
  /\ \/ SessionOf(scope) = NoSession /\ Update(scope, NewSession(scope))
     \/ /\ SessionOf(scope) # NoSession
        /\ SessionOf(scope).stopped
        /\ Update(scope, NewSession(scope))

(* A faulty create: a session is handed on to the owner's new epoch. *)
CreateHandingOn(scope) ==
  /\ Valid(scope)
  /\ \/ SessionOf(scope) = NoSession /\ Update(scope, NewSession(scope))
     \/ /\ SessionOf(scope) # NoSession
        /\ SessionOf(scope).scope.owner = scope.owner
        /\ ~ SessionOf(scope).stopped
        /\ Update(scope, [SessionOf(scope) EXCEPT !.scope = scope])

(* create never resets a session: a second call of the same scope finds it   *)
(* as it is, another scope or a stopped id is refused.                       *)
Create(scope) ==
  /\ Valid(scope)
  /\ \/ SessionOf(scope) = NoSession /\ Update(scope, NewSession(scope))
     \/ /\ SessionOf(scope) # NoSession
        /\ SessionOf(scope).scope = scope
        /\ ~ SessionOf(scope).stopped
        /\ UNCHANGED sessions

(* _safe_relpath, and the faulty one that checks nothing. *)
AnyPath(path) == TRUE

PathAccepted(path) == path \in Paths

(* A faulty quota: what is there before the write is tested. *)
SpaceBefore(s, path, content) ==
  /\ path \in DOMAIN s.files \/ Cardinality(DOMAIN s.files) < MaxSessionFiles
  /\ BytesUsed(s.files) < MaxSessionBytes

(* Room for content at path, the file it replaces discounted. *)
HasSpace(s, path, content) ==
  /\ path \in DOMAIN s.files \/ Cardinality(DOMAIN s.files) < MaxSessionFiles
  /\ BytesUsed(Restrict(s.files, DOMAIN s.files \ {path})) + Size[content] <= MaxSessionBytes

WriteFile(scope, path, content) ==
  /\ Owned(scope)
  /\ PathAccepted(path)
  /\ Size[content] <= MaxFileBytes
  /\ HasSpace(SessionOf(scope), path, content)
  /\ Update(scope, [SessionOf(scope) EXCEPT !.files = With(@, path, content)])

DeleteFile(scope, path) ==
  /\ Owned(scope)
  /\ PathAccepted(path)
  /\ path \in DOMAIN SessionOf(scope).files
  /\ Update(scope, [SessionOf(scope) EXCEPT !.files = Restrict(@, DOMAIN @ \ {path})])

Run(scope) ==
  /\ Owned(scope)
  /\ LET s == SessionOf(scope)
     IN  /\ s.logs < MaxLogEvents
         /\ Update(scope, [s EXCEPT !.logs = @ + 1])

Checkpoint(scope) ==
  /\ Owned(scope)
  /\ LET s == SessionOf(scope)
         n == s.checkpoint + 1
     IN  /\ Cardinality(DOMAIN s.snapshots) < MaxCheckpoints
         /\ Update(scope, [s EXCEPT !.checkpoint = n,
                                    !.snapshots = With(@, n, [files |-> s.files,
                                                              log_len |-> s.logs])])

(* Faulty rollbacks: later checkpoints survive; the log is kept whole; the     *)
(* current checkpoint is not moved.                                            *)
RolledBackKeepingLater(s, n) ==
  [s EXCEPT !.files = s.snapshots[n].files,
            !.logs = Min({@, s.snapshots[n].log_len}), !.checkpoint = n]

Forgetting(s, n) == [s EXCEPT !.snapshots = Restrict(@, {m \in DOMAIN @ : m <= n})]

RolledBackKeepingLog(s, n) ==
  [Forgetting(s, n) EXCEPT !.files = s.snapshots[n].files, !.checkpoint = n]

RolledBackNotMoving(s, n) ==
  [Forgetting(s, n) EXCEPT !.files = s.snapshots[n].files,
                           !.logs = Min({@, s.snapshots[n].log_len})]

(* Checkpoint n again, its files and no more of the log than it had, and every *)
(* later checkpoint forgotten.                                                 *)
RolledBack(s, n) ==
  [Forgetting(s, n) EXCEPT !.files = s.snapshots[n].files,
                           !.logs = Min({@, s.snapshots[n].log_len}), !.checkpoint = n]

Rollback(scope, n) ==
  /\ Owned(scope)
  /\ n \in DOMAIN SessionOf(scope).snapshots
  /\ Update(scope, RolledBack(SessionOf(scope), n))

Preview(scope) ==
  /\ Owned(scope)
  /\ LET s == SessionOf(scope)
     IN  /\ s.preview_owner \in {NoOwner, scope}
         /\ Update(scope, [s EXCEPT !.preview_owner = scope])

Stop(scope) ==
  /\ Owned(scope)
  /\ Update(scope, [SessionOf(scope) EXCEPT !.preview_owner = NoOwner, !.stopped = TRUE])

(* Every call a caller may make with one scope. *)
Call(scope) ==
  \/ Create(scope)
  \/ \E path \in RawPaths, content \in Contents : WriteFile(scope, path, content)
  \/ \E path \in RawPaths : DeleteFile(scope, path)
  \/ Run(scope)
  \/ Checkpoint(scope)
  \/ \E n \in 0..MaxCheckpoints : Rollback(scope, n)
  \/ Preview(scope)
  \/ Stop(scope)

Next == \E scope \in RawScopes : Call(scope)

Spec == Init /\ [][Next]_sessions

(* diff: the paths whose content differs from the current checkpoint.  A path *)
(* a side does not have reads as None there.                                  *)
ContentAt(files, path) == IF path \in DOMAIN files THEN files[path] ELSE NoOwner

Diff(s) ==
  LET base == IF s.checkpoint \in DOMAIN s.snapshots
                THEN s.snapshots[s.checkpoint].files ELSE NoFiles
  IN  {p \in DOMAIN base \cup DOMAIN s.files : ContentAt(base, p) # ContentAt(s.files, p)}
-----------------------------------------------------------------------------

TypeOK ==
  /\ DOMAIN sessions = Sids
  /\ \A sid \in Sids : sessions[sid] = NoSession \/ IsSession(sessions[sid])

Live == {sid \in Sids : sessions[sid] # NoSession}

(* The history is never broken: the checkpoints of a session are exactly     *)
(* 0..checkpoint, so the next checkpoint overwrites nothing, the current one  *)
(* can be diffed against, and the session keeps at most MaxCheckpoints.  Along *)
(* it the log only grows, up to the live log, so a rollback that cuts the log  *)
(* restores the very length it was saved with.                                 *)
HistoryContiguous ==
  \A sid \in Live :
    LET s == sessions[sid]
    IN  /\ DOMAIN s.snapshots = 0..s.checkpoint
        /\ s.checkpoint < MaxCheckpoints
        /\ \A m, n \in DOMAIN s.snapshots :
             m <= n => s.snapshots[m].log_len <= s.snapshots[n].log_len
        /\ \A n \in DOMAIN s.snapshots : s.snapshots[n].log_len <= s.logs

(* What diff shows is exactly the unsaved work: it is empty precisely when the *)
(* current checkpoint exists and holds the live files, so a builder that sees  *)
(* no difference loses nothing by rolling back to it.                          *)
DiffIsUnsavedWork ==
  \A sid \in Live :
    LET s == sessions[sid]
    IN  Diff(s) = {} <=> /\ s.checkpoint \in DOMAIN s.snapshots
                         /\ s.snapshots[s.checkpoint].files = s.files

FilesWithinQuota(files) ==
  /\ Cardinality(DOMAIN files) <= MaxSessionFiles
  /\ BytesUsed(files) <= MaxSessionBytes
  /\ \A p \in DOMAIN files : Size[files[p]] <= MaxFileBytes

(* The quotas hold for the live files and for every checkpoint, after any     *)
(* sequence of writes, deletes and rollbacks, although rollback checks none.   *)
QuotasHold ==
  \A sid \in Live :
    LET s == sessions[sid]
    IN  /\ FilesWithinQuota(s.files)
        /\ \A n \in DOMAIN s.snapshots : FilesWithinQuota(s.snapshots[n].files)
        /\ s.logs <= MaxLogEvents

(* A session is filed under its own id, and a preview belongs to the session's *)
(* scope and to no stopped session.                                            *)
PreviewOwned ==
  \A sid \in Live :
    LET s == sessions[sid]
    IN  /\ s.scope.builder_session_id = sid
        /\ s.preview_owner # NoOwner => s.preview_owner = s.scope /\ ~ s.stopped

(* A session never changes hands, and once stopped it never changes at all:   *)
(* its id cannot be resurrected, not even by its own scope.                    *)
StoppedForever ==
  [][ \A sid \in Live :
        /\ sessions'[sid] # NoSession
        /\ sessions'[sid].scope = sessions[sid].scope
        /\ sessions[sid].stopped => sessions'[sid] = sessions[sid] ]_sessions
=============================================================================
