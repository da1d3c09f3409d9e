------------------------- MODULE BuilderProjectProofs -------------------------
(***************************************************************************)
(* What a builder of the current epoch sees, and what Captain resumes from,    *)
(* is of the current epoch, for any owners, ids, paths, commits and quotas,     *)
(* any number of epochs, and any delay between the issue of a scope and its use. *)
(***************************************************************************)
EXTENDS BuilderProject, TLAPS

(* A session is a record of exactly these fields. *)
IsRecord(s) ==
  s = [scope |-> s.scope, checkpoint |-> s.checkpoint, preview_owner |-> s.preview_owner,
       stopped |-> s.stopped, files |-> s.files, logs |-> s.logs, snapshots |-> s.snapshots]

(* Every file, live or in a checkpoint, has the content c. *)
HoldsOnly(files, c) == \A p \in DOMAIN files : files[p] = c

OnlyOf(s, c) ==
  /\ HoldsOnly(s.files, c)
  /\ \A n \in DOMAIN s.snapshots : HoldsOnly(s.snapshots[n].files, c)

IssuedScope(scope) ==
  /\ scope.owner \in Owners
  /\ scope.builder_session_id \in Sids
  /\ scope.state_epoch \in Nat
  /\ scope.state_epoch <= epoch[scope.owner]

(* While the epoch of its scope is the current one, a session holds contents of *)
(* that epoch only; the epoch of a scope was reached when it was issued.          *)
Stamped(s) ==
  /\ IsRecord(s)
  /\ IssuedScope(s.scope)
  /\ s.scope.state_epoch = epoch[s.scope.owner] => OnlyOf(s, s.scope.state_epoch)

(* A delta was observed after its scope was issued, and not in an epoch to come. *)
Observed(d) ==
  /\ IssuedScope(d.scope)
  /\ d.observed \in Nat
  /\ d.scope.state_epoch <= d.observed
  /\ d.observed <= epoch[d.scope.owner]

ProjectInv ==
  /\ epoch \in [Owners -> 0..MaxEpoch]
  /\ issued \subseteq [owner : Owners, builder_session_id : Sids, state_epoch : 0..MaxEpoch]
  /\ \A scope \in issued : IssuedScope(scope)
  /\ DOMAIN sessions = Sids
  /\ \A sid \in Sids : sessions[sid] = NoSession \/ Stamped(sessions[sid])
  /\ delta = NoDelta \/ Observed(delta)

-----------------------------------------------------------------------------
(* Contents *)

(* What ContentsOf gathers. *)
LEMMA ContentsAreOnly ==
  ASSUME NEW s, NEW c
  PROVE  ContentsOf(s) \subseteq {c} <=> OnlyOf(s, c)
<1> DEFINE live == {s.files[p] : p \in DOMAIN s.files}
<1> DEFINE of(n) == {s.snapshots[n].files[p] : p \in DOMAIN s.snapshots[n].files}
<1>1. live \subseteq {c} <=> HoldsOnly(s.files, c)
  BY DEF HoldsOnly
<1>2. \A n : of(n) \subseteq {c} <=> HoldsOnly(s.snapshots[n].files, c)
  BY DEF HoldsOnly
<1>3. ContentsOf(s) = live \cup UNION {of(n) : n \in DOMAIN s.snapshots}
  BY DEF ContentsOf
<1> HIDE DEF live, of
<1>4. ContentsOf(s) \subseteq {c}
        <=> live \subseteq {c} /\ \A n \in DOMAIN s.snapshots : of(n) \subseteq {c}
  BY <1>3
<1> QED
  BY <1>1, <1>2, <1>4 DEF OnlyOf

(* Writing c where there was only c leaves only c, and so do deletions. *)
LEMMA OnlyAfterEdits ==
  ASSUME NEW f, NEW c, HoldsOnly(f, c), NEW path
  PROVE  /\ HoldsOnly(Builder!With(f, path, c), c)
         /\ HoldsOnly(Builder!Restrict(f, DOMAIN f \ {path}), c)
BY DEF HoldsOnly, Builder!With, Builder!Restrict

-----------------------------------------------------------------------------
(* What one call leaves of the session it is about *)

(* A call that goes through leaves t in place of s: an edit of the live files,  *)
(* another checkpoint of them, a checkpoint brought back, or none of these.      *)
FilesEdited(s, t, c) ==
  \/ t.files = s.files
  \/ \E path : t.files = Builder!With(s.files, path, c)
  \/ \E path : t.files = Builder!Restrict(s.files, DOMAIN s.files \ {path})
  \/ \E n \in DOMAIN s.snapshots : t.files = s.snapshots[n].files

HistoryEdited(s, t) ==
  \A n \in DOMAIN t.snapshots :
    \/ t.snapshots[n].files = s.files
    \/ n \in DOMAIN s.snapshots /\ t.snapshots[n] = s.snapshots[n]

Becomes(s, t, c) ==
  /\ IsRecord(t)
  /\ t.scope = s.scope
  /\ FilesEdited(s, t, c)
  /\ HistoryEdited(s, t)

(* A call of the adapter with the scope, and what is written under it. *)
CallLeaves(scope, t) ==
  LET s == sessions[scope.builder_session_id]
  IN  /\ sessions' = [sessions EXCEPT ![scope.builder_session_id] = t]
      /\ \/ s = NoSession /\ t = Builder!NewSession(scope)
         \/ s # NoSession /\ s.scope = scope /\ Becomes(s, t, epoch[scope.owner])

(* Whatever call a builder makes, it changes nothing or leaves such a session. *)
LEMMA CallsLeave ==
  ASSUME ProjectInv, NEW scope \in issued, BuilderCalls(scope)
  PROVE  UNCHANGED sessions \/ \E t : CallLeaves(scope, t)
<1> DEFINE s == sessions[scope.builder_session_id]
<1> DEFINE c == epoch[scope.owner]
<1>0. scope.builder_session_id \in Sids
  BY DEF ProjectInv
<1>1. ASSUME Builder!Owned(scope)
      PROVE  IsRecord(s) /\ s # NoSession /\ s.scope = scope
  BY <1>0, <1>1 DEF Builder!Owned, ProjectInv, Stamped
<1>2. ASSUME Builder!Owned(scope), NEW t, Builder!Update(scope, t), Becomes(s, t, c)
      PROVE  CallLeaves(scope, t)
  BY <1>1, <1>2 DEF CallLeaves, Builder!Update
<1>3. CASE Builder!Create(scope)
  BY <1>3 DEF Builder!Create, Builder!SessionOf, Builder!Update, CallLeaves
<1>4. ASSUME NEW path, Builder!WriteFile(scope, path, c)
      PROVE  \E t : CallLeaves(scope, t)
  <2> DEFINE f == Builder!With(s.files, path, c)
  <2> DEFINE t == [s EXCEPT !.files = f]
  <2>1. Builder!Owned(scope) /\ Builder!Update(scope, t)
    BY <1>4 DEF Builder!WriteFile, Builder!SessionOf
  <2>2. /\ IsRecord(t) /\ t.scope = s.scope /\ t.files = f /\ t.snapshots = s.snapshots
    <3> HIDE DEF s, f
    <3> QED
      BY <1>1, <2>1 DEF IsRecord
  <2> HIDE DEF s, t
  <2>3. Becomes(s, t, c)
    BY <2>2 DEF Becomes, FilesEdited, HistoryEdited
  <2> QED
    BY <1>2, <2>1, <2>3
<1>5. ASSUME NEW path, Builder!DeleteFile(scope, path)
      PROVE  \E t : CallLeaves(scope, t)
  <2> DEFINE f == Builder!Restrict(s.files, DOMAIN s.files \ {path})
  <2> DEFINE t == [s EXCEPT !.files = f]
  <2>1. Builder!Owned(scope) /\ Builder!Update(scope, t)
    BY <1>5 DEF Builder!DeleteFile, Builder!SessionOf
  <2>2. /\ IsRecord(t) /\ t.scope = s.scope /\ t.files = f /\ t.snapshots = s.snapshots
    <3> HIDE DEF s, f
    <3> QED
      BY <1>1, <2>1 DEF IsRecord
  <2> HIDE DEF s, t
  <2>3. Becomes(s, t, c)
    BY <2>2 DEF Becomes, FilesEdited, HistoryEdited
  <2> QED
    BY <1>2, <2>1, <2>3
<1>6. CASE Builder!Run(scope)
  <2> DEFINE t == [s EXCEPT !.logs = @ + 1]
  <2>1. Builder!Owned(scope) /\ Builder!Update(scope, t)
    BY <1>6 DEF Builder!Run, Builder!SessionOf
  <2>2. /\ IsRecord(t) /\ t.scope = s.scope /\ t.files = s.files /\ t.snapshots = s.snapshots
    <3> HIDE DEF s
    <3> QED
      BY <1>1, <2>1 DEF IsRecord
  <2> HIDE DEF s, t
  <2>3. Becomes(s, t, c)
    BY <2>2 DEF Becomes, FilesEdited, HistoryEdited
  <2> QED
    BY <1>2, <2>1, <2>3
<1>7. CASE Builder!Checkpoint(scope)
  <2> DEFINE n == s.checkpoint + 1
  <2> DEFINE more == Builder!With(s.snapshots, n, [files |-> s.files, log_len |-> s.logs])
  <2> DEFINE t == [s EXCEPT !.checkpoint = n, !.snapshots = more]
  <2>1. Builder!Owned(scope) /\ Builder!Update(scope, t)
    BY <1>7 DEF Builder!Checkpoint, Builder!SessionOf
  <2>2. /\ IsRecord(t) /\ t.scope = s.scope /\ t.files = s.files /\ t.snapshots = more
    <3> DEFINE u == [s EXCEPT !.checkpoint = n]
    <3>1. t = [u EXCEPT !.snapshots = more]
      OBVIOUS
    <3> HIDE DEF s, n, more, t
    <3>2. IsRecord(u) /\ u.scope = s.scope /\ u.files = s.files
      BY <1>1, <2>1 DEF IsRecord
    <3> HIDE DEF u
    <3> QED
      BY <3>1, <3>2 DEF IsRecord
  <2>3. HistoryEdited(s, t)
    <3>1. \A m \in DOMAIN more : \/ more[m].files = s.files
                                 \/ m \in DOMAIN s.snapshots /\ more[m] = s.snapshots[m]
      <4> HIDE DEF s, n
      <4> QED
        BY DEF Builder!With
    <3> HIDE DEF s, more, t
    <3> QED
      BY <2>2, <3>1 DEF HistoryEdited
  <2> HIDE DEF s, t
  <2>4. Becomes(s, t, c)
    BY <2>2, <2>3 DEF Becomes, FilesEdited
  <2> QED
    BY <1>2, <2>1, <2>4
<1>8. ASSUME NEW n, Builder!Rollback(scope, n)
      PROVE  \E t : CallLeaves(scope, t)
  <2> DEFINE t == Builder!RolledBack(s, n)
  <2> DEFINE kept == Builder!Restrict(s.snapshots, {m \in DOMAIN s.snapshots : m <= n})
  <2> DEFINE logs == Builder!Min({s.logs, s.snapshots[n].log_len})
  <2>1. Builder!Owned(scope) /\ Builder!Update(scope, t) /\ n \in DOMAIN s.snapshots
    BY <1>8 DEF Builder!Rollback, Builder!SessionOf
  <2>2. /\ IsRecord(t) /\ t.scope = s.scope /\ t.files = s.snapshots[n].files
        /\ t.snapshots = kept
    <3> DEFINE u == Builder!Forgetting(s, n)
    <3>1. u = [s EXCEPT !.snapshots = kept]
      BY DEF Builder!Forgetting
    <3> HIDE DEF kept, u
    <3>2. /\ IsRecord(u) /\ u.scope = s.scope /\ u.logs = s.logs /\ u.snapshots = kept
      <4> HIDE DEF s
      <4> QED
        BY <1>1, <2>1, <3>1 DEF IsRecord
    <3> DEFINE saved == s.snapshots[n].files
    <3>3. t = [u EXCEPT !.files = saved, !.logs = Builder!Min({@, s.snapshots[n].log_len}),
                        !.checkpoint = n]
      BY DEF Builder!RolledBack, u
    <3> HIDE DEF t, saved, s
    <3> QED
      BY <3>2, <3>3 DEF IsRecord, saved
  <2>3. HistoryEdited(s, t)
    <3>1. \A m \in DOMAIN kept : m \in DOMAIN s.snapshots /\ kept[m] = s.snapshots[m]
      BY DEF Builder!Restrict
    <3> HIDE DEF s, kept, t
    <3> QED
      BY <2>2, <3>1 DEF HistoryEdited
  <2> HIDE DEF s, t
  <2>4. Becomes(s, t, c)
    BY <2>1, <2>2, <2>3 DEF Becomes, FilesEdited
  <2> QED
    BY <1>2, <2>1, <2>4
<1>9. CASE Builder!Preview(scope)
  <2> DEFINE t == [s EXCEPT !.preview_owner = scope]
  <2>1. Builder!Owned(scope) /\ Builder!Update(scope, t)
    BY <1>9 DEF Builder!Preview, Builder!SessionOf
  <2>2. /\ IsRecord(t) /\ t.scope = s.scope /\ t.files = s.files /\ t.snapshots = s.snapshots
    <3> HIDE DEF s
    <3> QED
      BY <1>1, <2>1 DEF IsRecord
  <2> HIDE DEF s, t
  <2>3. Becomes(s, t, c)
    BY <2>2 DEF Becomes, FilesEdited, HistoryEdited
  <2> QED
    BY <1>2, <2>1, <2>3
<1>10. CASE Builder!Stop(scope)
  <2> DEFINE t == [s EXCEPT !.preview_owner = NoOwner, !.stopped = TRUE]
  <2>1. Builder!Owned(scope) /\ Builder!Update(scope, t)
    BY <1>10 DEF Builder!Stop, Builder!SessionOf
  <2>2. /\ IsRecord(t) /\ t.scope = s.scope /\ t.files = s.files /\ t.snapshots = s.snapshots
    <3> DEFINE u == [s EXCEPT !.preview_owner = NoOwner]
    <3>1. t = [u EXCEPT !.stopped = TRUE]
      OBVIOUS
    <3> HIDE DEF s, t
    <3>2. IsRecord(u) /\ u.scope = s.scope /\ u.files = s.files /\ u.snapshots = s.snapshots
      BY <1>1, <2>1 DEF IsRecord
    <3> HIDE DEF u
    <3> QED
      BY <3>1, <3>2 DEF IsRecord
  <2> HIDE DEF s, t
  <2>3. Becomes(s, t, c)
    BY <2>2 DEF Becomes, FilesEdited, HistoryEdited
  <2> QED
    BY <1>2, <2>1, <2>3
<1> QED
  BY <1>3, <1>4, <1>5, <1>6, <1>7, <1>8, <1>9, <1>10 DEF BuilderCalls

-----------------------------------------------------------------------------
(* The invariant *)

(* What a call leaves holds contents of the current epoch only, if it is of it. *)
LEMMA OnlyAfterBecoming ==
  ASSUME NEW s, NEW t, NEW c, Becomes(s, t, c), OnlyOf(s, c)
  PROVE  OnlyOf(t, c)
<1>1. HoldsOnly(t.files, c)
  <2>1. CASE t.files = s.files
    BY <2>1 DEF OnlyOf
  <2>2. ASSUME NEW path, t.files = Builder!With(s.files, path, c)
        PROVE  HoldsOnly(t.files, c)
    BY <2>2, OnlyAfterEdits DEF OnlyOf
  <2>3. ASSUME NEW path, t.files = Builder!Restrict(s.files, DOMAIN s.files \ {path})
        PROVE  HoldsOnly(t.files, c)
    BY <2>3, OnlyAfterEdits DEF OnlyOf
  <2>4. ASSUME NEW n \in DOMAIN s.snapshots, t.files = s.snapshots[n].files
        PROVE  HoldsOnly(t.files, c)
    BY <2>4 DEF OnlyOf
  <2> QED
    BY <2>1, <2>2, <2>3, <2>4 DEF Becomes, FilesEdited
<1>2. \A n \in DOMAIN t.snapshots : HoldsOnly(t.snapshots[n].files, c)
  BY DEF Becomes, HistoryEdited, OnlyOf
<1> QED
  BY <1>1, <1>2 DEF OnlyOf

(* A session that create opens is empty. *)
LEMMA NewSessionIsEmpty ==
  ASSUME NEW scope, NEW c
  PROVE  LET t == Builder!NewSession(scope)
         IN  IsRecord(t) /\ t.scope = scope /\ OnlyOf(t, c)
BY DEF Builder!NewSession, Builder!NoFiles, IsRecord, OnlyOf, HoldsOnly

(* The invariant holds at first. *)
LEMMA ProjectInvInit == Init => ProjectInv
BY EpochAssumption DEF Init, Builder!Init, ProjectInv

(* Every step preserves it: an advance leaves behind whatever has the old epoch, *)
(* and a call writes the epoch of the moment into its own session only.           *)
LEMMA ProjectInvNext == ProjectInv /\ [Next]_vars => ProjectInv'
<1> SUFFICES ASSUME ProjectInv, [Next]_vars PROVE ProjectInv'
  OBVIOUS
<1>0. \A o \in Owners : epoch[o] \in Nat /\ epoch[o] <= MaxEpoch
  BY EpochAssumption DEF ProjectInv
<1>1. ASSUME NEW owner \in Owners, AdvanceProjectState(owner)
      PROVE  ProjectInv'
  <2>1. /\ epoch' = [epoch EXCEPT ![owner] = epoch[owner] + 1] /\ epoch[owner] < MaxEpoch
        /\ UNCHANGED <<sessions, issued, head, delta>>
    BY <1>1 DEF AdvanceProjectState
  <2>2. /\ epoch' \in [Owners -> 0..MaxEpoch]
        /\ \A o \in Owners : epoch'[o] \in Nat
                              /\ (epoch'[o] = epoch[o] \/ epoch'[o] = epoch[o] + 1)
    BY <1>0, <2>1, EpochAssumption DEF ProjectInv
  <2>3. \A scope : IssuedScope(scope) => IssuedScope(scope)'
    BY <1>0, <2>2 DEF IssuedScope
  <2>4. \A s : Stamped(s) => Stamped(s)'
    BY <1>0, <2>2, <2>3 DEF Stamped, IssuedScope
  <2>5. \A d : Observed(d) => Observed(d)'
    BY <1>0, <2>2, <2>3 DEF Observed, IssuedScope
  <2> QED
    BY <2>1, <2>2, <2>3, <2>4, <2>5 DEF ProjectInv
<1>a. ASSUME UNCHANGED epoch
      PROVE  \A x : IssuedScope(x)' = IssuedScope(x) /\ Stamped(x)' = Stamped(x)
                    /\ Observed(x)' = Observed(x)
  BY <1>a DEF IssuedScope, Stamped, Observed
<1>2. ASSUME NEW owner \in Owners, NEW sid \in Sids, IssueScope(owner, sid)
      PROVE  ProjectInv'
  <2> DEFINE scope == [owner |-> owner, builder_session_id |-> sid, state_epoch |-> epoch[owner]]
  <2>1. issued' = issued \cup {scope} /\ UNCHANGED <<sessions, epoch, head, delta>>
    BY <1>2 DEF IssueScope
  <2>2. /\ scope \in [owner : Owners, builder_session_id : Sids, state_epoch : 0..MaxEpoch]
        /\ IssuedScope(scope)
    BY <1>0 DEF ProjectInv, IssuedScope
  <2> HIDE DEF scope
  <2> QED
    BY <1>a, <2>1, <2>2 DEF ProjectInv
<1>3. CASE RepositoryMoves
  BY <1>3, <1>a DEF RepositoryMoves, ProjectInv
<1>4. ASSUME NEW scope \in issued, NEW claims_fresh, SaveDelta(scope, claims_fresh)
      PROVE  ProjectInv'
  <2>1. /\ delta'.scope = scope /\ delta'.observed = epoch[scope.owner]
        /\ UNCHANGED <<sessions, epoch, issued, head>>
    BY <1>4 DEF SaveDelta
  <2>2. IssuedScope(scope)
    BY DEF ProjectInv
  <2>3. Observed(delta')
    BY <1>0, <2>1, <2>2 DEF Observed, IssuedScope
  <2> QED
    BY <1>a, <2>1, <2>3 DEF ProjectInv
<1>5. ASSUME NEW scope \in issued, BuilderCalls(scope)
      PROVE  ProjectInv'
  <2>1. UNCHANGED <<epoch, issued, head, delta>>
    BY <1>5 DEF BuilderCalls
  <2>2. CASE UNCHANGED sessions
    BY <1>a, <2>1, <2>2 DEF ProjectInv
  <2>3. ASSUME NEW t, CallLeaves(scope, t)
        PROVE  ProjectInv'
    <3> DEFINE sid == scope.builder_session_id
    <3> DEFINE s == sessions[sid]
    <3>1. sid \in Sids /\ DOMAIN sessions = Sids /\ IssuedScope(scope)
      BY DEF ProjectInv
    <3>2. /\ sessions' = [sessions EXCEPT ![sid] = t]
          /\ \/ s = NoSession /\ t = Builder!NewSession(scope)
             \/ s # NoSession /\ s.scope = scope /\ Becomes(s, t, epoch[scope.owner])
      BY <2>3 DEF CallLeaves
    <3>3. s = NoSession \/ Stamped(s)
      BY <3>1 DEF ProjectInv
    <3> HIDE DEF s
    <3>4. Stamped(t)
      <4>1. CASE s = NoSession /\ t = Builder!NewSession(scope)
        BY <3>1, <4>1, NewSessionIsEmpty DEF Stamped
      <4>2. CASE s # NoSession /\ s.scope = scope /\ Becomes(s, t, epoch[scope.owner])
        <5>1. t.scope = scope /\ IsRecord(t)
          BY <4>2 DEF Becomes
        <5>2. ASSUME scope.state_epoch = epoch[scope.owner]
              PROVE  OnlyOf(t, scope.state_epoch)
          <6>1. OnlyOf(s, epoch[scope.owner])
            BY <3>3, <4>2, <5>2 DEF Stamped
          <6> QED
            BY <4>2, <5>2, <6>1, OnlyAfterBecoming
        <5> QED
          BY <3>1, <5>1, <5>2 DEF Stamped
      <4> QED
        BY <3>2, <4>1, <4>2
    <3>5. DOMAIN sessions' = Sids
          /\ \A id \in Sids : sessions'[id] = IF id = sid THEN t ELSE sessions[id]
      BY <3>1, <3>2
    <3> HIDE DEF sid
    <3> QED
      BY <1>a, <2>1, <3>4, <3>5 DEF ProjectInv
  <2> QED
    BY <1>5, <2>2, <2>3, CallsLeave
<1>6. CASE UNCHANGED vars
  BY <1>6, <1>a DEF vars, ProjectInv
<1> QED
  BY <1>1, <1>2, <1>3, <1>4, <1>5, <1>6 DEF Next

(* The invariant always holds. *)
THEOREM ProjectInvAlways == Spec => []ProjectInv
<1> QED
  BY ProjectInvInit, ProjectInvNext, PTL DEF Spec

(* Whatever a builder of the current epoch can see or roll back to was written in *)
(* that epoch: no session is handed on with its files or its history.             *)
THEOREM CurrentSessionsAreFresh == Spec => []CurrentSessionIsFresh
<1>1. ProjectInv => CurrentSessionIsFresh
  <2> SUFFICES ASSUME ProjectInv, NEW sid \in Builder!Live,
                      sessions[sid].scope.state_epoch = epoch[sessions[sid].scope.owner]
               PROVE  ContentsOf(sessions[sid]) \subseteq {epoch[sessions[sid].scope.owner]}
    BY DEF CurrentSessionIsFresh
  <2>1. Stamped(sessions[sid])
    BY DEF Builder!Live, ProjectInv
  <2> QED
    BY <2>1, ContentsAreOnly DEF Stamped
<1> QED
  BY <1>1, ProjectInvAlways, PTL

(* A resume delta that the guard accepts is of that owner, and was observed in the *)
(* epoch and at the commit that are current when it is used.                       *)
THEOREM UsableDeltasAreCurrent == Spec => []UsableDeltaIsCurrent
<1>1. ProjectInv => UsableDeltaIsCurrent
  <2> SUFFICES ASSUME ProjectInv, delta # NoDelta, NEW owner \in Owners, NEW sid \in Sids,
                      ResumeDeltaUsable(delta, Current(owner, sid))
               PROVE  /\ delta.scope.owner = owner /\ delta.observed = epoch[owner]
                      /\ delta.head = head
    BY DEF UsableDeltaIsCurrent
  <2>1. /\ delta.scope.owner = owner /\ delta.scope.state_epoch = epoch[owner]
        /\ delta.head = head
    BY DEF ResumeDeltaUsable, Current
  <2>2. Observed(delta)
    BY DEF ProjectInv
  <2>3. epoch[owner] \in Nat
    BY DEF ProjectInv
  <2> QED
    BY <2>1, <2>2, <2>3 DEF Observed
<1> QED
  BY <1>1, ProjectInvAlways, PTL

(* Captain's builders use the adapter as its own specification allows, so what is *)
(* proved of the adapter for any arguments holds among them.                        *)
THEOREM ProjectImplementsBuilder == Spec => Builder!Spec
<1>1. Init => Builder!Init
  BY DEF Init
<1>2. ProjectInv /\ [Next]_vars => [Builder!Next]_sessions
  <2> SUFFICES ASSUME ProjectInv, [Next]_vars PROVE Builder!Next \/ UNCHANGED sessions
    OBVIOUS
  <2>1. ASSUME NEW scope \in issued, BuilderCalls(scope)
        PROVE  Builder!Next
    <3>1. /\ scope \in [owner : Owners, builder_session_id : Sids, state_epoch : 0..MaxEpoch]
          /\ epoch[scope.owner] \in 0..MaxEpoch
      BY DEF ProjectInv
    <3>2. Builder!Call(scope)
      BY <2>1, <3>1 DEF BuilderCalls, Builder!Call
    <3> QED
      BY <3>1, <3>2 DEF Builder!Next
  <2> QED
    BY <2>1 DEF Next, vars, AdvanceProjectState, IssueScope, RepositoryMoves, SaveDelta
<1> QED
  BY <1>1, <1>2, ProjectInvAlways, PTL DEF Spec, Builder!Spec
=============================================================================
