------------------------- MODULE ProjectMemoryProofs -------------------------
(***************************************************************************)
(* Project memory inside Captain never shows a turn memory of another epoch  *)
(* and never loses memory of the current one, for any number of scopes, turns *)
(* and epochs, any budgets, and any order, loss and repetition of advances.   *)
(***************************************************************************)
EXTENDS ProjectMemory, EpochMemoryStoreProofs

(* An epoch within the bound makes a canonical authority that callers may pass. *)
LEMMA ScopeAuthorityCanonical ==
  ASSUME NEW s \in Scopes, NEW e \in 1..MaxEpoch
  PROVE  /\ ScopeAuthority(s, e) \in Authority
         /\ ScopeAuthority(s, e) \in RawAuthorities
         /\ Parse(ScopeAuthority(s, e)) = ScopeAuthority(s, e)
<1>1. e \in Epochs
  BY StampAssumption DEF Epochs
<1>2. ScopeAuthority(s, e) \in Authority
  BY <1>1, ScopeAssumption DEF ScopeAuthority, Authority
<1> QED
  BY <1>2, ScopeAssumption, ParseCanonical

(* The three fields of a scope determine it. *)
LEMMA ScopeDetermined ==
  ASSUME NEW s \in Scopes, NEW z \in Scopes, NEW d, NEW e,
         SameScope(ScopeAuthority(s, d), ScopeAuthority(z, e))
  PROVE  s = z
<1>1. /\ s.chat_id = z.chat_id /\ s.project_id = z.project_id
      /\ s.repo_scope_hash = z.repo_scope_hash
  BY DEF SameScope, ScopeAuthority
<1> QED
  BY <1>1, ScopeAssumption

(* What Stamped says of one record, for a scope whose epoch is n. *)
StampedAt(r, s, n) ==
  SameScope(r.authority, ScopeAuthority(s, n)) =>
    /\ r.authority.state_epoch <= n
    /\ r.authority.state_epoch = n => r.payload = n

(* The invariant holds when Captain starts for the first time. *)
LEMMA MemoryInvInit == Init => IInv
<1> SUFFICES ASSUME Init PROVE IInv
  OBVIOUS
<1>1. StoreInv
  BY StoreInvInit DEF Init
<1>2. 1 \in 1..MaxEpoch
  BY StampAssumption DEF Epochs
<1>3. TypeOK
  BY <1>1, <1>2 DEF Init, TypeOK, StoreInv
<1>4. Stamped(records) /\ Stamped(disk)
  <2>1. DOMAIN << >> = {}
    OBVIOUS
  <2> QED
    BY <2>1 DEF Init, StoreInit, Stamped
<1>5. TurnsReached /\ AnnouncementsReached
  BY DEF Init, TurnsReached, AnnouncementsReached
<1> QED
  BY <1>1, <1>3, <1>4, <1>5 DEF IInv

(* Whatever Captain does is, for the store, a call, a save, a restart or nothing. *)
LEMMA StepsAreStoreSteps == IInv /\ [Next]_vars => [StoreNext]_storeVars
<1> SUFFICES ASSUME IInv, [Next]_vars PROVE [StoreNext]_storeVars
  OBVIOUS
<1>0. \A s \in Scopes : epoch[s] \in 1..MaxEpoch
  BY DEF IInv, TypeOK
<1>1. ASSUME NEW s \in Scopes, AdvanceProjectState(s) PROVE UNCHANGED storeVars
  BY <1>1 DEF AdvanceProjectState
<1>2. CASE DeliverAdvance
  <2>1. PICK change \in announced : Advance(change[1], change[2])
    BY <1>2 DEF DeliverAdvance
  <2>2. PICK s \in Scopes : \E d, e \in 1..epoch[s] :
          change = <<ScopeAuthority(s, d), ScopeAuthority(s, e)>>
    BY DEF IInv, AnnouncementsReached
  <2>5. PICK d \in 1..epoch[s], e \in 1..epoch[s] :
          change = <<ScopeAuthority(s, d), ScopeAuthority(s, e)>>
    BY <2>2
  <2>3. d \in 1..MaxEpoch /\ e \in 1..MaxEpoch
    BY <1>0, StampAssumption DEF Epochs
  <2>4. change[1] \in RawAuthorities /\ change[2] \in RawAuthorities
    BY <2>5, <2>3, ScopeAuthorityCanonical
  <2> QED
    BY <2>1, <2>4 DEF StoreNext
<1>3. ASSUME NEW t \in Turns, NEW s \in Scopes, BeginTurn(t, s) PROVE UNCHANGED storeVars
  BY <1>3 DEF BeginTurn
<1>4. ASSUME NEW t \in Turns, NEW key \in RawKeys, CommitWrite(t, key) PROVE StoreNext
  <2>1. PICK z \in Scopes : WriteCurrent(turns[t], key, epoch[z])
    BY <1>4 DEF CommitWrite
  <2>2. PICK s \in Scopes : \E e \in 1..epoch[s] : turns[t] = ScopeAuthority(s, e)
    BY <1>4 DEF CommitWrite, IInv, TurnsReached
  <2>6. PICK e \in 1..epoch[s] : turns[t] = ScopeAuthority(s, e)
    BY <2>2
  <2>3. e \in 1..MaxEpoch
    BY <1>0, StampAssumption DEF Epochs
  <2>4. turns[t] \in RawAuthorities
    BY <2>6, <2>3, ScopeAuthorityCanonical
  <2>5. epoch[z] \in Payloads
    BY <1>0, StampAssumption, PayloadAssumption
  <2> QED
    BY <2>1, <2>4, <2>5 DEF StoreNext
<1>5. ASSUME NEW t \in Turns, EndTurn(t) PROVE UNCHANGED storeVars
  BY <1>5 DEF EndTurn
<1>6. CASE Persist
  BY <1>6 DEF Persist, StoreNext
<1>7. CASE CrashAndRestart
  BY <1>7 DEF CrashAndRestart, StoreNext
<1>8. CASE UNCHANGED vars
  BY <1>8 DEF vars, storeVars
<1> QED
  BY <1>1, <1>2, <1>3, <1>4, <1>5, <1>6, <1>7, <1>8 DEF Next

(* What an announcement or a turn in flight holds: authorities of one scope, of *)
(* epochs it has reached.                                                     *)
LEMMA ReachedAuthorities ==
  ASSUME IInv
  PROVE  /\ \A change \in announced :
              \E s \in Scopes : \E d, e \in 1..epoch[s] :
                 /\ d \in 1..MaxEpoch /\ e \in 1..MaxEpoch
                 /\ change[1] = ScopeAuthority(s, d) /\ change[2] = ScopeAuthority(s, e)
         /\ \A t \in Turns : turns[t] # Idle =>
              \E s \in Scopes : \E e \in 1..epoch[s] :
                 e \in 1..MaxEpoch /\ turns[t] = ScopeAuthority(s, e)
<1>1. \A s \in Scopes : epoch[s] \in 1..MaxEpoch /\ 1..epoch[s] \subseteq 1..MaxEpoch
  BY StampAssumption DEF Epochs, IInv, TypeOK
<1>2. ASSUME NEW change \in announced
      PROVE  \E s \in Scopes : \E d, e \in 1..epoch[s] :
               /\ d \in 1..MaxEpoch /\ e \in 1..MaxEpoch
               /\ change[1] = ScopeAuthority(s, d) /\ change[2] = ScopeAuthority(s, e)
  <2>1. PICK s \in Scopes : \E d, e \in 1..epoch[s] :
          change = <<ScopeAuthority(s, d), ScopeAuthority(s, e)>>
    BY DEF IInv, AnnouncementsReached
  <2> QED
    BY <1>1, <2>1
<1>3. ASSUME NEW t \in Turns, turns[t] # Idle
      PROVE  \E s \in Scopes : \E e \in 1..epoch[s] :
               e \in 1..MaxEpoch /\ turns[t] = ScopeAuthority(s, e)
  BY <1>1, <1>3 DEF IInv, TurnsReached
<1> QED
  BY <1>2, <1>3

(* Every step keeps the state well typed. *)
LEMMA TypesKept == IInv /\ [Next]_vars /\ StoreInv' => TypeOK'
<1> SUFFICES ASSUME IInv, [Next]_vars, StoreInv' PROVE TypeOK'
  OBVIOUS
<1>0. TypeOK /\ StoreTypeOK'
  BY DEF IInv, StoreInv
<1>9. \A s \in Scopes : CurrentAuthority(s) \in Authority
  BY <1>0, ScopeAuthorityCanonical DEF TypeOK, CurrentAuthority
<1>1. ASSUME NEW s \in Scopes, AdvanceProjectState(s) PROVE TypeOK'
  <2>1. PICK e \in (epoch[s] + 1)..MaxEpoch :
          /\ epoch' = [epoch EXCEPT ![s] = e]
          /\ announced' = announced \cup {<<CurrentAuthority(s), ScopeAuthority(s, e)>>}
          /\ UNCHANGED <<storeVars, turns, applied>>
    BY <1>1 DEF AdvanceProjectState
  <2>2. e \in 1..MaxEpoch
    BY <1>0, StampAssumption DEF TypeOK, Epochs
  <2>3. ScopeAuthority(s, e) \in Authority
    BY <2>2, ScopeAuthorityCanonical
  <2> QED
    BY <1>0, <1>9, <2>1, <2>2, <2>3 DEF TypeOK
<1>2. CASE DeliverAdvance
  <2>1. PICK change \in announced :
          applied' = [s \in Scopes |->
            IF SameScope(CurrentAuthority(s), change[2]) /\ applied[s] < change[2].state_epoch
              THEN change[2].state_epoch ELSE applied[s]]
    BY <1>2 DEF DeliverAdvance
  <2>2. change[2].state_epoch \in 1..MaxEpoch
    <3>1. PICK s \in Scopes : \E d, e \in 1..epoch[s] :
            e \in 1..MaxEpoch /\ change[2] = ScopeAuthority(s, e)
      BY ReachedAuthorities
    <3> QED
      BY <3>1 DEF ScopeAuthority
  <2>3. applied' \in [Scopes -> 1..MaxEpoch]
    BY <1>0, <2>1, <2>2 DEF TypeOK
  <2> QED
    BY <1>0, <1>2, <2>3 DEF DeliverAdvance, TypeOK
<1>3. ASSUME NEW t \in Turns, NEW s \in Scopes, BeginTurn(t, s) PROVE TypeOK'
  BY <1>0, <1>3, <1>9 DEF BeginTurn, TypeOK
<1>4. ASSUME NEW t \in Turns, NEW key \in RawKeys, CommitWrite(t, key) PROVE TypeOK'
  BY <1>0, <1>4 DEF CommitWrite, TypeOK
<1>5. ASSUME NEW t \in Turns, EndTurn(t) PROVE TypeOK'
  BY <1>0, <1>5 DEF EndTurn, TypeOK
<1>6. CASE Persist
  BY <1>0, <1>6 DEF Persist, TypeOK
<1>7. CASE CrashAndRestart
  <2>1. 1 \in 1..MaxEpoch
    BY StampAssumption DEF Epochs
  <2> QED
    BY <1>0, <1>7, <2>1 DEF CrashAndRestart, TypeOK
<1>8. CASE UNCHANGED vars
  BY <1>0, <1>8 DEF vars, TypeOK
<1> QED
  BY <1>1, <1>2, <1>3, <1>4, <1>5, <1>6, <1>7, <1>8 DEF Next

(* Epochs only grow, so what was reached stays reached. *)
LEMMA ReachedKept ==
  IInv /\ [Next]_vars /\ TypeOK' => TurnsReached' /\ AnnouncementsReached'
<1> SUFFICES ASSUME IInv, [Next]_vars, TypeOK' PROVE TurnsReached' /\ AnnouncementsReached'
  OBVIOUS
<1>0. /\ TurnsReached /\ AnnouncementsReached
      /\ \A s \in Scopes : epoch[s] \in 1..MaxEpoch
      /\ turns \in [Turns -> Authority \cup {Idle}]
      /\ MaxEpoch \in Nat
  BY StampAssumption DEF IInv, TypeOK, Epochs
<1>1. ASSUME NEW s \in Scopes, AdvanceProjectState(s)
      PROVE  TurnsReached' /\ AnnouncementsReached'
  <2>1. PICK f \in (epoch[s] + 1)..MaxEpoch :
          /\ epoch' = [epoch EXCEPT ![s] = f]
          /\ announced' = announced \cup {<<CurrentAuthority(s), ScopeAuthority(s, f)>>}
          /\ UNCHANGED turns
    BY <1>1 DEF AdvanceProjectState
  <2>2. \A z \in Scopes : 1..epoch[z] \subseteq 1..epoch'[z]
    BY <1>0, <2>1 DEF IInv, TypeOK
  <2>3. epoch[s] \in 1..epoch'[s] /\ f \in 1..epoch'[s]
    BY <1>0, <2>1 DEF IInv, TypeOK
  <2>4. TurnsReached'
    BY <1>0, <2>1, <2>2 DEF TurnsReached
  <2>5. AnnouncementsReached'
    BY <1>0, <2>1, <2>2, <2>3 DEF AnnouncementsReached, CurrentAuthority
  <2> QED
    BY <2>4, <2>5
<1>2. CASE DeliverAdvance
  BY <1>0, <1>2 DEF DeliverAdvance, TurnsReached, AnnouncementsReached
<1>3. ASSUME NEW t \in Turns, NEW s \in Scopes, BeginTurn(t, s)
      PROVE  TurnsReached' /\ AnnouncementsReached'
  <2>1. turns' = [turns EXCEPT ![t] = ScopeAuthority(s, epoch[s])]
        /\ UNCHANGED <<epoch, announced>>
    BY <1>3 DEF BeginTurn, CurrentAuthority
  <2>2. epoch[s] \in 1..epoch[s]
    BY <1>0
  <2>3. TurnsReached'
    BY <1>0, <2>1, <2>2 DEF TurnsReached
  <2> QED
    BY <1>0, <2>1, <2>3 DEF AnnouncementsReached
<1>4. ASSUME NEW t \in Turns, NEW key \in RawKeys, CommitWrite(t, key)
      PROVE  TurnsReached' /\ AnnouncementsReached'
  BY <1>0, <1>4 DEF CommitWrite, TurnsReached, AnnouncementsReached
<1>5. ASSUME NEW t \in Turns, EndTurn(t) PROVE TurnsReached' /\ AnnouncementsReached'
  BY <1>0, <1>5 DEF EndTurn, TurnsReached, AnnouncementsReached
<1>6. CASE Persist
  BY <1>0, <1>6 DEF Persist, TurnsReached, AnnouncementsReached
<1>7. CASE CrashAndRestart
  BY <1>0, <1>7 DEF CrashAndRestart, TurnsReached, AnnouncementsReached
<1>8. CASE UNCHANGED vars
  BY <1>0, <1>8 DEF vars, TurnsReached, AnnouncementsReached
<1> QED
  BY <1>1, <1>2, <1>3, <1>4, <1>5, <1>6, <1>7, <1>8 DEF Next

(* Memory keeps its stamp: a write carries the epoch at which its authority is *)
(* the current one or names an older epoch, and no step lowers an epoch.       *)
LEMMA StampsKept == IInv /\ [Next]_vars /\ TypeOK' => Stamped(records)' /\ Stamped(disk)'
<1> SUFFICES ASSUME IInv, [Next]_vars, TypeOK' PROVE Stamped(records)' /\ Stamped(disk)'
  OBVIOUS
<1> DEFINE Held == Range(records) \cup Range(disk)
<1>0. /\ records \in Seq(Record) /\ disk \in Seq(Record)
      /\ \A s \in Scopes : epoch[s] \in 1..MaxEpoch
      /\ MaxEpoch \in Nat
  BY StampAssumption DEF IInv, TypeOK, StoreTypeOK, Epochs
<1>a. \A s \in Scopes : \A r \in Held : StampedAt(r, s, epoch[s])
  BY DEF IInv, Stamped, StampedAt, CurrentAuthority, Range
<1> SUFFICES \A s \in Scopes : \A r \in Held' : StampedAt(r, s, epoch'[s])
  BY DEF Stamped, StampedAt, CurrentAuthority, Range
<1>b. UNCHANGED epoch /\ Held' \subseteq Held
        => \A s \in Scopes : \A r \in Held' : StampedAt(r, s, epoch'[s])
  BY <1>a
<1>c. \A r \in Held : r.authority.state_epoch \in Nat
  <2>1. Held \subseteq Record
    BY <1>0 DEF Range
  <2>2. \A r \in Record : r.authority \in Authority
    BY DEF Record
  <2>3. \A a \in Authority : a.state_epoch \in Nat
    BY DEF Authority, Epochs
  <2> QED
    BY <2>1, <2>2, <2>3
<1> HIDE DEF Held
<1>1. ASSUME NEW z \in Scopes, AdvanceProjectState(z)
      PROVE  \A s \in Scopes : \A r \in Held' : StampedAt(r, s, epoch'[s])
  <2>1. PICK f \in (epoch[z] + 1)..MaxEpoch :
          epoch' = [epoch EXCEPT ![z] = f] /\ UNCHANGED storeVars
    BY <1>1 DEF AdvanceProjectState
  <2>2. Held' = Held
    BY <2>1 DEF Held, storeVars
  <2>3. \A s \in Scopes : epoch'[s] = epoch[s] \/ epoch'[s] > epoch[s]
    BY <1>0, <2>1 DEF IInv, TypeOK
  <2>4. ASSUME NEW s \in Scopes, NEW r \in Held, epoch'[s] > epoch[s]
        PROVE  StampedAt(r, s, epoch'[s])
    <3>1. StampedAt(r, s, epoch[s])
      BY <1>a
    <3>2. r.authority.state_epoch \in Nat /\ epoch[s] \in Nat /\ epoch'[s] \in Nat
      BY <1>0, <1>c, <2>1, StampAssumption DEF IInv, TypeOK
    <3> QED
      BY <3>1, <3>2, <2>4 DEF StampedAt, SameScope, ScopeAuthority
  <2>5. ASSUME NEW s \in Scopes, NEW r \in Held, epoch'[s] = epoch[s]
        PROVE  StampedAt(r, s, epoch'[s])
    BY <1>a, <2>5
  <2> QED
    BY <2>2, <2>3, <2>4, <2>5
<1>2. CASE DeliverAdvance
  <2>1. PICK change \in announced : Advance(change[1], change[2])
    BY <1>2 DEF DeliverAdvance
  <2>2. Range(records') \subseteq Range(records) /\ UNCHANGED disk
    BY <1>0, <2>1, WithoutRecords DEF Advance, AdvanceProjectEpoch, Retire
  <2> QED
    BY <1>2, <1>b, <2>2 DEF DeliverAdvance, Held
<1>3. ASSUME NEW t \in Turns, NEW s \in Scopes, BeginTurn(t, s)
      PROVE  \A z \in Scopes : \A r \in Held' : StampedAt(r, z, epoch'[z])
  BY <1>3, <1>b DEF BeginTurn, storeVars, Held
<1>4. ASSUME NEW t \in Turns, NEW key \in RawKeys, CommitWrite(t, key)
      PROVE  \A s \in Scopes : \A r \in Held' : StampedAt(r, s, epoch'[s])
  <2>1. PICK z \in Scopes :
          SameScope(turns[t], CurrentAuthority(z)) /\ WriteCurrent(turns[t], key, epoch[z])
    BY <1>4 DEF CommitWrite
  <2>2. PICK y \in Scopes : \E e \in 1..epoch[y] :
          e \in 1..MaxEpoch /\ turns[t] = ScopeAuthority(y, e)
    BY <1>4, ReachedAuthorities DEF CommitWrite
  <2>3. PICK e \in 1..epoch[y] : e \in 1..MaxEpoch /\ turns[t] = ScopeAuthority(y, e)
    BY <2>2
  <2>4. y = z
    BY <2>1, <2>3, ScopeDetermined DEF CurrentAuthority
  <2>5. Parse(turns[t]) = ScopeAuthority(z, e)
    BY <2>3, <2>4, ScopeAuthorityCanonical
  <2> DEFINE incoming ==
        [authority |-> Parse(turns[t]), key |-> Strip[key], payload |-> epoch[z]]
  <2>6. Range(records') \subseteq Range(records) \cup {incoming} /\ UNCHANGED disk
    BY <1>0, <2>1, WriteRecords DEF WriteCurrent
  <2>7. ASSUME NEW s \in Scopes PROVE StampedAt(incoming, s, epoch[s])
    <3>1. incoming.authority = ScopeAuthority(z, e) /\ incoming.payload = epoch[z]
      BY <2>5
    <3>2. incoming.authority.state_epoch = e /\ e <= epoch[z]
      BY <3>1, <2>3, <2>4, <1>0 DEF ScopeAuthority
    <3>3. SameScope(incoming.authority, ScopeAuthority(s, epoch[s])) => s = z
      BY <3>1, ScopeDetermined
    <3> QED
      BY <3>1, <3>2, <3>3 DEF StampedAt
  <2> HIDE DEF incoming
  <2> QED
    BY <1>4, <1>a, <2>6, <2>7 DEF CommitWrite, Held
<1>5. ASSUME NEW t \in Turns, EndTurn(t)
      PROVE  \A s \in Scopes : \A r \in Held' : StampedAt(r, s, epoch'[s])
  BY <1>5, <1>b DEF EndTurn, storeVars, Held
<1>6. CASE Persist
  BY <1>6, <1>b DEF Persist, SaveSnapshot, Held
<1>7. CASE CrashAndRestart
  <2>1. records' = disk /\ UNCHANGED <<disk, epoch>>
    BY <1>7, <1>0, ReplayIsIdentity
    DEF CrashAndRestart, RestoreSnapshot, IInv, StoreInv, Restorable
  <2> QED
    BY <1>b, <2>1 DEF Held
<1>8. CASE UNCHANGED vars
  BY <1>8, <1>b DEF vars, storeVars, Held
<1> QED
  BY <1>1, <1>2, <1>3, <1>4, <1>5, <1>6, <1>7, <1>8 DEF Next

(* Every step keeps the invariant. *)
LEMMA MemoryInvNext == IInv /\ [Next]_vars => IInv'
<1> SUFFICES ASSUME IInv, [Next]_vars PROVE IInv'
  OBVIOUS
<1>1. StoreInv'
  BY StepsAreStoreSteps, StoreInvNext DEF IInv
<1>2. TypeOK'
  BY <1>1, TypesKept
<1>3. Stamped(records)' /\ Stamped(disk)'
  BY <1>2, StampsKept
<1>4. TurnsReached' /\ AnnouncementsReached'
  BY <1>2, ReachedKept
<1> QED
  BY <1>1, <1>2, <1>3, <1>4 DEF IInv

(* Project memory inside Captain keeps its invariant. *)
THEOREM MemoryInvAlways == Spec => []IInv
  BY MemoryInvInit, MemoryInvNext, PTL DEF Spec

(* Every authority that Captain's turns and announcements hold is a canonical *)
(* one, and the store holds canonical records only.                          *)
THEOREM MemoryTypeCorrect == Spec => []TypeOK
<1>1. IInv => TypeOK
  BY DEF IInv
<1> QED
  BY MemoryInvAlways, <1>1, PTL

(* Memory shown under the current authority of a scope was written while that *)
(* epoch was current, whatever was in flight, delivered late or restored.     *)
THEOREM ShownMemoryIsFresh == Spec => []VisibleIsFresh
<1>1. IInv => VisibleIsFresh
  <2> SUFFICES ASSUME IInv, NEW s \in Scopes,
                      NEW r \in Range(ReadProject(records, CurrentAuthority(s)))
               PROVE  r.payload = epoch[s]
    BY DEF VisibleIsFresh
  <2>1. epoch[s] \in 1..MaxEpoch /\ records \in Seq(Record)
    BY DEF IInv, TypeOK, StoreTypeOK
  <2>2. /\ CurrentAuthority(s) \in Authority
        /\ Parse(CurrentAuthority(s)) = CurrentAuthority(s)
    BY <2>1, ScopeAuthorityCanonical DEF CurrentAuthority
  <2>3. ReadProject(records, CurrentAuthority(s))
          = Without(records, {q \in Range(records) : ~ Permits(CurrentAuthority(s), q.authority)})
    BY <2>2, ParseCanonical DEF ReadProject
  <2>4. r \in Range(records) /\ r.authority = CurrentAuthority(s)
    BY <2>1, <2>3, WithoutRecords DEF Permits
  <2>5. PICK i \in DOMAIN records : r = records[i]
    BY <2>4 DEF Range
  <2> QED
    BY <2>4, <2>5 DEF IInv, Stamped, SameScope, CurrentAuthority, ScopeAuthority
<1> QED
  BY MemoryInvAlways, <1>1, PTL

(* No memory, resident or persisted, is of an epoch Project State has yet to *)
(* reach, so a new epoch begins without memory.                              *)
THEOREM NoMemoryFromTheFuture == Spec => []NoMemoryAhead
<1>1. IInv => NoMemoryAhead
  BY DEF IInv, Stamped, NoMemoryAhead, Range
<1> QED
  BY MemoryInvAlways, <1>1, PTL

(* If all resident memory is of current epochs there is no more of it than a    *)
(* snapshot has room for: persistence is refused over superseded memory only.   *)
THEOREM PersistBlockedOnlyByStale == Spec => []PersistBlockedOnlyByStaleMemory
<1> DEFINE R == ResidentAuthorities(records)
<1> DEFINE C == {CurrentAuthority(s) : s \in Scopes}
<1>1. IInv => PersistBlockedOnlyByStaleMemory
  <2> SUFFICES ASSUME IInv, Cardinality(Scopes) <= MaxAuthoritiesPerSnapshot,
                      \A r \in Range(records) : IsCurrent(r.authority)
               PROVE  SnapshotAllowed(records)
    BY DEF PersistBlockedOnlyByStaleMemory
  <2>1. records \in Seq(Record) /\ WithinBudget(records)
    BY DEF IInv, StoreInv, StoreTypeOK, BudgetHeld
  <2>2. R \in SUBSET C
    BY DEF ResidentAuthorities, IsCurrent
  <2>3. IsFiniteSet(Scopes)
    BY ScopeAssumption
  <2> DEFINE g == [s \in Scopes |-> CurrentAuthority(s)]
  <2>4. g \in Surjection(Scopes, C)
    BY DEF Surjection
  <2> HIDE DEF R, C, g
  <2>5. IsFiniteSet(C) /\ Cardinality(C) <= Cardinality(Scopes)
    BY <2>3, <2>4, FS_Surjection
  <2>6. IsFiniteSet(R) /\ Cardinality(R) <= Cardinality(C)
    BY <2>2, <2>5, FS_Subset
  <2>7. Cardinality(R) \in Nat /\ Cardinality(C) \in Nat /\ Cardinality(Scopes) \in Nat
    BY <2>3, <2>5, <2>6, FS_CardinalityType
  <2>8. Cardinality(R) <= MaxAuthoritiesPerSnapshot
    BY <2>5, <2>6, <2>7, BudgetAssumption
  <2>9. Len(records) <= Cardinality(R) * MaxRecordsPerAuthority
    BY <2>1, CountedByAuthority DEF R
  <2>10. Cardinality(R) * MaxRecordsPerAuthority
           <= MaxAuthoritiesPerSnapshot * MaxRecordsPerAuthority
    BY <2>7, <2>8, BudgetAssumption
  <2>11. /\ Len(records) \in Nat /\ Cardinality(R) * MaxRecordsPerAuthority \in Nat
         /\ MaxAuthoritiesPerSnapshot * MaxRecordsPerAuthority \in Nat
    BY <2>1, <2>7, BudgetAssumption
  <2> QED
    BY <2>8, <2>9, <2>10, <2>11 DEF SnapshotAllowed, R
<1> QED
  BY MemoryInvAlways, <1>1, PTL

(* Until a crash, no step of Captain removes a memory of a scope's current   *)
(* epoch: late, repeated and reordered advances retire superseded memory only. *)
THEOREM CurrentMemoryIsKept == Spec => CurrentMemoryKept
<1> DEFINE Kept ==
      CrashAndRestart \/
      \A r \in Range(records) :
        IsCurrent(r.authority) =>
          \E kept \in Range(records') : kept.authority = r.authority /\ kept.key = r.key
<1>1. IInv /\ [Next]_vars => [Kept]_vars
  <2> SUFFICES ASSUME IInv, Next PROVE Kept
    OBVIOUS
  <2>0. records \in Seq(Record) /\ \A s \in Scopes : epoch[s] \in 1..MaxEpoch
    BY DEF IInv, TypeOK, StoreTypeOK
  <2>1. ASSUME UNCHANGED records PROVE Kept
    BY <2>1
  <2>2. CASE DeliverAdvance
    <3>1. PICK change \in announced : Advance(change[1], change[2])
      BY <2>2 DEF DeliverAdvance
    <3>2. PICK z \in Scopes : \E e \in 1..epoch[z] :
            e \in 1..MaxEpoch /\ change[2] = ScopeAuthority(z, e)
      BY ReachedAuthorities
    <3>3. PICK e \in 1..epoch[z] : e \in 1..MaxEpoch /\ change[2] = ScopeAuthority(z, e)
      BY <3>2
    <3>4. Parse(change[2]) = ScopeAuthority(z, e)
      BY <3>3, ScopeAuthorityCanonical
    <3>5. ASSUME NEW r \in Range(records), IsCurrent(r.authority)
          PROVE  ~ StaleSameScope(r, Parse(change[2]))
      <4>1. PICK s \in Scopes : r.authority = ScopeAuthority(s, epoch[s])
        BY <3>5 DEF IsCurrent, CurrentAuthority
      <4>2. SameScope(r.authority, ScopeAuthority(z, e)) => s = z
        BY <4>1, ScopeDetermined
      <4>3. epoch[z] \in Int /\ e \in Int /\ e <= epoch[z]
        BY <2>0, <3>3
      <4>4. r.authority.state_epoch = epoch[s] /\ ScopeAuthority(z, e).state_epoch = e
        BY <4>1 DEF ScopeAuthority
      <4> QED
        BY <3>4, <4>2, <4>3, <4>4 DEF StaleSameScope
    <3>6. ASSUME NEW r \in Range(records), IsCurrent(r.authority) PROVE r \in Range(records')
      BY <2>0, <3>1, <3>5, <3>6, WithoutRecords DEF Advance, AdvanceProjectEpoch, Retire
    <3> QED
      BY <3>6
  <2>3. ASSUME NEW t \in Turns, NEW key \in RawKeys, CommitWrite(t, key) PROVE Kept
    <3>1. PICK z \in Scopes : WriteCurrent(turns[t], key, epoch[z])
      BY <2>3 DEF CommitWrite
    <3> QED
      BY <2>0, <3>1, WriteRecords DEF WriteCurrent
  <2>4. CASE CrashAndRestart
    BY <2>4
  <2>5. CASE \E s \in Scopes : AdvanceProjectState(s)
    BY <2>1, <2>5 DEF AdvanceProjectState, storeVars
  <2>6. CASE \E t \in Turns : (\E s \in Scopes : BeginTurn(t, s)) \/ EndTurn(t)
    BY <2>1, <2>6 DEF BeginTurn, EndTurn, storeVars
  <2>7. CASE Persist
    BY <2>1, <2>7 DEF Persist, SaveSnapshot
  <2> HIDE DEF Kept
  <2> QED
    BY <2>2, <2>3, <2>4, <2>5, <2>6, <2>7 DEF Next
<1> QED
  BY MemoryInvAlways, <1>1, PTL DEF Spec, CurrentMemoryKept

(* Captain uses the store only as the store's own specification allows, so  *)
(* everything proved of the store holds inside Captain.                     *)
THEOREM MemoryImplementsStore == Spec => StoreSpec
<1>1. Init => StoreInit
  BY DEF Init
<1> QED
  BY MemoryInvAlways, StepsAreStoreSteps, <1>1, PTL DEF Spec, StoreSpec

(* So Captain's calls, turns, late advances and crashes never show in project  *)
(* memory as anything but writes, retirements, saves and restarts of a map.    *)
THEOREM CaptainMemoryIsAMap == Spec => ImplementsMap
  BY MemoryImplementsStore, StoreImplementsMap, PTL
=============================================================================
