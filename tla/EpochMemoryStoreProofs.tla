----------------------- MODULE EpochMemoryStoreProofs -----------------------
(***************************************************************************)
(* The project-memory component keeps its records unique and within budget,  *)
(* and can always restore what it persisted, for every choice of texts,      *)
(* authorities, payloads and budgets.                                        *)
(***************************************************************************)
EXTENDS MemoryViews, MemoryRecordsProofs

(* A list that restore accepts and gives back unchanged. *)
LEMMA GoodListRestores ==
  ASSUME NEW data \in Seq(Record), UniqueKeys(data), WithinBudget(data),
         SnapshotAllowed(data)
  PROVE  RestoreAccepts(data) /\ Replay(data) = data
<1>1. Replay(data) = data
  BY ReplayIsIdentity
<1> QED
  BY <1>1 DEF RestoreAccepts, SnapshotAllowed

(* The invariant holds of the empty store. *)
LEMMA StoreInvInit == StoreInit => StoreInv
<1> SUFFICES ASSUME StoreInit PROVE StoreInv
  OBVIOUS
<1>1. /\ << >> \in Seq(Record) /\ Len(<< >>) = 0 /\ DOMAIN << >> = {}
  OBVIOUS
<1>2. UniqueKeys(<< >>) /\ WithinBudget(<< >>)
  BY <1>1 DEF UniqueKeys, WithinBudget
<1>3. SnapshotAllowed(<< >>)
  <2>1. ResidentAuthorities(<< >>) = {}
    BY <1>1 DEF ResidentAuthorities, Range
  <2> QED
    BY <1>1, <2>1, FS_EmptySet, BudgetAssumption DEF SnapshotAllowed
<1> QED
  BY <1>1, <1>2, <1>3 DEF StoreInit, StoreInv, StoreTypeOK, NoDuplicateKeys, BudgetHeld, Restorable

(* Every step preserves the invariant. *)
LEMMA StoreInvNext == StoreInv /\ [StoreNext]_storeVars => StoreInv'
<1> SUFFICES ASSUME StoreInv, [StoreNext]_storeVars PROVE StoreInv'
  OBVIOUS
<1> USE DEF StoreInv, StoreTypeOK, NoDuplicateKeys, BudgetHeld, Restorable
<1>1. ASSUME NEW raw \in RawAuthorities, NEW key \in RawKeys, NEW payload \in Payloads,
             WriteCurrent(raw, key, payload)
      PROVE  StoreInv'
  <2>1. raw \in RawAuthority /\ key \in Texts
    BY InputAssumption
  <2> QED
    BY <1>1, <2>1, WriteKeeps DEF WriteCurrent
<1>2. ASSUME NEW previous \in RawAuthorities, NEW current \in RawAuthorities,
             Advance(previous, current)
      PROVE  StoreInv'
  BY <1>2, AdvanceKeeps DEF Advance
<1>3. CASE SaveSnapshot
  BY <1>3 DEF SaveSnapshot
<1>4. CASE RestoreSnapshot
  BY <1>4, ReplayIsIdentity DEF RestoreSnapshot
<1>5. CASE UNCHANGED storeVars
  BY <1>5 DEF storeVars
<1> QED
  BY <1>1, <1>2, <1>3, <1>4, <1>5 DEF StoreNext

(* In every reachable state the invariant holds. *)
THEOREM StoreInvAlways == StoreSpec => []StoreInv
<1> QED
  BY StoreInvInit, StoreInvNext, PTL DEF StoreSpec

(* The store only ever holds canonical records: an authority, a key or a    *)
(* value that write_project has not normalised and validated never enters   *)
(* the list nor the snapshot.                                               *)
THEOREM StoreTypeCorrect == StoreSpec => []StoreTypeOK
<1>1. StoreInv => StoreTypeOK
  BY DEF StoreInv
<1> QED
  BY <1>1, StoreInvAlways, PTL

(* No authority ever holds two records of one key. *)
THEOREM KeysUnique == StoreSpec => []NoDuplicateKeys
<1>1. StoreInv => NoDuplicateKeys
  BY DEF StoreInv
<1> QED
  BY <1>1, StoreInvAlways, PTL

(* No authority ever holds more records than its budget. *)
THEOREM BudgetNeverExceeded == StoreSpec => []BudgetHeld
<1>1. StoreInv => BudgetHeld
  BY DEF StoreInv
<1> QED
  BY <1>1, StoreInvAlways, PTL

(* A snapshot the store wrote is never refused by restore, and comes back   *)
(* record for record.                                                       *)
THEOREM SnapshotsRestore == StoreSpec => []PersistedRestores
<1>1. StoreInv => PersistedRestores
  BY GoodListRestores DEF StoreInv, StoreTypeOK, Restorable, PersistedRestores
<1> QED
  BY <1>1, StoreInvAlways, PTL

-----------------------------------------------------------------------------
(* The two other ways to the records: the cardinality policy and the guard *)

(* An authority that some argument stands for is canonical, and a key is stripped. *)
LEMMA CanonicalArguments ==
  /\ \A a \in AuthoritiesOf(RawAuthorities) : a \in Authority /\ WellFormed(a) /\ Parse(a) = a
  /\ \A k \in Keys : Strip[k] = k /\ k \in UsableKeys /\ k \in CleanKeys
<1>1. ASSUME NEW a \in AuthoritiesOf(RawAuthorities)
      PROVE  a \in Authority
  <2>1. PICK raw \in RawAuthorities : WellFormed(raw) /\ a = Parse(raw)
    BY DEF AuthoritiesOf
  <2>2. raw \in RawAuthority
    BY InputAssumption
  <2> QED
    BY <2>1, <2>2, ParseCanonical
<1>2. ASSUME NEW k \in Keys
      PROVE  Strip[k] = k /\ k \in UsableKeys /\ k \in CleanKeys
  <2>1. PICK t \in RawKeys : Strip[t] \in UsableKeys /\ k = Strip[t]
    BY DEF Keys
  <2>2. t \in Texts
    BY InputAssumption
  <2> QED
    BY <2>1, <2>2, StripAssumption DEF CleanKeys
<1> QED
  BY <1>1, <1>2, ParseCanonical

(* The policy does to any list what a write does. *)
LEMMA PolicyIsWrite ==
  ASSUME NEW recs, NEW a \in AuthoritiesOf(RawAuthorities), NEW k \in Keys,
         NEW p \in InertPayloads
  PROVE  ApplyWrite(recs, [authority |-> a, key |-> k, payload |-> p]) = WriteProject(recs, a, k, p)
<1> DEFINE r == [authority |-> a, key |-> k, payload |-> p]
<1>1. /\ WellFormed(a) /\ Parse(a) = a /\ Strip[k] = k /\ k \in UsableKeys
      /\ r.authority = a /\ r.key = k
  BY CanonicalArguments
<1>2. WriteProject(recs, a, k, p) = Upsert(recs, r)
  BY <1>1 DEF WriteProject, Writable
<1>3. OfKey(recs, Matching(recs, a), k) = MatchingKey(recs, a, k)
  BY DEF OfKey, MatchingKey
<1> HIDE DEF r
<1>4. ApplyWrite(recs, r) = Upsert(recs, r)
  BY <1>1, <1>3 DEF ApplyWrite, Upsert
<1> QED
  BY <1>2, <1>4 DEF r

(* apply_write and write_project never part: the policy replaces, appends and    *)
(* refuses exactly where the store does.                                         *)
THEOREM PolicyAlwaysAgrees == StoreSpec => []PolicyAgrees
<1>1. StoreInv => PolicyAgrees
  BY PolicyIsWrite DEF PolicyAgrees
<1> QED
  BY <1>1, StoreInvAlways, PTL

(* What a scope is shown of a list of records, and what it could read. *)
LEMMA GuardShows ==
  ASSUME NEW recs \in Seq(Record), NEW raw \in RawAuthority
  PROVE  LET shown == ShownToChat(Envelopes(recs), ActiveScope(raw, raw.repo_scope_hash))
             readable == Envelopes(ReadProject(recs, raw))
         IN  /\ shown \subseteq readable
             /\ Parse(raw) = raw => shown = readable
             /\ ShownToChat(Envelopes(recs), ActiveScope(raw, Unscoped)) = {}
<1> DEFINE active == ActiveScope(raw, raw.repo_scope_hash)
<1> DEFINE shown == ShownToChat(Envelopes(recs), active)
<1> DEFINE readable == Envelopes(ReadProject(recs, raw))
<1>0. \A i \in DOMAIN recs : recs[i] \in Record /\ recs[i].authority \in Authority
  <2>1. \A i \in DOMAIN recs : recs[i] \in Record
    OBVIOUS
  <2>2. \A r \in Record : r.authority \in Authority
    BY DEF Record
  <2> QED
    BY <2>1, <2>2
<1>1. \A e : e \in Envelopes(recs) <=> \E r \in Range(recs) : e = EnvelopeOf(r)
  BY DEF Envelopes, Range
<1>2. WellFormed(raw) =>
        \A e : e \in readable
                 <=> \E r \in Range(recs) : r.authority = Parse(raw) /\ e = EnvelopeOf(r)
  <2> SUFFICES ASSUME WellFormed(raw)
               PROVE  \A e : e \in readable
                        <=> \E r \in Range(recs) : r.authority = Parse(raw) /\ e = EnvelopeOf(r)
    OBVIOUS
  <2> DEFINE foreign == {r \in Range(recs) : ~ Permits(Parse(raw), r.authority)}
  <2>1. ReadProject(recs, raw) = Without(recs, foreign)
    BY DEF ReadProject
  <2>2. Range(Without(recs, foreign)) = {r \in Range(recs) : r \notin foreign}
    <3> HIDE DEF foreign
    <3> QED
      BY WithoutRecords
  <2>3. \A r \in Range(recs) : r \notin foreign <=> r.authority = Parse(raw)
    BY DEF Permits
  <2>4. \A e : e \in readable <=> \E r \in Range(ReadProject(recs, raw)) : e = EnvelopeOf(r)
    BY DEF Envelopes, Range
  <2> HIDE DEF readable, foreign
  <2> QED
    BY <2>1, <2>2, <2>3, <2>4
<1>3. raw.chat_id \in Texts /\ raw.project_id \in Texts /\ raw.state_epoch \in Int
      /\ raw.repo_scope_hash \in Texts \cup Hashes
  BY DEF RawAuthority
<1>4. \A r \in Range(recs) :
        /\ r.authority \in Authority
        /\ r.authority.chat_id \in UsableIds /\ Strip[r.authority.chat_id] = r.authority.chat_id
        /\ r.authority.project_id \in UsableIds
        /\ Strip[r.authority.project_id] = r.authority.project_id
        /\ r.authority.repo_scope_hash \in Hashes
        /\ r.authority.state_epoch \in Int /\ r.authority.state_epoch >= 1
  <2>1. \A r \in Range(recs) : r.authority \in Authority
    BY <1>0 DEF Range
  <2>2. \A a \in Authority :
          /\ a.chat_id \in UsableIds /\ Strip[a.chat_id] = a.chat_id
          /\ a.project_id \in UsableIds /\ Strip[a.project_id] = a.project_id
          /\ a.repo_scope_hash \in Hashes /\ a.state_epoch \in Int /\ a.state_epoch >= 1
    BY DEF Authority, CleanIds, Epochs
  <2> QED
    BY <2>1, <2>2
<1>5. ASSUME NEW r \in Range(recs), Authorized(EnvelopeOf(r), active)
      PROVE  WellFormed(raw) /\ r.authority = Parse(raw)
  <2>1. /\ r.authority.chat_id = raw.chat_id /\ r.authority.project_id = raw.project_id
        /\ r.authority.state_epoch = raw.state_epoch
        /\ r.authority.repo_scope_hash = raw.repo_scope_hash
    BY <1>5 DEF Authorized, SameRepo, EnvelopeOf, ActiveScope
  <2>2. WellFormed(raw)
    BY <1>4, <2>1 DEF WellFormed
  <2>3. r.authority = [chat_id |-> r.authority.chat_id, project_id |-> r.authority.project_id,
                       repo_scope_hash |-> r.authority.repo_scope_hash,
                       state_epoch |-> r.authority.state_epoch]
    BY <1>4 DEF Authority
  <2>4. r.authority = Parse(raw)
    BY <1>4, <2>1, <2>2, <2>3 DEF Parse
  <2> QED
    BY <2>2, <2>4
<1>6. ASSUME NEW r \in Range(recs), r.authority = Parse(raw), Parse(raw) = raw
      PROVE  Authorized(EnvelopeOf(r), active)
  <2>1. NonEmpty(raw.chat_id) /\ NonEmpty(raw.project_id)
    BY <1>4, <1>6, NoneAssumption DEF NonEmpty
  <2> QED
    BY <1>3, <1>4, <1>6, <2>1 DEF Authorized, SameRepo, EnvelopeOf, ActiveScope
<1>7. active # Unscoped
  <2>1. active \in [chat_id : Texts, project_id : Texts, state_epoch : Int,
                    repo_scope : Texts \cup Hashes]
    BY <1>3 DEF ActiveScope
  <2> QED
    BY <2>1, NoneAssumption
<1>8. \A e : e \in shown <=> \E r \in Range(recs) : e = EnvelopeOf(r) /\ Authorized(e, active)
  BY <1>1, <1>7 DEF ShownToChat
<1>9. ~ WellFormed(raw) => readable = {}
  BY DEF ReadProject, Envelopes
<1>10. ShownToChat(Envelopes(recs), ActiveScope(raw, Unscoped)) = {}
  <2>1. ASSUME NEW r \in Range(recs), Authorized(EnvelopeOf(r), ActiveScope(raw, Unscoped))
        PROVE  FALSE
    <3>1. r.authority.repo_scope_hash = Unscoped
      BY <2>1 DEF Authorized, SameRepo, EnvelopeOf, ActiveScope
    <3> QED
      BY <1>4, <3>1, NoneAssumption
  <2> QED
    BY <1>1, <2>1 DEF ShownToChat
<1> HIDE DEF shown, readable, active
<1>11. shown \subseteq readable
  BY <1>2, <1>5, <1>8
<1>12. Parse(raw) = raw => shown = readable
  BY <1>2, <1>6, <1>8, <1>9, <1>11
<1> QED
  BY <1>10, <1>11, <1>12 DEF shown, readable, active

(* The guard on persisted envelopes shows a turn nothing that read_project would *)
(* withhold, and a chat without a project or a repository nothing at all.        *)
THEOREM GuardNeverShowsMore == StoreSpec => []GuardReadsNoMore
<1>1. StoreInv => GuardReadsNoMore
  <2>1. ShownToChat(Envelopes(records), Unscoped) = {}
    BY DEF ShownToChat
  <2> SUFFICES ASSUME StoreInv PROVE GuardReadsNoMore
    OBVIOUS
  <2>2. records \in Seq(Record)
    BY DEF StoreInv, StoreTypeOK
  <2> QED
    BY <2>1, <2>2, GuardShows, InputAssumption DEF GuardReadsNoMore
<1> QED
  BY <1>1, StoreInvAlways, PTL

-----------------------------------------------------------------------------
(* The context of one authority *)

(* The records an authority does not see. *)
Foreign(a) == {r \in Record : r.authority # a}

(* A context is the list without them. *)
LEMMA ContextIsWithout ==
  ASSUME NEW recs \in Seq(Record), NEW a
  PROVE  Context(recs, a) = Without(recs, Foreign(a))
<1> DEFINE d == {r \in Range(recs) : ~ Permits(a, r.authority)}
<1>1. \A r \in Range(recs) : r \in Record
  BY DEF Range
<1>2. \A r \in Range(recs) : r \in d <=> r \in Foreign(a)
  BY <1>1 DEF Permits, Foreign
<1>3. Context(recs, a) = Without(recs, d)
  BY DEF Context
<1> HIDE DEF d
<1> QED
  BY <1>2, <1>3, WithoutSame

(* A write changes one entry of its own authority's context, where it stands or *)
(* at the end, and no other context at all.                                     *)
LEMMA ContextAfterUpsert ==
  ASSUME NEW recs \in Seq(Record), NEW incoming \in Record,
         Upsert(recs, incoming) \in Seq(Record)
  PROVE  LET new == Upsert(recs, incoming)
         IN  /\ \A b : b # incoming.authority => Context(new, b) = Context(recs, b)
             /\ OneEntryStep(Context(recs, incoming.authority), Context(new, incoming.authority))
<1> DEFINE a == incoming.authority
<1> DEFINE new == Upsert(recs, incoming)
<1> DEFINE same == MatchingKey(recs, a, incoming.key)
<1> DEFINE before == Without(recs, Foreign(a))
<1> DEFINE after == Without(new, Foreign(a))
<1>0. /\ \A b : Context(recs, b) = Without(recs, Foreign(b))
      /\ \A b : Context(new, b) = Without(new, Foreign(b))
  BY ContextIsWithout
<1>1. before \in Seq(Record)
  BY WithoutEmbeds
<1>2. incoming \notin Foreign(a) /\ \A b : b # a => incoming \in Foreign(b)
  BY DEF Foreign
<1>3. CASE new = recs
  BY <1>3 DEF OneEntryStep
<1>4. CASE same # {} /\ new = [recs EXCEPT ![Min(same)] = incoming]
  <2> DEFINE p == Min(same)
  <2>1. same \in SUBSET Nat /\ same # {}
    BY <1>4 DEF MatchingKey, Matching
  <2>2. p \in same
    BY <2>1, MinOfNaturals
  <2>3. /\ p \in 1..Len(recs) /\ recs[p] \in Record
        /\ recs[p].authority = a /\ recs[p].key = incoming.key
    BY <2>2 DEF MatchingKey, Matching, Permits
  <2>4. new = [recs EXCEPT ![p] = incoming]
    BY <1>4
  <2> HIDE DEF p, same, new
  <2>5. recs[p] \notin Foreign(a) /\ \A b : b # a => recs[p] \in Foreign(b)
    BY <2>3 DEF Foreign
  <2>6. PICK q \in 1..Len(before) :
          before[q] = recs[p] /\ after = [before EXCEPT ![q] = incoming]
    <3> DEFINE d == Foreign(a)
    <3>1. recs[p] \notin d /\ incoming \notin d
      BY <1>2, <2>5
    <3> HIDE DEF d, a
    <3>2. OneReplaced(Without([recs EXCEPT ![p] = incoming], d), Without(recs, d),
                      recs[p], incoming)
      BY <2>3, <3>1, WithoutOfReplacement
    <3>3. OneReplaced(after, before, recs[p], incoming)
      BY <2>4, <3>2 DEF d, a
    <3> HIDE DEF before, after
    <3> QED
      BY <3>3 DEF OneReplaced
  <2>7. ASSUME NEW b, b # a PROVE Without(new, Foreign(b)) = Without(recs, Foreign(b))
    <3> DEFINE d == Foreign(b)
    <3>1. recs[p] \in d /\ incoming \in d
      BY <1>2, <2>5, <2>7
    <3> HIDE DEF d, a
    <3>2. Without([recs EXCEPT ![p] = incoming], d) = Without(recs, d)
      BY <2>3, <3>1, WithoutOfHidden
    <3> QED
      BY <2>4, <3>2 DEF d
  <2> HIDE DEF before, after
  <2>8. OneEntryStep(before, after)
    <3>1. Len(after) = Len(before) /\ q \in DOMAIN before /\ after[q] = incoming
          /\ \A j \in DOMAIN before \ {q} : after[j] = before[j]
      BY <1>1, <2>6
    <3> QED
      BY <2>3, <2>6, <3>1 DEF OneEntryStep
  <2> QED
    BY <1>0, <2>7, <2>8 DEF before, after, new
<1>5. CASE new = Append(recs, incoming)
  <2> HIDE DEF new
  <2>1. ASSUME NEW b PROVE Without(new, Foreign(b)) = IF incoming \in Foreign(b)
                                                       THEN Without(recs, Foreign(b))
                                                       ELSE Append(Without(recs, Foreign(b)), incoming)
    <3> DEFINE d == Foreign(b)
    <3> HIDE DEF d
    <3>1. Without(new, d) = IF incoming \in d THEN Without(recs, d)
                            ELSE Append(Without(recs, d), incoming)
      BY <1>5, WithoutOfAppend
    <3> QED
      BY <3>1 DEF d
  <2>2. after = Append(before, incoming)
    BY <1>2, <2>1
  <2>3. \A b : b # a => Without(new, Foreign(b)) = Without(recs, Foreign(b))
    BY <1>2, <2>1
  <2> HIDE DEF before, after
  <2>4. Len(after) = Len(before) + 1 /\ SubSeq(after, 1, Len(before)) = before
    BY <1>1, <2>2
  <2> QED
    BY <1>0, <2>3, <2>4 DEF before, after, new, OneEntryStep
<1> QED
  BY <1>3, <1>4, <1>5 DEF Upsert

(* A retirement drops the context of an older authority of the scope whole, and *)
(* leaves every other as it was.                                                *)
LEMMA ContextAfterRetire ==
  ASSUME NEW recs \in Seq(Record), NEW new, NEW a
  PROVE  Context(Retire(recs, new), a)
           = IF OlderInScope(a, new) THEN << >> ELSE Context(recs, a)
<1> DEFINE stale == {r \in Range(recs) : StaleSameScope(r, new)}
<1> DEFINE f == Foreign(a)
<1> DEFINE t == Retire(recs, new)
<1>1. t = Without(recs, stale)
  BY DEF Retire
<1>2. \A r \in Range(recs) :
        /\ r \in f <=> r.authority # a
        /\ r \in stale <=> OlderInScope(r.authority, new)
  <2>1. \A r \in Range(recs) : r \in Record
    BY DEF Range
  <2> QED
    BY <2>1 DEF Foreign, StaleSameScope, OlderInScope
<1> HIDE DEF stale, f, t
<1>3. t \in Seq(Record)
  BY <1>1, WithoutEmbeds
<1>4. Context(t, a) = Without(t, f) /\ Context(recs, a) = Without(recs, f)
  BY <1>3, ContextIsWithout DEF f
<1>5. Without(t, f) = Without(recs, stale \cup f)
  BY <1>1, WithoutTwice
<1>6. CASE OlderInScope(a, new)
  <2>1. \A r \in Range(recs) : r \in stale \cup f
    BY <1>2, <1>6
  <2> DEFINE both == stale \cup f
  <2> HIDE DEF both
  <2>2. Without(recs, both) = << >>
    BY <2>1, WithoutAll DEF both
  <2> QED
    BY <1>4, <1>5, <1>6, <2>2 DEF both, t
<1>7. CASE ~ OlderInScope(a, new)
  <2>1. \A r \in Range(recs) : r \in stale \cup f <=> r \in f
    BY <1>2, <1>7
  <2> DEFINE both == stale \cup f
  <2> HIDE DEF both
  <2>2. Without(recs, both) = Without(recs, f)
    BY <2>1, WithoutSame DEF both
  <2> QED
    BY <1>4, <1>5, <1>7, <2>2 DEF both, t
<1> QED
  BY <1>6, <1>7

(* A record a write makes of arguments it accepts. *)
LEMMA WriteIsUpsert ==
  ASSUME NEW recs, NEW raw \in RawAuthorities, NEW key \in RawKeys, NEW payload
  PROVE  \/ WriteProject(recs, raw, key, payload) = recs
         \/ LET r == [authority |-> Parse(raw), key |-> Strip[key], payload |-> payload]
            IN  /\ r \in Record /\ Parse(raw) \in AuthoritiesOf(RawAuthorities)
                /\ Strip[key] \in Keys /\ payload \in InertPayloads
                /\ WriteProject(recs, raw, key, payload) = Upsert(recs, r)
<1>1. CASE Writable(raw, key, payload)
  <2>1. Parse(raw) \in AuthoritiesOf(RawAuthorities) /\ Strip[key] \in Keys
        /\ payload \in InertPayloads
    BY <1>1 DEF Writable, AuthoritiesOf, Keys
  <2>2. [authority |-> Parse(raw), key |-> Strip[key], payload |-> payload] \in Record
    BY <2>1, CanonicalArguments DEF Record
  <2> QED
    BY <1>1, <2>1, <2>2 DEF WriteProject
<1>2. CASE ~ Writable(raw, key, payload)
  BY <1>2 DEF WriteProject
<1> QED
  BY <1>1, <1>2

(* While the process runs, a call changes the context of an authority by one    *)
(* whole entry or retires it whole, and a write reaches one context only:       *)
(* nothing is evicted or reordered across an authority wall.                    *)
THEOREM ContextsAreStable == StoreSpec => ContextsStable
<1> DEFINE touched == {a \in AuthoritiesOf(RawAuthorities) :
                         Context(records', a) # Context(records, a)}
<1> DEFINE Stable ==
      \/ UNCHANGED records
      \/ RestoreSnapshot
      \/ /\ \A a \in touched : OneEntryStep(Context(records, a), Context(records', a))
         /\ \A a, b \in touched :
              a # b => SameScope(a, b) /\ Context(records', a) = << >>
<1>1. StoreInv /\ [StoreNext]_storeVars => [Stable]_storeVars
  <2> SUFFICES ASSUME StoreInv, StoreNext PROVE Stable
    OBVIOUS
  <2>0. records \in Seq(Record) /\ UniqueKeys(records) /\ WithinBudget(records)
    BY DEF StoreInv, StoreTypeOK, NoDuplicateKeys, BudgetHeld
  <2>1. ASSUME NEW raw \in RawAuthorities, NEW key \in RawKeys, NEW payload \in Payloads,
               WriteCurrent(raw, key, payload), records' # records
        PROVE  Stable
    <3> DEFINE r == [authority |-> Parse(raw), key |-> Strip[key], payload |-> payload]
    <3>1. r \in Record /\ records' = Upsert(records, r)
      BY <2>1, WriteIsUpsert DEF WriteCurrent
    <3> HIDE DEF r
    <3>2. Upsert(records, r) \in Seq(Record)
      BY <2>0, <3>1, UpsertKeeps
    <3>3. /\ \A b : b # r.authority => Context(records', b) = Context(records, b)
          /\ OneEntryStep(Context(records, r.authority), Context(records', r.authority))
      BY <2>0, <3>1, <3>2, ContextAfterUpsert
    <3>4. \A a \in touched : a = r.authority
      BY <3>3
    <3> HIDE DEF touched
    <3> QED
      BY <3>3, <3>4
  <2>2. ASSUME NEW previous \in RawAuthorities, NEW current \in RawAuthorities,
               Advance(previous, current), records' # records
        PROVE  Stable
    <3> DEFINE new == Parse(current)
    <3>1. records' = Retire(records, new)
      BY <2>2 DEF Advance, AdvanceProjectEpoch
    <3> HIDE DEF new
    <3>2. \A a : Context(records', a) = IF OlderInScope(a, new) THEN << >> ELSE Context(records, a)
      BY <2>0, <3>1, ContextAfterRetire
    <3>3. \A a \in touched : OlderInScope(a, new) /\ Context(records', a) = << >>
      BY <3>2
    <3> HIDE DEF touched
    <3> QED
      BY <3>3 DEF OneEntryStep, OlderInScope, SameScope
  <2>3. CASE SaveSnapshot
    BY <2>3 DEF SaveSnapshot
  <2> HIDE DEF touched
  <2> QED
    BY <2>1, <2>2, <2>3 DEF StoreNext
<1>2. [Stable]_storeVars <=>
        [ UNCHANGED records \/ RestoreSnapshot \/
          LET touching == {a \in AuthoritiesOf(RawAuthorities) :
                             Context(records', a) # Context(records, a)}
          IN  /\ \A a \in touching : OneEntryStep(Context(records, a), Context(records', a))
              /\ \A a, b \in touching :
                   a # b => SameScope(a, b) /\ Context(records', a) = << >> ]_storeVars
  OBVIOUS
<1> QED
  BY <1>1, <1>2, StoreInvAlways, PTL DEF StoreSpec, ContextsStable

-----------------------------------------------------------------------------
(* The list is the map it promises to be *)

(* Somewhere in the list stands v under exactly this authority and key. *)
Holds(recs, a, k, v) ==
  \E i \in DOMAIN recs : recs[i].authority = a /\ recs[i].key = k /\ recs[i].payload = v

(* What the map has for an authority and a key. *)
Entry(recs, a, k) ==
  LET same == MatchingKey(recs, a, k)
  IN  IF same = {} THEN MissingPayload ELSE recs[Min(same)].payload

(* The map, entry by entry. *)
LEMMA MapOfEntries ==
  ASSUME NEW recs
  PROVE  MapOf(recs, MissingPayload)
           = [a \in AuthoritiesOf(RawAuthorities) |-> [k \in Keys |-> Entry(recs, a, k)]]
BY DEF MapOf, Entry

(* Without duplicate keys an entry of the map is the one payload held there, and *)
(* missing only if there is none.                                                *)
LEMMA EntryIsHeld ==
  ASSUME NEW recs \in Seq(Record), UniqueKeys(recs), NEW a, NEW k
  PROVE  /\ \A v : Holds(recs, a, k, v) => Entry(recs, a, k) = v /\ v # MissingPayload
         /\ Entry(recs, a, k) # MissingPayload => Holds(recs, a, k, Entry(recs, a, k))
         /\ Entry(recs, a, k) # MissingPayload <=> MatchingKey(recs, a, k) # {}
<1> DEFINE same == MatchingKey(recs, a, k)
<1>1. \A i : i \in same <=> i \in DOMAIN recs /\ recs[i].authority = a /\ recs[i].key = k
  BY DEF MatchingKey, Matching, Permits
<1>2. \A i \in DOMAIN recs : recs[i].payload # MissingPayload
  <2>1. \A i \in DOMAIN recs : recs[i] \in Record
    OBVIOUS
  <2>2. \A r \in Record : r.payload \in InertPayloads
    BY DEF Record
  <2> QED
    BY <2>1, <2>2, MissingAssumption, PayloadAssumption
<1>3. same \in SUBSET Nat
  BY <1>1
<1> DEFINE e == Entry(recs, a, k)
<1>4. e = IF same = {} THEN MissingPayload ELSE recs[Min(same)].payload
  BY DEF Entry
<1> HIDE DEF same, e
<1>5. CASE same = {}
  BY <1>1, <1>4, <1>5 DEF Holds, e, same
<1>6. CASE same # {}
  <2> DEFINE p == Min(same)
  <2>1. p \in same
    BY <1>3, <1>6, MinOfNaturals
  <2> HIDE DEF p
  <2>2. p \in DOMAIN recs /\ recs[p].authority = a /\ recs[p].key = k
    BY <1>1, <2>1
  <2>3. e = recs[p].payload
    BY <1>4, <1>6 DEF p
  <2>4. \A i \in DOMAIN recs : recs[i].authority = a /\ recs[i].key = k => i = p
    BY <2>2 DEF UniqueKeys
  <2> QED
    BY <1>2, <1>6, <2>2, <2>3, <2>4 DEF Holds, e, same
<1> QED
  BY <1>5, <1>6

(* Two lists that hold the same there have the same entry there. *)
LEMMA SameEntry ==
  ASSUME NEW recs \in Seq(Record), NEW new \in Seq(Record), UniqueKeys(recs), UniqueKeys(new),
         NEW a, NEW k, \A v : Holds(new, a, k, v) <=> Holds(recs, a, k, v)
  PROVE  Entry(new, a, k) = Entry(recs, a, k)
<1>1. /\ \A v : Holds(recs, a, k, v) => Entry(recs, a, k) = v /\ v # MissingPayload
      /\ Entry(recs, a, k) # MissingPayload => Holds(recs, a, k, Entry(recs, a, k))
  BY EntryIsHeld
<1>2. /\ \A v : Holds(new, a, k, v) => Entry(new, a, k) = v /\ v # MissingPayload
      /\ Entry(new, a, k) # MissingPayload => Holds(new, a, k, Entry(new, a, k))
  BY EntryIsHeld
<1> QED
  BY <1>1, <1>2

(* A write takes place if its key is there or its authority has room. *)
Accepts(recs, a, k) ==
  \/ MatchingKey(recs, a, k) # {}
  \/ ~ (Cardinality(Matching(recs, a)) >= MaxRecordsPerAuthority)

(* A write that takes place puts its payload under its authority and key and      *)
(* moves nothing else.                                                              *)
LEMMA HeldAfterUpsert ==
  ASSUME NEW recs \in Seq(Record), UniqueKeys(recs), NEW incoming \in Record,
         NEW new, new = Upsert(recs, incoming),
         Accepts(recs, incoming.authority, incoming.key)
  PROVE  \A a, k, v :
           Holds(new, a, k, v)
             <=> IF a = incoming.authority /\ k = incoming.key
                   THEN v = incoming.payload ELSE Holds(recs, a, k, v)
<1> DEFINE same == MatchingKey(recs, incoming.authority, incoming.key)
<1>1. \A i : i \in same <=> /\ i \in DOMAIN recs
                            /\ recs[i].authority = incoming.authority
                            /\ recs[i].key = incoming.key
  BY DEF MatchingKey, Matching, Permits
<1>2. CASE same # {}
  <2> DEFINE p == Min(same)
  <2>1. same \in SUBSET Nat
    BY <1>1
  <2>2. p \in same
    BY <1>2, <2>1, MinOfNaturals
  <2>3. new = [recs EXCEPT ![p] = incoming]
    BY <1>2 DEF Upsert
  <2> HIDE DEF p, same
  <2>4. p \in DOMAIN recs /\ recs[p].authority = incoming.authority /\ recs[p].key = incoming.key
    BY <1>1, <2>2
  <2>5. DOMAIN new = DOMAIN recs /\ new[p] = incoming
        /\ \A i \in DOMAIN recs : i # p => new[i] = recs[i]
    BY <2>3, <2>4
  <2>6. \A i \in DOMAIN recs :
          recs[i].authority = incoming.authority /\ recs[i].key = incoming.key => i = p
    BY <2>4 DEF UniqueKeys
  <2> QED
    BY <1>2, <2>4, <2>5, <2>6 DEF Holds, same
<1>3. CASE same = {}
  <2>1. /\ ~ (Cardinality(Matching(recs, incoming.authority)) >= MaxRecordsPerAuthority)
        /\ new = Append(recs, incoming)
    BY <1>3 DEF Upsert, Accepts
  <2>2. /\ DOMAIN recs = 1..Len(recs) /\ DOMAIN new = DOMAIN recs \cup {Len(recs) + 1}
        /\ new[Len(recs) + 1] = incoming
        /\ \A i \in DOMAIN recs : new[i] = recs[i]
    BY <2>1
  <2>3. \A i \in DOMAIN recs :
          ~ (recs[i].authority = incoming.authority /\ recs[i].key = incoming.key)
    BY <1>1, <1>3
  <2> DEFINE n == Len(recs) + 1
  <2> DEFINE D == DOMAIN recs
  <2> HIDE DEF same, n, D
  <2>4. ASSUME NEW a, NEW k, NEW v
        PROVE  Holds(new, a, k, v)
                 <=> \/ incoming.authority = a /\ incoming.key = k /\ incoming.payload = v
                     \/ Holds(recs, a, k, v)
    <3>1. DOMAIN new = D \cup {n} /\ new[n] = incoming /\ \A i \in D : new[i] = recs[i]
      BY <2>2 DEF n, D
    <3>2. Holds(recs, a, k, v) <=> \E i \in D : recs[i].authority = a /\ recs[i].key = k
                                                   /\ recs[i].payload = v
      BY DEF Holds, D
    <3> QED
      BY <3>1, <3>2 DEF Holds
  <2>5. ASSUME NEW v
        PROVE  ~ Holds(recs, incoming.authority, incoming.key, v)
    BY <2>3 DEF Holds
  <2> QED
    BY <2>1, <2>4, <2>5
<1> QED
  BY <1>2, <1>3

(* An advance takes away what the older authorities of the scope held, and no more. *)
LEMMA HeldAfterRetire ==
  ASSUME NEW recs \in Seq(Record), NEW new
  PROVE  \A a, k, v :
           Holds(Retire(recs, new), a, k, v) <=> ~ OlderInScope(a, new) /\ Holds(recs, a, k, v)
<1> DEFINE stale == {r \in Range(recs) : StaleSameScope(r, new)}
<1> DEFINE t == Retire(recs, new)
<1>1. t = Without(recs, stale)
  BY DEF Retire
<1>2. \A r \in Range(recs) : r \in stale <=> OlderInScope(r.authority, new)
  BY DEF StaleSameScope, OlderInScope
<1> HIDE DEF stale, t
<1>3. Range(t) = {r \in Range(recs) : r \notin stale}
  BY <1>1, WithoutRecords
<1>4. \A l, a, k, v : Holds(l, a, k, v) <=> \E r \in Range(l) : r.authority = a /\ r.key = k
                                                                  /\ r.payload = v
  BY DEF Holds, Range
<1> QED
  BY <1>2, <1>3, <1>4 DEF t

(* The lists the store has: canonical records, without duplicates, within budget *)
(* and under keys that callers use.                                                *)
Good(recs) ==
  /\ recs \in Seq(Record) /\ UniqueKeys(recs) /\ WithinBudget(recs)
  /\ \A r \in Range(recs) : r.key \in Keys

(* The keys the map has under an authority are as many as its records. *)
LEMMA KeysAreCounted ==
  ASSUME NEW recs, Good(recs), NEW a,
         NEW S, S = {k \in Keys : Entry(recs, a, k) # MissingPayload}
  PROVE  /\ Cardinality(S) \in Nat
         /\ Cardinality(S) = Cardinality(Matching(recs, a))
<1>0. recs \in Seq(Record) /\ UniqueKeys(recs)
  BY DEF Good
<1> DEFINE g == [k \in S |-> Min(MatchingKey(recs, a, k))]
<1> DEFINE h == [i \in Matching(recs, a) |-> recs[i].key]
<1>1. ASSUME NEW k \in S
      PROVE  /\ g[k] \in Matching(recs, a)
             /\ recs[g[k]].key = k
  <2> DEFINE same == MatchingKey(recs, a, k)
  <2>1. same # {}
    BY <1>0, EntryIsHeld
  <2>2. same \in SUBSET Nat
    BY <1>0 DEF MatchingKey, Matching
  <2>3. Min(same) \in same
    BY <2>1, <2>2, MinOfNaturals
  <2> QED
    BY <2>3 DEF MatchingKey
<1>2. g \in Injection(S, Matching(recs, a))
  <2>1. g \in [S -> Matching(recs, a)]
    BY <1>1
  <2>2. IsInjective(g)
    <3> HIDE DEF g
    <3> QED
      BY <1>1, <2>1 DEF IsInjective
  <2> QED
    BY <2>1, <2>2 DEF Injection
<1>3. IsFiniteSet(S) /\ Cardinality(S) <= Cardinality(Matching(recs, a))
  BY <1>0, <1>2, MatchingFinite, FS_Injection
<1>4. h \in Injection(Matching(recs, a), S)
  <2>1. ASSUME NEW i \in Matching(recs, a)
        PROVE  recs[i].key \in S
    <3>1. i \in DOMAIN recs /\ recs[i].authority = a /\ recs[i].key \in Keys
      BY <1>0 DEF Good, Matching, Permits, Range
    <3>2. i \in MatchingKey(recs, a, recs[i].key)
      BY DEF MatchingKey
    <3> QED
      BY <1>0, <3>1, <3>2, EntryIsHeld
  <2>2. \A i, j \in Matching(recs, a) : recs[i].key = recs[j].key => i = j
    BY <1>0 DEF Matching, Permits, UniqueKeys
  <2> QED
    BY <2>1, <2>2 DEF Injection, IsInjective
<1>5. Cardinality(Matching(recs, a)) <= Cardinality(S)
  BY <1>3, <1>4, FS_Injection
<1> QED
  BY <1>0, <1>3, <1>5, MatchingFinite, FS_CardinalityType

(* Both modules count alike. *)
LEMMA MapCounts == \A S : Map!Cardinality(S) = Cardinality(S)
BY DEF Map!Cardinality, Cardinality, Map!IsFiniteSet, IsFiniteSet

(* The keys of the abstract map, in terms of the list. *)
LEMMA AbstractKeys ==
  ASSUME NEW recs, NEW a \in AuthoritiesOf(RawAuthorities)
  PROVE  Map!KeysOf(MapOf(recs, MissingPayload), a)
           = {k \in Keys : Entry(recs, a, k) # MissingPayload}
BY MapOfEntries DEF Map!KeysOf

(* The map has room for a key exactly if the list accepts it. *)
LEMMA RoomIsRoom ==
  ASSUME NEW recs, Good(recs), NEW a \in AuthoritiesOf(RawAuthorities), NEW k \in Keys
  PROVE  Map!HasRoom(MapOf(recs, MissingPayload), a, k) <=> Accepts(recs, a, k)
<1> DEFINE S == {j \in Keys : Entry(recs, a, j) # MissingPayload}
<1>0. recs \in Seq(Record) /\ UniqueKeys(recs)
  BY DEF Good
<1>1. Map!KeysOf(MapOf(recs, MissingPayload), a) = S
  BY AbstractKeys
<1>2. k \in S <=> MatchingKey(recs, a, k) # {}
  BY <1>0, EntryIsHeld
<1> HIDE DEF S
<1>3. Cardinality(S) \in Nat /\ Cardinality(S) = Cardinality(Matching(recs, a))
  BY KeysAreCounted DEF S
<1>4. Cardinality(S) < MaxRecordsPerAuthority
        <=> ~ (Cardinality(Matching(recs, a)) >= MaxRecordsPerAuthority)
  BY <1>3, BudgetAssumption
<1> QED
  BY <1>1, <1>2, <1>4, MapCounts DEF Map!HasRoom, Accepts

(* What a write does to the map. *)
LEMMA UpsertDoes ==
  ASSUME NEW recs, Good(recs), NEW r \in Record,
         r.authority \in AuthoritiesOf(RawAuthorities), r.key \in Keys
  PROVE  MapOf(Upsert(recs, r), MissingPayload)
           = Map!Written(MapOf(recs, MissingPayload), r.authority, r.key, r.payload)
<1> DEFINE A == AuthoritiesOf(RawAuthorities)
<1> DEFINE a == r.authority
<1> DEFINE k == r.key
<1> DEFINE new == Upsert(recs, r)
<1>0. /\ recs \in Seq(Record) /\ UniqueKeys(recs)
      /\ new \in Seq(Record) /\ UniqueKeys(new)
  BY UpsertKeeps DEF Good
<1>1. Map!HasRoom(MapOf(recs, MissingPayload), a, k) <=> Accepts(recs, a, k)
  BY RoomIsRoom
<1>2. CASE ~ Accepts(recs, a, k)
  <2>1. new = recs
    BY <1>2 DEF Upsert, Accepts
  <2> QED
    BY <1>1, <1>2, <2>1 DEF Map!Written
<1>3. CASE Accepts(recs, a, k)
  <2>1. \A b, j, v : Holds(new, b, j, v)
                       <=> IF b = a /\ j = k THEN v = r.payload ELSE Holds(recs, b, j, v)
    <3> HIDE DEF new
    <3> QED
      BY <1>0, <1>3, HeldAfterUpsert DEF new
  <2> HIDE DEF a, k, new
  <2>2. Entry(new, a, k) = r.payload
    BY <1>0, <2>1, EntryIsHeld
  <2>3. ASSUME NEW b, NEW j, ~ (b = a /\ j = k)
        PROVE  Entry(new, b, j) = Entry(recs, b, j)
    <3>1. \A v : Holds(new, b, j, v) <=> Holds(recs, b, j, v)
      BY <2>1, <2>3
    <3> QED
      BY <1>0, <3>1, SameEntry
  <2>4. MapOf(new, MissingPayload) = [MapOf(recs, MissingPayload) EXCEPT ![a][k] = r.payload]
    <3> DEFINE m == [b \in A |-> [j \in Keys |-> Entry(recs, b, j)]]
    <3> DEFINE t == [b \in A |-> [j \in Keys |-> IF b = a /\ j = k THEN r.payload
                                                     ELSE Entry(recs, b, j)]]
    <3>0. a \in A /\ k \in Keys
      BY DEF a, k
    <3>1. [m EXCEPT ![a][k] = r.payload] = t
      BY <3>0
    <3>2. [b \in A |-> [j \in Keys |-> Entry(new, b, j)]] = t
      BY <2>2, <2>3
    <3>3. MapOf(recs, MissingPayload) = m
      BY MapOfEntries
    <3>4. MapOf(new, MissingPayload) = [b \in A |-> [j \in Keys |-> Entry(new, b, j)]]
      BY MapOfEntries
    <3> HIDE DEF m, t
    <3> QED
      BY <3>1, <3>2, <3>3, <3>4
  <2> QED
    BY <1>1, <1>3, <2>4 DEF Map!Written, a, k, new
<1> QED
  BY <1>2, <1>3

(* A call of write_project does to the map what it promises. *)
LEMMA WriteDoes ==
  ASSUME NEW recs, Good(recs), NEW raw \in RawAuthorities, NEW key \in RawKeys, NEW payload
  PROVE  MapOf(WriteProject(recs, raw, key, payload), MissingPayload)
           = IF Writable(raw, key, payload)
               THEN Map!Written(MapOf(recs, MissingPayload), Parse(raw), Strip[key], payload)
               ELSE MapOf(recs, MissingPayload)
<1>1. CASE Writable(raw, key, payload)
  <2> DEFINE r == [authority |-> Parse(raw), key |-> Strip[key], payload |-> payload]
  <2>1. Parse(raw) \in AuthoritiesOf(RawAuthorities) /\ Strip[key] \in Keys
        /\ payload \in InertPayloads
    BY <1>1 DEF Writable, AuthoritiesOf, Keys
  <2>2. r \in Record
    BY <2>1, CanonicalArguments DEF Record
  <2>3. WriteProject(recs, raw, key, payload) = Upsert(recs, r)
    BY <1>1 DEF WriteProject
  <2>4. r.authority = Parse(raw) /\ r.key = Strip[key] /\ r.payload = payload
    OBVIOUS
  <2> HIDE DEF r
  <2>5. MapOf(Upsert(recs, r), MissingPayload)
          = Map!Written(MapOf(recs, MissingPayload), r.authority, r.key, r.payload)
    BY <2>1, <2>2, <2>4, UpsertDoes
  <2> QED
    BY <1>1, <2>3, <2>4, <2>5
<1>2. CASE ~ Writable(raw, key, payload)
  BY <1>2 DEF WriteProject
<1> QED
  BY <1>1, <1>2

(* A retirement empties the older epochs of the map, and no others. *)
LEMMA RetireDoes ==
  ASSUME NEW recs, Good(recs), NEW new
  PROVE  MapOf(Retire(recs, new), MissingPayload) = Map!Retired(MapOf(recs, MissingPayload), new)
<1> DEFINE A == AuthoritiesOf(RawAuthorities)
<1> DEFINE t == Retire(recs, new)
<1>1. /\ recs \in Seq(Record) /\ UniqueKeys(recs)
      /\ t \in Seq(Record) /\ UniqueKeys(t)
  BY WithoutKeeps DEF Retire, Good
<1>2. \A a, k, v : Holds(t, a, k, v) <=> ~ OlderInScope(a, new) /\ Holds(recs, a, k, v)
  BY <1>1, HeldAfterRetire
<1> HIDE DEF t
<1>3. \A a, k : Entry(t, a, k) = IF OlderInScope(a, new) THEN MissingPayload
                                   ELSE Entry(recs, a, k)
  <2>1. ASSUME NEW a, NEW k, OlderInScope(a, new)
        PROVE  Entry(t, a, k) = MissingPayload
    BY <1>1, <1>2, <2>1, EntryIsHeld
  <2>2. ASSUME NEW a, NEW k, ~ OlderInScope(a, new)
        PROVE  Entry(t, a, k) = Entry(recs, a, k)
    <3>1. \A v : Holds(t, a, k, v) <=> Holds(recs, a, k, v)
      BY <1>2, <2>2
    <3> QED
      BY <1>1, <3>1, SameEntry
  <2> QED
    BY <2>1, <2>2
<1>4. MapOf(t, MissingPayload)
        = [a \in A |-> IF OlderInScope(a, new) THEN [k \in Keys |-> MissingPayload]
                       ELSE MapOf(recs, MissingPayload)[a]]
  <2> DEFINE m == [a \in A |-> [k \in Keys |-> Entry(recs, a, k)]]
  <2>1. [a \in A |-> [k \in Keys |-> Entry(t, a, k)]]
          = [a \in A |-> IF OlderInScope(a, new) THEN [k \in Keys |-> MissingPayload] ELSE m[a]]
    BY <1>3
  <2>2. MapOf(recs, MissingPayload) = m
    BY MapOfEntries
  <2>3. MapOf(t, MissingPayload) = [a \in A |-> [k \in Keys |-> Entry(t, a, k)]]
    BY MapOfEntries
  <2> HIDE DEF m
  <2> QED
    BY <2>1, <2>2, <2>3
<1> QED
  BY <1>4 DEF Map!Retired, t

(* A call of advance_project_epoch does to the map what it promises. *)
LEMMA AdvanceDoes ==
  ASSUME NEW recs, Good(recs), NEW previous \in RawAuthorities, NEW current \in RawAuthorities
  PROVE  MapOf(AdvanceProjectEpoch(recs, previous, current), MissingPayload)
           = IF /\ WellFormed(previous) /\ WellFormed(current)
                /\ OlderInScope(Parse(previous), Parse(current))
               THEN Map!Retired(MapOf(recs, MissingPayload), Parse(current))
               ELSE MapOf(recs, MissingPayload)
<1> DEFINE valid == WellFormed(previous) /\ WellFormed(current)
<1>1. ASSUME valid
      PROVE  ValidTransition(Parse(previous), Parse(current))
               <=> OlderInScope(Parse(previous), Parse(current))
  <2>1. Parse(previous).state_epoch \in Int /\ Parse(current).state_epoch \in Int
    BY <1>1, InputAssumption DEF Parse, RawAuthority
  <2> QED
    BY <2>1 DEF ValidTransition, OlderInScope
<1>2. CASE valid /\ OlderInScope(Parse(previous), Parse(current))
  <2>1. AdvanceProjectEpoch(recs, previous, current) = Retire(recs, Parse(current))
    BY <1>1, <1>2 DEF AdvanceProjectEpoch
  <2> QED
    BY <1>2, <2>1, RetireDoes
<1>3. CASE ~ (valid /\ OlderInScope(Parse(previous), Parse(current)))
  <2>1. AdvanceProjectEpoch(recs, previous, current) = recs
    BY <1>1, <1>3 DEF AdvanceProjectEpoch
  <2> QED
    BY <1>3, <2>1
<1> QED
  BY <1>2, <1>3

(* The invariant of the map: besides what StoreInv says, live and saved records   *)
(* are under keys that callers use.                                                 *)
MapInv == StoreInv /\ Good(records) /\ Good(disk)

(* Every step keeps the keys known. *)
LEMMA MapInvNext == MapInv /\ [StoreNext]_storeVars => MapInv'
<1> SUFFICES ASSUME MapInv, [StoreNext]_storeVars PROVE MapInv'
  OBVIOUS
<1>0. StoreInv /\ StoreInv' /\ Good(records) /\ Good(disk)
  BY StoreInvNext DEF MapInv
<1>1. /\ records' \in Seq(Record) /\ UniqueKeys(records') /\ WithinBudget(records')
  BY <1>0 DEF StoreInv, StoreTypeOK, NoDuplicateKeys, BudgetHeld
<1>2. ASSUME NEW raw \in RawAuthorities, NEW key \in RawKeys, NEW payload \in Payloads,
             WriteCurrent(raw, key, payload)
      PROVE  \A r \in Range(records') : r.key \in Keys
  <2>1. CASE records' = records
    BY <1>0, <2>1 DEF Good
  <2>2. CASE records' # records
    <3> DEFINE incoming == [authority |-> Parse(raw), key |-> Strip[key], payload |-> payload]
    <3>1. incoming.key \in Keys
      BY <1>2, <2>2, WriteIsUpsert DEF WriteCurrent
    <3>2. Range(records') \subseteq Range(records) \cup {incoming}
      BY <1>0, <1>2, WriteRecords DEF WriteCurrent, Good
    <3> HIDE DEF incoming
    <3> QED
      BY <1>0, <3>1, <3>2 DEF Good
  <2> QED
    BY <2>1, <2>2
<1>3. ASSUME NEW previous \in RawAuthorities, NEW current \in RawAuthorities,
             Advance(previous, current)
      PROVE  \A r \in Range(records') : r.key \in Keys
  <2>1. CASE records' = records
    BY <1>0, <2>1 DEF Good
  <2>2. CASE records' # records
    <3> DEFINE stale == {r \in Range(records) : StaleSameScope(r, Parse(current))}
    <3>1. records' = Without(records, stale)
      BY <1>3, <2>2 DEF Advance, AdvanceProjectEpoch, Retire
    <3> HIDE DEF stale
    <3>2. Range(records') \subseteq Range(records)
      BY <1>0, <3>1, WithoutRecords DEF Good
    <3> QED
      BY <1>0, <3>2 DEF Good
  <2> QED
    BY <2>1, <2>2
<1>4. ASSUME NEW raw \in RawAuthorities, NEW key \in RawKeys, NEW payload \in Payloads,
             WriteCurrent(raw, key, payload)
      PROVE  MapInv'
  <2>1. disk' = disk
    BY <1>4 DEF WriteCurrent
  <2> QED
    BY <1>0, <1>1, <1>2, <1>4, <2>1 DEF MapInv, Good
<1>5. ASSUME NEW previous \in RawAuthorities, NEW current \in RawAuthorities,
             Advance(previous, current)
      PROVE  MapInv'
  <2>1. disk' = disk
    BY <1>5 DEF Advance
  <2> QED
    BY <1>0, <1>1, <1>3, <1>5, <2>1 DEF MapInv, Good
<1>6. CASE SaveSnapshot
  BY <1>0, <1>6 DEF SaveSnapshot, MapInv
<1>7. CASE RestoreSnapshot
  <2>1. records' = disk /\ disk' = disk
    BY <1>0, <1>7, GoodListRestores DEF RestoreSnapshot, StoreInv, StoreTypeOK, Restorable
  <2> QED
    BY <1>0, <2>1 DEF MapInv
<1>8. CASE UNCHANGED storeVars
  BY <1>0, <1>8 DEF storeVars, MapInv
<1> QED
  BY <1>4, <1>5, <1>6, <1>7, <1>8 DEF StoreNext

(* So it always holds. *)
LEMMA MapInvAlways == StoreSpec => []MapInv
<1>1. StoreInit => MapInv
  <2>1. << >> \in Seq(Record) /\ Range(<< >>) = {} /\ DOMAIN << >> = {}
    BY DEF Range
  <2> QED
    BY <2>1, StoreInvInit DEF StoreInit, MapInv, Good, UniqueKeys, WithinBudget
<1> QED
  BY <1>1, MapInvNext, PTL DEF StoreSpec

(* Whatever the store holds, every call does to the map exactly what it promises:   *)
(* a write with valid arguments lands unless its key is new and its authority        *)
(* full, a valid advance empties every older epoch of its scope, however many it      *)
(* has missed, and all other calls leave the map as it was.                            *)
THEOREM CallsAlwaysDoAsPromised == StoreSpec => []CallsDoAsPromised
<1>1. MapInv => CallsDoAsPromised
  <2> SUFFICES ASSUME MapInv PROVE CallsDoAsPromised
    OBVIOUS
  <2>1. Good(records)
    BY DEF MapInv
  <2> QED
    BY <2>1, WriteDoes, AdvanceDoes DEF CallsDoAsPromised
<1> QED
  BY <1>1, MapInvAlways, PTL

(* A write refines Put, or changes nothing. *)
LEMMA WriteRefines ==
  ASSUME MapInv, NEW raw \in RawAuthorities, NEW key \in RawKeys, NEW payload \in Payloads,
         WriteCurrent(raw, key, payload)
  PROVE  [Map!Next]_<<MapOf(records, MissingPayload), MapOf(disk, MissingPayload)>>
<1> DEFINE m == MapOf(records, MissingPayload)
<1> DEFINE a == Parse(raw)
<1> DEFINE k == Strip[key]
<1>1. disk' = disk
  BY DEF WriteCurrent
<1>2. MapOf(records', MissingPayload) = IF Writable(raw, key, payload)
                                          THEN Map!Written(m, a, k, payload) ELSE m
  BY WriteDoes DEF MapInv, WriteCurrent
<1>3. CASE Writable(raw, key, payload) /\ Map!HasRoom(m, a, k)
  <2>1. a \in AuthoritiesOf(RawAuthorities) /\ k \in Keys /\ payload \in InertPayloads
    BY <1>3 DEF Writable, AuthoritiesOf, Keys
  <2> HIDE DEF a, k
  <2>2. Map!Put(a, k, payload)
    BY <1>1, <1>2, <1>3 DEF Map!Put, m
  <2> QED
    BY <2>1, <2>2 DEF Map!Next
<1>4. CASE ~ (Writable(raw, key, payload) /\ Map!HasRoom(m, a, k))
  <2>1. MapOf(records', MissingPayload) = m
    BY <1>2, <1>4 DEF Map!Written
  <2> QED
    BY <1>1, <2>1
<1> QED
  BY <1>3, <1>4

(* An advance refines RetireBefore, or changes nothing. *)
LEMMA AdvanceRefines ==
  ASSUME MapInv, NEW previous \in RawAuthorities, NEW current \in RawAuthorities,
         Advance(previous, current)
  PROVE  [Map!Next]_<<MapOf(records, MissingPayload), MapOf(disk, MissingPayload)>>
<1> DEFINE m == MapOf(records, MissingPayload)
<1> DEFINE new == Parse(current)
<1> DEFINE valid == /\ WellFormed(previous) /\ WellFormed(current)
                    /\ OlderInScope(Parse(previous), Parse(current))
<1>1. disk' = disk
  BY DEF Advance
<1>2. MapOf(records', MissingPayload) = IF valid THEN Map!Retired(m, new) ELSE m
  BY AdvanceDoes DEF MapInv, Advance
<1>3. CASE valid
  <2>1. new \in AuthoritiesOf(RawAuthorities)
    BY <1>3 DEF AuthoritiesOf
  <2> HIDE DEF new, valid
  <2>2. Map!RetireBefore(new)
    BY <1>1, <1>2, <1>3 DEF Map!RetireBefore, m
  <2> QED
    BY <2>1, <2>2 DEF Map!Next
<1>4. CASE ~ valid
  BY <1>1, <1>2, <1>4
<1> QED
  BY <1>3, <1>4

(* Saving refines Save: the authorities of the map are among those of the list. *)
LEMMA SaveRefines ==
  ASSUME StoreInv, SaveSnapshot
  PROVE  Map!Save
<1> DEFINE A == AuthoritiesOf(RawAuthorities)
<1> DEFINE B == {a \in A : Map!KeysOf(MapOf(records, MissingPayload), a) # {}}
<1> DEFINE R == ResidentAuthorities(records)
<1>1. records \in Seq(Record) /\ UniqueKeys(records)
  BY DEF StoreInv, StoreTypeOK, NoDuplicateKeys
<1>2. B \subseteq R
  <2> SUFFICES ASSUME NEW a \in B PROVE a \in R
    OBVIOUS
  <2>1. PICK k \in Keys : Entry(records, a, k) # MissingPayload
    BY AbstractKeys
  <2>2. PICK i \in DOMAIN records : records[i].authority = a
    BY <1>1, <2>1, EntryIsHeld DEF Holds
  <2> QED
    BY <2>2 DEF ResidentAuthorities, Range
<1>3. Cardinality(R) <= MaxAuthoritiesPerSnapshot
  BY DEF SaveSnapshot, SnapshotAllowed
<1> HIDE DEF B, R
<1>4. IsFiniteSet(R)
  BY <1>1, AuthoritiesFinite DEF R
<1>5. Cardinality(B) <= Cardinality(R) /\ Cardinality(B) \in Nat /\ Cardinality(R) \in Nat
  BY <1>2, <1>4, FS_Subset, FS_CardinalityType
<1>6. Cardinality(B) <= MaxAuthoritiesPerSnapshot
  BY <1>3, <1>5, BudgetAssumption
<1>7. /\ MapOf(disk', MissingPayload) = MapOf(records, MissingPayload)
      /\ MapOf(records', MissingPayload) = MapOf(records, MissingPayload)
  BY DEF SaveSnapshot
<1> QED
  BY <1>6, <1>7, MapCounts DEF Map!Save, B

(* A restart refines Restart: what comes back is exactly what was saved. *)
LEMMA RestoreRefines ==
  ASSUME StoreInv, RestoreSnapshot
  PROVE  Map!Restart
<1>1. Replay(disk) = disk
  BY GoodListRestores DEF StoreInv, StoreTypeOK, Restorable
<1> QED
  BY <1>1 DEF RestoreSnapshot, Map!Restart

(* Initially nothing is held. *)
LEMMA InitRefines == StoreInit => Map!Init
<1> SUFFICES ASSUME StoreInit PROVE Map!Init
  OBVIOUS
<1>1. \A a, k : Entry(<< >>, a, k) = MissingPayload
  BY DEF Entry, MatchingKey, Matching
<1>2. MapOf(<< >>, MissingPayload) = Map!Empty
  BY <1>1, MapOfEntries DEF Map!Empty
<1> QED
  BY <1>2 DEF StoreInit, Map!Init

(* The list store implements the map: every step of it is a step of EpochMemory, *)
(* or leaves the map as it was.                                                  *)
THEOREM StoreImplementsMap == StoreSpec => ImplementsMap
<1> DEFINE mapVars == <<MapOf(records, MissingPayload), MapOf(disk, MissingPayload)>>
<1>1. MapInv /\ [StoreNext]_storeVars => [Map!Next]_mapVars
  <2> SUFFICES ASSUME MapInv, [StoreNext]_storeVars PROVE [Map!Next]_mapVars
    OBVIOUS
  <2>0. StoreInv
    BY DEF MapInv
  <2>1. ASSUME NEW raw \in RawAuthorities, NEW key \in RawKeys, NEW payload \in Payloads,
               WriteCurrent(raw, key, payload)
        PROVE  [Map!Next]_mapVars
    BY <2>1, WriteRefines
  <2>2. ASSUME NEW previous \in RawAuthorities, NEW current \in RawAuthorities,
               Advance(previous, current)
        PROVE  [Map!Next]_mapVars
    BY <2>2, AdvanceRefines
  <2>3. CASE SaveSnapshot
    BY <2>0, <2>3, SaveRefines DEF Map!Next
  <2>4. CASE RestoreSnapshot
    BY <2>0, <2>4, RestoreRefines DEF Map!Next
  <2>5. CASE UNCHANGED storeVars
    BY <2>5 DEF storeVars
  <2> HIDE DEF mapVars
  <2> QED
    BY <2>1, <2>2, <2>3, <2>4, <2>5 DEF StoreNext
<1> QED
  BY <1>1, InitRefines, MapInvAlways, PTL DEF StoreSpec, ImplementsMap, Map!Spec
=============================================================================
