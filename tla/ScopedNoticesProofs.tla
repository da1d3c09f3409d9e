------------------------- MODULE ScopedNoticesProofs -------------------------
(***************************************************************************)
(* The scoped notice store hides no notice longer than its reminder and does  *)
(* what NoticeBook promises, for any labels, limits, reports and restarts.     *)
(***************************************************************************)
EXTENDS ScopedNotices, FiniteSetTheorems, TLAPS

(* A notice as the store may hold it at a time: a snooze began between the     *)
(* notice's first report and then, one reminder before it ends.                *)
NoticeOK(state, time) ==
  /\ state \in State /\ state.first_seen <= time
  /\ state.snoozed_until # None => state.snoozed_until - Reminder \in state.first_seen..time

(* A map of notices, live or as a snapshot has them. *)
Holds(held, time) ==
  /\ DOMAIN held \subseteq Pages
  /\ DOMAIN held \subseteq Key
  /\ held = [key \in DOMAIN held |-> held[key]]
  /\ \A key \in DOMAIN held : NoticeOK(held[key], time)

(* The inductive invariant: the same of the items and of what is on disk. *)
StoreInv ==
  /\ clock \in 0..MaxClock
  /\ Holds(items, clock)
  /\ Holds(Restored(disk), clock)
  /\ disk = Rows(Restored(disk))

-----------------------------------------------------------------------------
(* Keys and rows *)

(* A label that _label made is its own. *)
LEMMA LabelsAreStripped ==
  ASSUME NEW label \in Labels
  PROVE  label \in DOMAIN Stripped /\ Stripped[label] = label
BY LabelAssumption DEF Labels, Range

(* A key the store may hold is the key of its parts. *)
LEMMA KeysAreCanonical ==
  ASSUME NEW key \in Key
  PROVE  KeyOf(<<key.scope_id, key.connector_id>>, key.code) = key
<1>1. /\ Stripped[key.scope_id] = key.scope_id
      /\ Stripped[key.connector_id] = key.connector_id
      /\ Stripped[key.code] = key.code
  BY LabelsAreStripped DEF Key
<1> QED
  BY <1>1 DEF KeyOf, Key

(* What a report or a dismissal with accepted labels is about. *)
LEMMA AcceptedKeys ==
  ASSUME NEW owner \in RawOwners, NEW code \in RawCodes, Accepted(Range(owner) \cup {code})
  PROVE  /\ KeyOf(owner, code) \in Pages
         /\ KeyOf(owner, code) \in Key
         /\ OfOwner(owner, KeyOf(owner, code))
<1>1. code \in DOMAIN Stripped /\ owner[1] \in DOMAIN Stripped /\ owner[2] \in DOMAIN Stripped
  BY LabelAssumption DEF Accepted, Range
<1>2. Stripped[owner[1]] \in Labels /\ Stripped[owner[2]] \in Labels /\ Stripped[code] \in Labels
  BY <1>1 DEF Labels, Range
<1> QED
  BY <1>1, <1>2 DEF Pages, KeyOf, Key, OfOwner

(* The row of one notice. *)
RowOf(held, key) ==
  [scope_id |-> key.scope_id, connector_id |-> key.connector_id, code |-> key.code,
   first_seen |-> held[key].first_seen, snoozed_until |-> held[key].snoozed_until]

(* A row has the key it was written for. *)
LEMMA RowKeyOfRow ==
  ASSUME NEW held, NEW key \in Key
  PROVE  RowKey(RowOf(held, key)) = key
BY KeysAreCanonical DEF RowKey, RowOf

(* Restoring the rows of a map of notices gives that very map. *)
LEMMA RestoredIsHeld ==
  ASSUME NEW time, NEW held, Holds(held, time)
  PROVE  Restored(Rows(held)) = held
<1>1. Rows(held) = {RowOf(held, key) : key \in DOMAIN held}
  BY DEF Rows, RowOf
<1>2. \A key \in DOMAIN held : key \in Key /\ RowKey(RowOf(held, key)) = key
  BY RowKeyOfRow DEF Holds
<1>3. {RowKey(row) : row \in Rows(held)} = DOMAIN held
  BY <1>1, <1>2
<1>4. ASSUME NEW key \in DOMAIN held
      PROVE  (CHOOSE row \in Rows(held) : RowKey(row) = key) = RowOf(held, key)
  <2>1. RowOf(held, key) \in Rows(held) /\ RowKey(RowOf(held, key)) = key
    BY <1>1, <1>2, <1>4
  <2>2. \A row \in Rows(held) : RowKey(row) = key => row = RowOf(held, key)
    BY <1>1, <1>2
  <2> QED
    BY <2>1, <2>2
<1>5. ASSUME NEW key \in DOMAIN held
      PROVE  [first_seen |-> RowOf(held, key).first_seen,
              snoozed_until |-> RowOf(held, key).snoozed_until] = held[key]
  BY <1>5 DEF Holds, NoticeOK, State, RowOf
<1>6. Restored(Rows(held)) = [key \in DOMAIN held |-> held[key]]
  BY <1>3, <1>4, <1>5 DEF Restored
<1> QED
  BY <1>6 DEF Holds

-----------------------------------------------------------------------------
(* Steps *)

(* Nothing is held at first. *)
LEMMA NothingHeld ==
  ASSUME NEW time
  PROVE  Holds(Restored({}), time) /\ Rows(Restored({})) = {}
BY DEF Restored, Holds, Rows

(* The invariant holds at first. *)
LEMMA StoreInvInit == Init => StoreInv
BY NothingHeld, ReminderAssumption DEF Init, StoreInv

(* Time does not disturb a notice. *)
LEMMA HoldsLater ==
  ASSUME NEW time \in Nat, NEW held, Holds(held, time)
  PROVE  Holds(held, time + 1)
BY ReminderAssumption DEF Holds, NoticeOK, State

(* The keys that a report asks for. *)
Asked(owner, codes) == {KeyOf(owner, code) : code \in Range(codes)}

(* They are pages of its connector in its scope. *)
LEMMA AskedAreTheirs ==
  ASSUME NEW owner \in RawOwners, NEW codes \in CodeTuples, WellReported(owner, codes)
  PROVE  Asked(owner, codes) \subseteq PagesOf(owner) /\ Asked(owner, codes) \subseteq Key
<1>1. \A code \in Range(codes) : code \in RawCodes /\ Accepted(Range(owner) \cup {code})
  BY DEF WellReported, Accepted, RawCodes
<1> QED
  BY <1>1, AcceptedKeys DEF Asked, PagesOf

(* A report leaves only notices that may be held. *)
LEMMA CandidateHolds ==
  ASSUME StoreInv, NEW owner \in RawOwners, NEW codes \in CodeTuples, WellReported(owner, codes)
  PROVE  Holds(Candidate(owner, codes), clock)
<1> DEFINE others == {key \in DOMAIN items : ~ OfOwner(owner, key)}
<1> DEFINE candidate == Candidate(owner, codes)
<1>1. candidate = [key \in others \cup Asked(owner, codes) |->
                     IF key \in DOMAIN items THEN items[key]
                     ELSE [first_seen |-> clock, snoozed_until |-> None]]
  BY DEF Candidate, Asked
<1>2. Asked(owner, codes) \subseteq Pages /\ Asked(owner, codes) \subseteq Key
  BY AskedAreTheirs DEF PagesOf
<1>3. others \subseteq Pages /\ others \subseteq Key
  BY DEF StoreInv, Holds
<1>4. NoticeOK([first_seen |-> clock, snoozed_until |-> None], clock)
  BY ReminderAssumption DEF StoreInv, NoticeOK, State
<1>5. \A key \in DOMAIN items : NoticeOK(items[key], clock)
  BY DEF StoreInv, Holds
<1> HIDE DEF others, candidate
<1>6. DOMAIN candidate = others \cup Asked(owner, codes)
  BY <1>1
<1>7. \A key \in DOMAIN candidate : NoticeOK(candidate[key], clock)
  BY <1>1, <1>4, <1>5
<1>8. candidate = [key \in DOMAIN candidate |-> candidate[key]]
  BY <1>1
<1>9. Holds(candidate, clock)
  BY <1>2, <1>3, <1>6, <1>7, <1>8 DEF Holds
<1> QED
  BY <1>9 DEF candidate

(* A snooze begins now. *)
LEMMA DismissHolds ==
  ASSUME StoreInv, NEW owner, NEW code, DismissTemporarily(owner, code)
  PROVE  Holds(items', clock)
<1> DEFINE key == KeyOf(owner, code)
<1> DEFINE until == clock + Reminder
<1>1. /\ key \in DOMAIN items
      /\ items' = [items EXCEPT ![key].snoozed_until = until]
  BY DEF DismissTemporarily, ReminderDue
<1>2. /\ items = [k \in DOMAIN items |-> items[k]]
      /\ \A k \in DOMAIN items : NoticeOK(items[k], clock)
      /\ clock \in Nat
  BY ReminderAssumption DEF StoreInv, Holds
<1>3. /\ DOMAIN items' = DOMAIN items
      /\ items' = [k \in DOMAIN items |-> items'[k]]
      /\ items'[key] = [items[key] EXCEPT !.snoozed_until = until]
      /\ \A k \in DOMAIN items \ {key} : items'[k] = items[k]
  BY <1>1, <1>2
<1>4. NoticeOK([items[key] EXCEPT !.snoozed_until = until], clock)
  <2>1. items[key].first_seen \in 0..clock
    BY <1>1, <1>2 DEF NoticeOK, State
  <2> QED
    BY <1>1, <1>2, <2>1, ReminderAssumption DEF NoticeOK, State
<1> QED
  BY <1>1, <1>2, <1>3, <1>4 DEF StoreInv, Holds

(* Every step keeps the invariant. *)
LEMMA StoreInvNext == StoreInv /\ [Next]_vars => StoreInv'
<1> SUFFICES ASSUME StoreInv, [Next]_vars PROVE StoreInv'
  OBVIOUS
<1>1. ASSUME NEW owner \in RawOwners, NEW codes \in CodeTuples, Reconcile(owner, codes)
      PROVE  StoreInv'
  <2>1. items' = Candidate(owner, codes) /\ UNCHANGED <<disk, clock>>
    BY <1>1 DEF Reconcile
  <2>2. Holds(items', clock)
    BY <1>1, <2>1, CandidateHolds DEF Reconcile
  <2> QED
    BY <2>1, <2>2 DEF StoreInv
<1>2. ASSUME NEW owner \in RawOwners, NEW code \in RawCodes, DismissTemporarily(owner, code)
      PROVE  StoreInv'
  BY <1>2, DismissHolds DEF DismissTemporarily, StoreInv
<1>3. CASE Persist
  <2>1. disk' = Rows(items) /\ items' = items /\ clock' = clock
    BY <1>3 DEF Persist
  <2>2. Restored(disk') = items
    BY <2>1, RestoredIsHeld DEF StoreInv
  <2> QED
    BY <2>1, <2>2 DEF StoreInv
<1>4. CASE Relaunch
  BY <1>4 DEF Relaunch, StoreInv
<1>5. CASE Tick
  <2>1. clock \in Nat /\ clock' = clock + 1 /\ clock < MaxClock
    BY <1>5, ReminderAssumption DEF Tick, StoreInv
  <2>2. clock' \in 0..MaxClock
    BY <2>1, ReminderAssumption
  <2>3. Holds(items, clock') /\ Holds(Restored(disk), clock')
    BY <2>1, HoldsLater DEF StoreInv
  <2> QED
    BY <1>5, <2>2, <2>3 DEF Tick, StoreInv
<1>6. CASE UNCHANGED vars
  BY <1>6 DEF vars, StoreInv
<1> QED
  BY <1>1, <1>2, <1>3, <1>4, <1>5, <1>6 DEF Next

(* The invariant always holds. *)
THEOREM StoreInvAlways == Spec => []StoreInv
BY StoreInvInit, StoreInvNext, PTL DEF Spec

(* The items and the rows on disk are well-formed, whatever labels, codes and   *)
(* restarts there were.                                                          *)
THEOREM NoticesTypeCorrect == Spec => []TypeOK
<1>1. ASSUME StoreInv
      PROVE  TypeOK
  <2>1. DOMAIN items \subseteq Key /\ items \in [DOMAIN items -> State]
    BY <1>1 DEF StoreInv, Holds, NoticeOK
  <2> DEFINE saved == Restored(disk)
  <2>2. DOMAIN saved \subseteq Key /\ \A key \in DOMAIN saved : saved[key] \in State
    BY <1>1 DEF StoreInv, Holds, NoticeOK
  <2>3. disk = Rows(saved)
    BY <1>1 DEF StoreInv
  <2> HIDE DEF saved
  <2>4. disk \subseteq Row
    BY <2>2, <2>3 DEF Rows, Row, Key, State
  <2> QED
    BY <1>1, <2>1, <2>4 DEF StoreInv, TypeOK
<1> QED
  BY <1>1, StoreInvAlways, PTL

(* No notice is hidden but by a dismissal less than a reminder ago.              *)
THEOREM SnoozesEnd == Spec => []HiddenWasDismissed
<1>1. ASSUME StoreInv
      PROVE  HiddenWasDismissed
  BY <1>1 DEF StoreInv, Holds, NoticeOK, HiddenWasDismissed, Visible
<1> QED
  BY <1>1, StoreInvAlways, PTL

-----------------------------------------------------------------------------
(* Limits *)

(* The notices held for the connector and the scope of a key. *)
Siblings(held, key) ==
  {k \in DOMAIN held : k.scope_id = key.scope_id /\ k.connector_id = key.connector_id}

(* Within both limits. *)
Bounded(held) ==
  /\ IsFiniteSet(DOMAIN held)
  /\ Cardinality(DOMAIN held) <= MaxPersisted
  /\ \A key \in DOMAIN held : Cardinality(Siblings(held, key)) <= MaxActiveCodes

BoundInv == Bounded(items) /\ Bounded(Restored(disk))

(* Nothing is within the limits. *)
LEMMA NothingIsBounded == Bounded(Restored({}))
BY FS_EmptySet, ReminderAssumption DEF Bounded, Restored

(* A report has no more notices than it has codes. *)
LEMMA ReportedAreFew ==
  ASSUME NEW owner, NEW codes \in CodeTuples
  PROVE  LET desired == {KeyOf(owner, code) : code \in Range(codes)}
         IN  IsFiniteSet(desired) /\ Cardinality(desired) <= Len(codes)
<1> DEFINE desired == {KeyOf(owner, code) : code \in Range(codes)}
<1> DEFINE f == [i \in 1..Len(codes) |-> KeyOf(owner, codes[i])]
<1>1. Len(codes) \in Nat /\ DOMAIN codes = 1..Len(codes)
  BY LabelAssumption
<1>2. f \in Surjection(1..Len(codes), desired)
  <2>1. \A i \in 1..Len(codes) : codes[i] \in Range(codes)
    BY <1>1 DEF Range
  <2>2. \A code \in Range(codes) : \E i \in 1..Len(codes) : codes[i] = code
    BY <1>1 DEF Range
  <2>3. f \in [1..Len(codes) -> desired]
    BY <2>1
  <2>4. \A k \in desired : \E i \in 1..Len(codes) : f[i] = k
    BY <2>2
  <2> HIDE DEF f, desired
  <2> QED
    BY <2>3, <2>4 DEF Surjection
<1> HIDE DEF f, desired
<1>3. ExistsSurjection(1..Len(codes), desired)
  BY <1>2 DEF ExistsSurjection
<1>4. IsFiniteSet(desired) /\ Cardinality(desired) <= Len(codes)
  BY <1>1, <1>3, FS_NatSurjection, FS_SurjCardinalityBound
<1> QED
  BY <1>4 DEF desired

(* A report that is taken leaves the store within both limits. *)
LEMMA ReconcileBounded ==
  ASSUME StoreInv, Bounded(items),
         NEW owner \in RawOwners, NEW codes \in CodeTuples, Reconcile(owner, codes)
  PROVE  Bounded(items')
<1> DEFINE others == {key \in DOMAIN items : ~ OfOwner(owner, key)}
<1> DEFINE desired == {KeyOf(owner, code) : code \in Range(codes)}
<1>1. /\ DOMAIN items' = others \cup desired
      /\ Cardinality(DOMAIN items') <= MaxPersisted
      /\ Len(codes) <= MaxActiveCodes
  BY DEF Reconcile, WellReported, Candidate, Fits
<1>2. IsFiniteSet(desired) /\ Cardinality(desired) <= Len(codes)
  BY ReportedAreFew
<1>3. IsFiniteSet(DOMAIN items) /\ others \in SUBSET DOMAIN items
  BY DEF Bounded
<1>4. \A key \in desired : OfOwner(owner, key)
  BY DEF OfOwner, KeyOf
<1>5. \A key \in others : ~ OfOwner(owner, key)
  OBVIOUS
<1>6. Cardinality(desired) \in Nat /\ Len(codes) \in Nat
  BY <1>2, FS_CardinalityType, LabelAssumption
<1> HIDE DEF others, desired
<1>7. IsFiniteSet(others \cup desired)
  BY <1>2, <1>3, FS_Subset, FS_Union
<1>8. ASSUME NEW key \in others \cup desired
      PROVE  Cardinality(Siblings(items', key)) <= MaxActiveCodes
  <2>1. CASE OfOwner(owner, key)
    <3>1. Siblings(items', key) \in SUBSET desired
      BY <1>1, <1>5, <2>1 DEF Siblings, OfOwner
    <3>2. Cardinality(Siblings(items', key)) \in Nat
          /\ Cardinality(Siblings(items', key)) <= Cardinality(desired)
      BY <1>2, <3>1, FS_Subset, FS_CardinalityType
    <3> QED
      BY <1>1, <1>2, <1>6, <3>2, ReminderAssumption
  <2>2. CASE ~ OfOwner(owner, key)
    <3>1. key \in DOMAIN items
      BY <1>3, <1>4, <1>8, <2>2
    <3>2. Siblings(items', key) \in SUBSET Siblings(items, key)
      BY <1>1, <1>3, <1>4, <2>2 DEF Siblings, OfOwner
    <3>3. IsFiniteSet(Siblings(items, key))
          /\ Cardinality(Siblings(items, key)) <= MaxActiveCodes
      <4>1. Siblings(items, key) \in SUBSET DOMAIN items
        BY DEF Siblings
      <4> QED
        BY <1>3, <3>1, <4>1, FS_Subset DEF Bounded
    <3>4. /\ Cardinality(Siblings(items', key)) \in Nat
          /\ Cardinality(Siblings(items, key)) \in Nat
          /\ Cardinality(Siblings(items', key)) <= Cardinality(Siblings(items, key))
      BY <3>2, <3>3, FS_Subset, FS_CardinalityType
    <3> QED
      BY <3>3, <3>4, ReminderAssumption
  <2> QED
    BY <2>1, <2>2
<1> QED
  BY <1>1, <1>7, <1>8 DEF Bounded

(* Every step stays within both limits. *)
LEMMA BoundInvNext == StoreInv /\ BoundInv /\ [Next]_vars => BoundInv'
<1> SUFFICES ASSUME StoreInv, BoundInv, [Next]_vars PROVE BoundInv'
  OBVIOUS
<1>1. ASSUME NEW owner \in RawOwners, NEW codes \in CodeTuples, Reconcile(owner, codes)
      PROVE  BoundInv'
  BY <1>1, ReconcileBounded DEF Reconcile, BoundInv
<1>2. ASSUME NEW owner \in RawOwners, NEW code \in RawCodes, DismissTemporarily(owner, code)
      PROVE  BoundInv'
  <2>1. DOMAIN items' = DOMAIN items /\ disk' = disk
    BY <1>2 DEF DismissTemporarily
  <2>2. \A key : Siblings(items', key) = Siblings(items, key)
    BY <2>1 DEF Siblings
  <2> QED
    BY <2>1, <2>2 DEF BoundInv, Bounded
<1>3. CASE Persist
  <2>1. disk' = Rows(items) /\ items' = items
    BY <1>3 DEF Persist
  <2>2. Restored(disk') = items
    BY <2>1, RestoredIsHeld DEF StoreInv
  <2> QED
    BY <2>1, <2>2 DEF BoundInv
<1>4. CASE Relaunch
  BY <1>4 DEF Relaunch, BoundInv
<1>5. CASE Tick
  BY <1>5 DEF Tick, BoundInv
<1>6. CASE UNCHANGED vars
  BY <1>6 DEF vars, BoundInv
<1> QED
  BY <1>1, <1>2, <1>3, <1>4, <1>5, <1>6 DEF Next

(* The rows of a map within the limits are accepted by restore. *)
LEMMA BoundedRowsRestore ==
  ASSUME NEW time, NEW held, Holds(held, time), Bounded(held)
  PROVE  RestoreAccepts(Rows(held))
<1>1. Rows(held) = {RowOf(held, key) : key \in DOMAIN held}
  BY DEF Rows, RowOf
<1>2. \A key \in DOMAIN held : key \in Key /\ RowKey(RowOf(held, key)) = key
  BY RowKeyOfRow DEF Holds
<1>3. ASSUME NEW D \in SUBSET DOMAIN held, NEW bound \in Nat, Cardinality(D) <= bound
      PROVE  Cardinality({RowOf(held, key) : key \in D}) <= bound
  <2> DEFINE R == {RowOf(held, key) : key \in D}
  <2> DEFINE f == [key \in D |-> RowOf(held, key)]
  <2>1. IsFiniteSet(D) /\ Cardinality(D) \in Nat
    BY FS_Subset, FS_CardinalityType DEF Bounded
  <2>2. f \in [D -> R] /\ \A r \in R : \E key \in D : f[key] = r
    OBVIOUS
  <2> HIDE DEF f, R
  <2>3. f \in Surjection(D, R)
    BY <2>2 DEF Surjection
  <2>4. IsFiniteSet(R) /\ Cardinality(R) <= Cardinality(D)
    BY <2>1, <2>3, FS_Surjection
  <2>5. Cardinality(R) <= bound
    BY <1>3, <2>1, <2>4, FS_CardinalityType
  <2> QED
    BY <2>5 DEF R
<1>4. Cardinality(Rows(held)) <= MaxPersisted
  BY <1>1, <1>3, ReminderAssumption DEF Bounded
<1>5. \A row, other \in Rows(held) : RowKey(row) = RowKey(other) => row = other
  BY <1>1, <1>2
<1>6. ASSUME NEW key \in DOMAIN held
      PROVE  LET row == RowOf(held, key)
             IN  /\ Accepted({row.scope_id, row.connector_id, row.code})
                 /\ Cardinality(RowsOf(Rows(held), <<row.scope_id, row.connector_id>>))
                      <= MaxActiveCodes
  <2> DEFINE row == RowOf(held, key)
  <2>1. /\ row.scope_id = key.scope_id /\ row.connector_id = key.connector_id
        /\ row.code = key.code
    BY DEF RowOf
  <2>2. /\ key.scope_id \in Labels /\ key.connector_id \in Labels /\ key.code \in Labels
    BY <1>2 DEF Key
  <2>3. Accepted({row.scope_id, row.connector_id, row.code})
    BY <2>1, <2>2, LabelsAreStripped DEF Accepted
  <2> DEFINE owner == <<key.scope_id, key.connector_id>>
  <2>4. \A k : OfOwner(owner, k) <=> k.scope_id = key.scope_id /\ k.connector_id = key.connector_id
    BY <2>2, LabelsAreStripped DEF OfOwner
  <2> HIDE DEF owner, row
  <2>5. RowsOf(Rows(held), owner) = {RowOf(held, k) : k \in Siblings(held, key)}
    BY <1>1, <1>2, <2>4 DEF RowsOf, Siblings
  <2>6. Siblings(held, key) \in SUBSET DOMAIN held
    BY DEF Siblings
  <2>7. Cardinality({RowOf(held, k) : k \in Siblings(held, key)}) <= MaxActiveCodes
    BY <1>3, <2>6, ReminderAssumption DEF Bounded
  <2> QED
    BY <2>1, <2>3, <2>5, <2>7 DEF row, owner
<1> QED
  BY <1>1, <1>4, <1>5, <1>6 DEF RestoreAccepts

(* Both limits always hold, of the items and of what is on disk. *)
THEOREM LimitsHold == Spec => []BoundInv
<1>1. Init => BoundInv
  BY NothingIsBounded DEF Init, BoundInv
<1> QED
  BY <1>1, BoundInvNext, StoreInvAlways, PTL DEF Spec

(* What is persisted can always be restored, up to both limits.                  *)
THEOREM SnapshotsAlwaysRestore == Spec => []SnapshotRestores
<1>1. ASSUME StoreInv, BoundInv
      PROVE  SnapshotRestores
  <2>1. RestoreAccepts(Rows(Restored(disk)))
    BY <1>1, BoundedRowsRestore DEF StoreInv, BoundInv
  <2> QED
    BY <1>1, <2>1 DEF StoreInv, BoundInv, Bounded, SnapshotRestores
<1> QED
  BY <1>1, StoreInvAlways, LimitsHold, PTL

----------------------------------------------------------
(* The store implements the book *)

(* A notice held is no empty page. *)
LEMMA NoticesAreNoted ==
  ASSUME NEW time, NEW held, Holds(held, time), NEW key \in DOMAIN held
  PROVE  BookOf(held)[key] = held[key] /\ held[key] # NoNotice
BY ReminderAssumption DEF Holds, NoticeOK, State, BookOf, NoNotice

(* The pages that are not blank are those of the notices held. *)
LEMMA PagesNoted ==
  ASSUME NEW time, NEW held, Holds(held, time)
  PROVE  {page \in Pages : BookOf(held)[page] # NoNotice} = DOMAIN held
<1>1. DOMAIN held \subseteq Pages /\ \A key \in DOMAIN held : BookOf(held)[key] # NoNotice
  BY NoticesAreNoted DEF Holds
<1>2. \A page \in Pages \ DOMAIN held : BookOf(held)[page] = NoNotice
  BY DEF BookOf
<1> QED
  BY <1>1, <1>2

(* The candidate of a report is, page by page, what the book promises of it. *)
LEMMA CandidateIsReported ==
  ASSUME StoreInv, NEW owner \in RawOwners, NEW codes \in CodeTuples, WellReported(owner, codes)
  PROVE  BookOf(Candidate(owner, codes)) = Book!Reported(PagesOf(owner), Asked(owner, codes))
<1> DEFINE others == {key \in DOMAIN items : ~ OfOwner(owner, key)}
<1> DEFINE candidate == Candidate(owner, codes)
<1> DEFINE asked == Asked(owner, codes)
<1>1. candidate = [key \in others \cup asked |->
                     IF key \in DOMAIN items THEN items[key]
                     ELSE [first_seen |-> clock, snoozed_until |-> None]]
  BY DEF Candidate, Asked
<1>2. asked \subseteq PagesOf(owner)
  BY AskedAreTheirs
<1>3. \A key \in DOMAIN items : BookOf(items)[key] # NoNotice
  BY NoticesAreNoted DEF StoreInv
<1>4. \A page : page \in others <=> page \in DOMAIN items /\ ~ OfOwner(owner, page)
  OBVIOUS
<1>5. \A page \in Pages : page \in PagesOf(owner) <=> OfOwner(owner, page)
  BY DEF PagesOf
<1> HIDE DEF others, candidate, asked
<1>6. ASSUME NEW page \in Pages
      PROVE  BookOf(candidate)[page] =
               IF page \in asked THEN Book!Noted(page)
               ELSE IF page \in PagesOf(owner) THEN NoNotice
               ELSE BookOf(items)[page]
  <2>1. BookOf(candidate)[page] = IF page \in others \cup asked THEN candidate[page] ELSE NoNotice
    BY <1>1 DEF BookOf
  <2>2. BookOf(items)[page] = IF page \in DOMAIN items THEN items[page] ELSE NoNotice
    BY DEF BookOf
  <2>3. CASE page \in asked
    <3>1. Book!Noted(page) =
            IF page \in DOMAIN items THEN items[page]
            ELSE [first_seen |-> clock, snoozed_until |-> None]
      BY <1>3, <2>2 DEF Book!Noted
    <3> QED
      BY <1>1, <2>1, <2>3, <3>1
  <2>4. CASE page \notin asked
    BY <1>1, <1>2, <1>4, <1>5, <2>1, <2>2, <2>4
  <2> QED
    BY <2>3, <2>4
<1>7. BookOf(candidate) = Book!Reported(PagesOf(owner), asked)
  BY <1>6 DEF BookOf, Book!Reported
<1> QED
  BY <1>7 DEF candidate, asked

(* A report of a connector is a report in the book, or none if it could have     *)
(* no notice at all.                                                              *)
LEMMA ReconcileReports ==
  ASSUME StoreInv, NEW owner \in RawOwners, NEW codes \in CodeTuples, Reconcile(owner, codes)
  PROVE  [Book!Next]_<<BookOf(items), BookOf(Restored(disk)), clock>>
<1>1. /\ WellReported(owner, codes) /\ items' = Candidate(owner, codes)
      /\ UNCHANGED <<disk, clock>>
  BY DEF Reconcile
<1>2. Asked(owner, codes) \subseteq PagesOf(owner)
  BY <1>1, AskedAreTheirs
<1>3. BookOf(items') = Book!Reported(PagesOf(owner), Asked(owner, codes))
  BY <1>1, CandidateIsReported
<1>4. BookOf(Restored(disk))' = BookOf(Restored(disk)) /\ clock' = clock
  BY <1>1
<1>5. CASE PagesOf(owner) = {}
  <2>1. Book!Reported(PagesOf(owner), Asked(owner, codes)) = [page \in Pages |-> BookOf(items)[page]]
    BY <1>2, <1>5 DEF Book!Reported
  <2>2. BookOf(items') = BookOf(items)
    BY <1>3, <2>1 DEF BookOf
  <2> QED
    BY <1>4, <2>2
<1>6. CASE PagesOf(owner) # {}
  <2>1. PagesOf(owner) \in
          {{p \in Pages : p.scope_id = q.scope_id /\ p.connector_id = q.connector_id} : q \in Pages}
    <3>1. PICK q \in Pages : OfOwner(owner, q)
      BY <1>6 DEF PagesOf
    <3>2. PagesOf(owner) = {p \in Pages : p.scope_id = q.scope_id /\ p.connector_id = q.connector_id}
      BY <3>1 DEF OfOwner, PagesOf
    <3> QED
      BY <3>1, <3>2
  <2>2. Book!Report(PagesOf(owner))
    BY <1>2, <1>3, <1>4 DEF Book!Report
  <2> QED
    BY <2>1, <2>2 DEF Book!Next
<1> QED
  BY <1>5, <1>6

(* A dismissal snoozes one page. *)
LEMMA DismissalSnoozes ==
  ASSUME StoreInv, NEW owner, NEW code, DismissTemporarily(owner, code)
  PROVE  Book!Next
<1> DEFINE key == KeyOf(owner, code)
<1>1. /\ key \in DOMAIN items
      /\ items' = [items EXCEPT ![key].snoozed_until = clock + Reminder]
      /\ UNCHANGED <<disk, clock>>
  BY DEF DismissTemporarily, ReminderDue
<1> HIDE DEF key
<1>2. key \in Pages /\ BookOf(items)[key] = items[key] /\ items[key] # NoNotice
  <2>1. Holds(items, clock)
    BY DEF StoreInv
  <2> QED
    BY <1>1, <2>1, NoticesAreNoted DEF Holds
<1>3. BookOf(items') = [BookOf(items) EXCEPT ![key].snoozed_until = clock + Reminder]
  BY <1>1, <1>2 DEF BookOf
<1>4. Book!Snooze(key)
  BY <1>1, <1>2, <1>3 DEF Book!Snooze
<1> QED
  BY <1>2, <1>4 DEF Book!Next

(* Every step of the store is a step of the book or none. *)
LEMMA StepsAreBookSteps ==
  StoreInv /\ [Next]_vars => [Book!Next]_<<BookOf(items), BookOf(Restored(disk)), clock>>
<1> SUFFICES ASSUME StoreInv, [Next]_vars
             PROVE  [Book!Next]_<<BookOf(items), BookOf(Restored(disk)), clock>>
  OBVIOUS
<1>1. CASE Persist
  <2>1. Restored(disk') = items /\ items' = items /\ clock' = clock
    BY <1>1, RestoredIsHeld DEF Persist, StoreInv
  <2>2. Book!Save
    BY <2>1 DEF Book!Save
  <2> QED
    BY <2>2 DEF Book!Next
<1>2. CASE Relaunch
  BY <1>2 DEF Relaunch, Book!Reload, Book!Next
<1>3. CASE Tick
  BY <1>3 DEF Tick, Book!Tick, Book!Next
<1>4. CASE UNCHANGED vars
  BY <1>4 DEF vars
<1> QED
  BY <1>1, <1>2, <1>3, <1>4, ReconcileReports, DismissalSnoozes DEF Next

(* A well-formed report of any connector and any codes is taken whole if what it *)
(* leaves fits, and refused whole if not.                                         *)
THEOREM ReportsAlwaysTakenWhole == Spec => []ReportsTakenWhole
<1>1. ASSUME StoreInv
      PROVE  ReportsTakenWhole
  <2>1. ASSUME NEW owner \in RawOwners, NEW codes \in CodeTuples, WellReported(owner, codes)
        PROVE  LET after == Book!Reported(PagesOf(owner), Asked(owner, codes))
                   fits == Cardinality({page \in Pages : after[page] # NoNotice}) <= MaxPersisted
               IN  /\ Fits(Candidate(owner, codes)) <=> fits
                   /\ fits => BookOf(Candidate(owner, codes)) = after
    <3>1. BookOf(Candidate(owner, codes)) = Book!Reported(PagesOf(owner), Asked(owner, codes))
      BY <1>1, <2>1, CandidateIsReported
    <3>2. {page \in Pages : BookOf(Candidate(owner, codes))[page] # NoNotice}
            = DOMAIN Candidate(owner, codes)
      BY <1>1, <2>1, CandidateHolds, PagesNoted
    <3> QED
      BY <3>1, <3>2 DEF Fits
  <2> QED
    BY <2>1 DEF ReportsTakenWhole, Asked
<1> QED
  BY <1>1, StoreInvAlways, PTL

(* The store keeps the book's promises through refusals and restarts: a report   *)
(* concerns its own connector in its own scope, ages and snoozes go on.           *)
THEOREM StoreImplementsBook == Spec => ImplementsBook
<1>1. Init => Book!Init
  BY DEF Init, Book!Init, BookOf, Restored
<1> QED
  BY <1>1, StepsAreBookSteps, StoreInvAlways, PTL DEF Spec, ImplementsBook, Book!Spec
=============================================================================
