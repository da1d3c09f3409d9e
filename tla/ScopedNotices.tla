---------------------------- MODULE ScopedNotices ----------------------------
(***************************************************************************)
(* The scoped notice store (src/parking/connector_notice_store.py): a notice   *)
(* per scope, connector and code, reconciled with what each connector reports, *)
(* snoozed one by one, and persisted as plain rows.  Captain's reports, the    *)
(* user's dismissals, the clock and the restarts are its callers', in any      *)
(* order; a call that raises changes nothing and is no step.                   *)
(***************************************************************************)
EXTENDS Integers, Sequences, FiniteSets, Functions

CONSTANTS
  RawOwners,        \* the scope and connector ids callers may pass
  CodeTuples,       \* the tuples of codes that reports may carry
  Stripped,         \* what _label makes of each label it accepts
  Reminder,         \* reminder_seconds
  MaxActiveCodes,   \* MAX_ACTIVE_CODES_PER_CONNECTOR
  MaxPersisted,     \* MAX_PERSISTED_NOTICES
  MaxClock,         \* bound on the clock
  None

ASSUME LabelAssumption ==
  /\ \A label \in DOMAIN Stripped :
       Stripped[label] \in DOMAIN Stripped /\ Stripped[Stripped[label]] = Stripped[label]
  /\ \A owner \in RawOwners : owner = <<owner[1], owner[2]>>
  /\ \A codes \in CodeTuples : codes \in Seq(Range(codes))

ASSUME ReminderAssumption ==
  /\ Reminder \in Nat \ {0}
  /\ None \notin Nat
  /\ MaxActiveCodes \in Nat /\ MaxPersisted \in Nat /\ MaxClock \in Nat

VARIABLES
  items,   \* ConnectorNoticeStore._items
  disk,    \* the rows of the last snapshot persisted
  clock

vars == <<items, disk, clock>>

Labels == Range(Stripped)

RawCodes == UNION {Range(codes) : codes \in CodeTuples}

Key == [scope_id : Labels, connector_id : Labels, code : Labels]

State == [first_seen : Nat, snoozed_until : Nat \cup {None}]

Row == [scope_id : Labels, connector_id : Labels, code : Labels,
        first_seen : Nat, snoozed_until : Nat \cup {None}]

Accepted(labels) == labels \subseteq DOMAIN Stripped

(* A faulty key: the code is checked but kept with its blanks. *)
KeyUnstripped(owner, code) ==
  [scope_id |-> Stripped[owner[1]], connector_id |-> Stripped[owner[2]], code |-> code]

KeyOf(owner, code) ==
  [scope_id |-> Stripped[owner[1]], connector_id |-> Stripped[owner[2]], code |-> Stripped[code]]

(* A faulty ownership, for the mutation runs: the scope is not compared. *)
OfConnector(owner, key) == key.connector_id = Stripped[owner[2]]

OfOwner(owner, key) ==
  /\ key.scope_id = Stripped[owner[1]]
  /\ key.connector_id = Stripped[owner[2]]

(* A faulty candidate, for the mutation runs: of a report that does not fit, the  *)
(* resolved codes go and the new ones wait.                                        *)
CandidateInPart(owner, codes) ==
  LET others == {key \in DOMAIN items : ~ OfOwner(owner, key)}
      desired == {KeyOf(owner, code) : code \in Range(codes)}
      whole == Cardinality(others \cup desired) <= MaxPersisted
  IN  [key \in others \cup (IF whole THEN desired ELSE desired \cap DOMAIN items) |->
         IF key \in DOMAIN items THEN items[key]
         ELSE [first_seen |-> clock, snoozed_until |-> None]]

(* The candidate reconcile builds beside the items. *)
Candidate(owner, codes) ==
  LET others == {key \in DOMAIN items : ~ OfOwner(owner, key)}
      desired == {KeyOf(owner, code) : code \in Range(codes)}
  IN  [key \in others \cup desired |->
         IF key \in DOMAIN items THEN items[key]
         ELSE [first_seen |-> clock, snoozed_until |-> None]]

(* A faulty capacity: what is there, and not what would be. *)
FitsBefore(candidate) == Cardinality(DOMAIN items) <= MaxPersisted

Fits(candidate) == Cardinality(DOMAIN candidate) <= MaxPersisted

(* The codes are counted as they come, before equal ones become one. *)
WellReported(owner, codes) ==
  /\ Accepted(Range(owner) \cup Range(codes))
  /\ Len(codes) <= MaxActiveCodes

Reconcile(owner, codes) ==
  /\ WellReported(owner, codes)
  /\ LET candidate == Candidate(owner, codes)
     IN  Fits(candidate) /\ items' = candidate
  /\ UNCHANGED <<disk, clock>>

(* A faulty snooze: a notice snoozed again adds to what is left. *)
ReminderAdded(state) ==
  (IF state.snoozed_until = None THEN clock ELSE state.snoozed_until) + Reminder

ReminderDue(state) == clock + Reminder

DismissTemporarily(owner, code) ==
  /\ Accepted(Range(owner) \cup {code})
  /\ LET key == KeyOf(owner, code)
     IN  /\ key \in DOMAIN items
         /\ items' = [items EXCEPT ![key].snoozed_until = ReminderDue(items[key])]
  /\ UNCHANGED <<disk, clock>>

Visible(scope, time, launch) ==
  {key \in DOMAIN items :
     /\ key.scope_id = scope
     /\ \/ launch
        \/ items[key].snoozed_until = None
        \/ time >= items[key].snoozed_until}

Rows(held) ==
  {[scope_id |-> key.scope_id, connector_id |-> key.connector_id, code |-> key.code,
    first_seen |-> held[key].first_seen, snoozed_until |-> held[key].snoozed_until] :
      key \in DOMAIN held}

(* snapshot, with its rows stored; beyond the budget it raises. *)
Persist ==
  /\ Cardinality(DOMAIN items) <= MaxPersisted
  /\ disk' = Rows(items)
  /\ UNCHANGED <<items, clock>>

RowKey(row) == KeyOf(<<row.scope_id, row.connector_id>>, row.code)

RowsOf(rows, owner) == {row \in rows : OfOwner(owner, RowKey(row))}

(* What restore validates of a list of rows; a list is the set of its rows,    *)
(* and equal rows have equal keys.                                              *)
RestoreAccepts(rows) ==
  /\ Cardinality(rows) <= MaxPersisted
  /\ \A row \in rows :
       /\ Accepted({row.scope_id, row.connector_id, row.code})
       /\ Cardinality(RowsOf(rows, <<row.scope_id, row.connector_id>>)) <= MaxActiveCodes
  /\ \A row, other \in rows : RowKey(row) = RowKey(other) => row = other

Restored(rows) ==
  [key \in {RowKey(row) : row \in rows} |->
     LET row == CHOOSE row \in rows : RowKey(row) = key
     IN  [first_seen |-> row.first_seen, snoozed_until |-> row.snoozed_until]]

(* The process ends and a new store is built from what is on disk. *)
Relaunch ==
  /\ RestoreAccepts(disk)
  /\ items' = Restored(disk)
  /\ UNCHANGED <<disk, clock>>

Tick ==
  /\ clock < MaxClock
  /\ clock' = clock + 1
  /\ UNCHANGED <<items, disk>>

Init ==
  /\ items = Restored({})
  /\ disk = {}
  /\ clock = 0

Next ==
  \/ \E owner \in RawOwners, codes \in CodeTuples : Reconcile(owner, codes)
  \/ \E owner \in RawOwners, code \in RawCodes : DismissTemporarily(owner, code)
  \/ Persist
  \/ Relaunch
  \/ Tick

Spec == Init /\ [][Next]_vars

-----------------------------------------------------------------------------

TypeOK ==
  /\ DOMAIN items \subseteq Key
  /\ items \in [DOMAIN items -> State]
  /\ disk \subseteq Row
  /\ clock \in 0..MaxClock

(* Whatever history led here, what the store holds can be persisted and what   *)
(* is on disk is accepted by restore: reports fill the store up to its total    *)
(* and per-connector limits, and no snapshot it writes locks its notices out.   *)
SnapshotRestores ==
  /\ Cardinality(DOMAIN items) <= MaxPersisted
  /\ RestoreAccepts(disk)

(* A notice is only missing from its scope's list because it was dismissed less *)
(* than a reminder ago, since the problem last began: neither a restart, nor a  *)
(* second dismissal, nor a problem that went and came back stretches a snooze.  *)
HiddenWasDismissed ==
  \A key \in DOMAIN items :
    key \in Visible(key.scope_id, clock, FALSE)
      \/ items[key].snoozed_until - Reminder \in items[key].first_seen..clock

NoNotice == [first_seen |-> None, snoozed_until |-> None]

Pages == {KeyOf(owner, code) : owner \in RawOwners, code \in RawCodes \cap DOMAIN Stripped}

BookOf(held) == [key \in Pages |-> IF key \in DOMAIN held THEN held[key] ELSE NoNotice]

PagesOf(owner) == {page \in Pages : OfOwner(owner, page)}

Book == INSTANCE NoticeBook WITH
  Owners <- {{p \in Pages : p.scope_id = q.scope_id /\ p.connector_id = q.connector_id} : q \in Pages},
  book <- BookOf(items), copy <- BookOf(Restored(disk)), now <- clock

(* The store only ever moves as NoticeBook does, through refusals and restarts:  *)
(* one step begins and ends notices of one connector in one scope only, a notice  *)
(* that goes on keeps its age and its snooze until it is snoozed again, and a      *)
(* restart brings back what was saved.  Which notices a report begins and ends is   *)
(* ReportsTakenWhole.                                                                *)
ImplementsBook == Book!Spec

(* A well-formed report is taken whole or not at all, stated of every state because *)
(* a refused report is no step: if the notices it asks for fit together with those   *)
(* of the others, it is taken, and the notices of its connector in its scope are      *)
(* then exactly those of its codes, new ones beginning now; if they do not fit, it is  *)
(* refused, and not even the codes it resolves go.                                       *)
ReportsTakenWhole ==
  \A owner \in RawOwners, codes \in CodeTuples :
    WellReported(owner, codes) =>
      LET after == Book!Reported(PagesOf(owner), {KeyOf(owner, code) : code \in Range(codes)})
          fits == Cardinality({page \in Pages : after[page] # NoNotice}) <= MaxPersisted
      IN  /\ Fits(Candidate(owner, codes)) <=> fits
          /\ fits => BookOf(Candidate(owner, codes)) = after
=============================================================================
