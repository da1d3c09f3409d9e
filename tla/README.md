# Verification of the Captain parking components

This directory holds TLA+ specifications of the Python reference components under
`src/parking`, the TLC instances that check them, and TLAPS proofs of every safety
property that the passing runs check. Line numbers are in `PROJECT.json`
(`map`), which relates every definition to the code it translates.

Contents: [inventory](#inventory), [plan](#plan), [modules and code](#modules-and-code),
[runs](#runs), [bounds](#bounds), [fairness and assumptions](#fairness-and-assumptions),
[proofs](#proofs), [divergences](#divergences), [not modelled](#not-modelled).

## Inventory

Captain is a desktop control plane for LLM chats, projects and code builders. The
repository is its parking lot: dependency-free reference implementations of the
boundaries that a real integration has to preserve. Captain itself, its Project State
(the authority on the current *epoch* of a project), the LLM turns, the builders, the
providers and the storage of snapshots are not in the repository; the components only
see their arguments. Nothing runs threads: concurrency is between callers, i.e. the
order in which operations of one component are called by turns, builders, events and
restarts that do not know of each other.

| component | state | operations | who calls it |
|---|---|---|---|
| memory authority (`memory_authority.py`) | none | `parse`, `permits`, `project_memory_visible` | the memory store, the facade |
| epoch-bound store (`memory_store_epoch_adapter.py`) | the ordered list of records | `write_project`, `advance_project_epoch`, `read_project`, `build_context` | the facade, `restore` |
| persistence (`memory_persistence.py`) | none; a snapshot is data | `snapshot`, `restore` | the facade |
| facade (`project_state_memory_facade.py`) | one store | `write_current`, `read_current`, `build_current_context`, `advance`, `snapshot_for_persistence`, `from_persisted_snapshot` | Captain |
| cardinality policy (`memory_cardinality_policy.py`) | none | `apply_write` | nobody yet |
| epoch guard (`project_memory_epoch_guard.py`) | none | `authorize_project_envelope`, `project_memory_for_chat` | Captain |
| builder runtime (`builder_runtime_adapter_fake.py`) | sessions by id: scope, files, log, checkpoints, preview, stopped | `create`, `write_file`, `delete_file`, `run`, `checkpoint`, `rollback`, `preview`, `stop`, and reads | builders, with scopes Captain issues |
| health monitor (`connector_health_monitor.py`) | none; compares two reports | `evaluate` | Captain's checks |
| notice state (`connector_notice_state.py`) | one notice per connector, with its snooze | `reconcile`, `dismiss`, `visible`, `snapshot`, `from_snapshot` | checks, Settings, launches |
| scoped notice store (`connector_notice_store.py`) | notices per scope, connector, code | `reconcile`, `dismiss_temporarily`, `visible`, `snapshot`, `restore` | Captain |
| readiness (`connector_readiness.py`) | none | `evaluate`: normalised state and blockers | Captain Settings |
| remediation (`connector_remediation.py`) | none | `remediation`: the user's plan | Captain Settings |
| notice policy (`connector_notice_policy.py`) | none; a notice and a dismissal are data | `notice_for`, `visible` | Captain Settings |
| resume guard (`repo_reality_resume_guard.py`) | none | `resume_delta_usable` | OpenBuilder |
| research bridge (`research_project_state_bridge.py`) | none | `canonical_http_url`, `build_research_state` | Captain research |

What is hard, and makes each of them correct:

* **Project memory.** Epochs move while turns are in flight; advances are late, repeated,
  out of order or missed; a crash brings back an old snapshot. A turn may only be shown
  memory of the current epoch, current memory must survive, a key has one record, and
  whatever is persisted must be accepted by the next restore.
* **Builder runtime.** Session ids are reused by other owners, epochs and after a stop;
  checkpoint numbers are reused after rollbacks; quotas are tested on writes while
  rollbacks also change the files. The history must be an unbroken stack, and only the
  exact scope may change a session.
* **Connector notices.** Checks, snoozes, the clock, restarts and the capacity interleave.
  Only what the user has seen may be hidden, hidden notices must come back, resolved ones
  go, broken connectors be noticed. In the scoped store one connector's report must not
  touch another's notices, and a refusal at capacity must change nothing.
* **Connector settings.** Three modules look at one report, one after the other: a notice
  must have an answer in the plan, the plan must be enough, and a dismissal, an epoch
  change or a provider's reminder must not silence a broken connector.
* **Resume deltas and research.** A delta is saved in one epoch at one head and used at
  another time; a bundle is foreign data, of which the first of each different source is
  to be kept without raising.

All hazards, with their lines and the properties aimed at them, are in `PROJECT.json`.

## Plan

Order of work, most important behaviour first; all of it is done:

1. *Project memory*: `MemoryAuthority`, `MemoryRecords`, the abstract map `EpochMemory`, the
   component `EpochMemoryStore`, its composition `ProjectMemory`; the second way to write
   (`CardinalityPolicy`) and the second way to read (`EpochGuard`), compared with the
   store in every state it reaches.
2. *Builder runtime*: the abstract stack `BuilderHistory`, the component `BuilderRuntime`,
   its composition `BuilderProject` with epochs, a moving repository and the resume guard
   (`ResumeGuard`).
3. *Connector notices*: `ConnectorHealth`, `NoticeStore`, the composition
   `ConnectorNotices`; the scoped store `ScopedNotices` and the book it implements,
   `NoticeBook`.
4. *Connector settings*: `ConnectorReadiness` (readiness, remediation, notice policy) and
   the composition `ConnectorSettings`.
5. *Research bridge*: `ResearchBridge`.
6. *Proofs*: `MemoryRecordsProofs`, `EpochMemoryStoreProofs`, `ProjectMemoryProofs`,
   `BuilderRuntimeProofs`, `BuilderProjectProofs`, `ConnectorNoticesProofs`,
   `ScopedNoticesProofs`, `SettingsAndResearchProofs`.

What could still be proved: that the runtime's theorems carry over to `BuilderProject`
property by property (`ProjectImplementsBuilder` is the step they would go through), and
what `ConnectorHealth` returns (its codes are never repeated). Liveness is out of the
prover's reach.

## Modules and code

### Project memory

`MemoryAuthority` has the authority tuple. Texts are members of a constant set; `Strip`
is the stripping of outer blanks, `UsableIds` and `UsableKeys` the texts that pass the
length and emptiness checks. `Parse` is `MemoryAuthority.parse`: the canonical tuple or
`Malformed` where the code raises. The checks for builtin types reject an argument before
anything else and are part of what is *not* usable.

`MemoryRecords` has the record list and the pure effect of each operation. A payload
stands for a value with its provenance; `InertPayloads` are those that pass the
depth, node and text budgets of `_snapshot_json`. `WriteProject`, `AdvanceProjectEpoch`
and `ReadProject` are the store's operations, a call that raises leaving the list as it
was; `SnapshotAllowed`, `Replay` and `RestoreAccepts` are the persistence boundary.
`Without` and `Replay` are recursive functions, not RECURSIVE operators, so that the
proofs can use them.

`EpochMemoryStore` is the component: variables `records` (the list) and `disk` (the last
snapshot), one action per operation that changes something: `WriteCurrent`, `Advance`,
`SaveSnapshot`, `RestoreSnapshot`. Callers pass any raw authority, key and payload.
`EpochMemory` is what the component promises: a map from authority and key to the last
payload; `MapOf` maps a list of records to it. `Written` and `Retired` there say what a
write and an advance make of the map, whichever state it is in.

`ProjectMemory` extends the component with what calls it: `epoch` and `announced` are
Project State, `turns` the authority each turn captured when it began, `applied` is a
history variable. `CommitWrite` calls `WriteCurrent` with the captured authority,
`DeliverAdvance` calls `Advance` with *any* announcement ever made (so late, repeated,
reordered; never taking it is a missed one), `CrashAndRestart` loses the turns and
restores the last snapshot. A payload is the epoch of its scope when it was written.

`CardinalityPolicy` has `ApplyWrite` over the same list, `EpochGuard` has `Authorized` and
`ShownToChat` over envelopes of what the store holds. `MemoryViews` puts the three views of
the component together: the refinement `ImplementsMap`, that `ApplyWrite` agrees with
`WriteProject` on normalised records (`PolicyAgrees`), and that the guard shows nothing
`ReadProject` would not (`GuardReadsNoMore`). A refinement does not see a call that has no
effect, so a write that is dropped would pass as a stutter. `CallsDoAsPromised` ties each
call to its effect: in every state, every write and every advance, accepted or refused,
makes of the map exactly what `Written` and `Retired` say of its arguments.

### Builder runtime

`BuilderRuntime` has one variable `sessions`, from session id to a record with the fields of
`Session`. `Owned` is `_owned`, the guard of every operation but `Create`; a call that
raises is no step. An owner stands for chat, project and repository, which the code only
compares together. A log is its length, every event being the same string. `Diff` is `diff`.
`BuilderHistory` is the abstract stack of saved works; `BuilderSessionStack` has the
refinement mapping for the session whose id is `HistorySid`, and `CheckpointsAreAStack` is
the refinement. `BuilderProject` instantiates the component and adds the moving epoch of
each owner and the scopes that Captain has issued, which builders go on using. A file map
there holds the epoch in which its content was written. Builders also save resume deltas
(`SaveDelta`); `ResumeDeltaUsable` is the guard, put to a delta in every later state of the
epoch and the head. A delta carries the epoch it was really observed in as a history field
that the guard does not see.

### Connector notices

`ConnectorHealth` has `Evaluate`, from the last two reports to the tuple of event codes.
`important` is true exactly when there are codes, and the deep link is a function of the
id, so both are left out. `NoticeStore` has the notices with relative time: a dismissal
is what is left of its interval and whether it was made in the current launch, which is
all that `visible` looks at. `ConnectorNotices` composes the two: each check evaluates a
report against the previous one and reconciles the result. `seen` is a history variable.

`ScopedNotices` has absolute time, because `first_seen` and `snoozed_until` are stored.
Labels are members of the domain of `Stripped`, which is what `_label` makes of the ones it
accepts. `Reconcile` builds `Candidate` and takes it whole or not at all; `Rows` and
`Restored` are the two directions of the snapshot, `RestoreAccepts` what `restore`
validates. `NoticeBook` is the abstraction: pages that begin, are snoozed and end, and a
saved copy; `ImplementsBook` is the refinement under `BookOf`. It says which kinds of steps
there are, and leaves open which codes a report begins and ends; `ReportsTakenWhole` says
that, of every report in every state: it fits whole and leaves the notices of exactly its
codes, or it is refused.

### Connector settings

`ConnectorReadiness` translates three pure modules: `Evaluate` with `Normalised` and
`Blockers`, `Remediation`, and `NoticeCode`, the order of trouble in `notice_for`.
`ConnectorSettings` is one connector over time: `Check` makes plan and notice of the report
of the moment and keeps a dismissal while the code stays (the caller's side of the policy's
frozen `Dismissal`), `Visible` is the policy's `visible`, `Followed` what an action of the
plan makes of the provider. Time is relative as in `NoticeStore`.

### Research bridge

`ResearchBridge` (its specification is `BridgeSpec`) walks one bundle as the loop of
`build_research_state` does, a source per step: `SkipSource`, `KeepSource`, and the ways it
can end, `Finish`, `RaiseInLoop`, `RaiseAtStart`. A url is scheme, host and port;
`CanonicalHttpUrl` is the canonical form, in which `Netloc` joins host and port into one
string as the code does, and `Reparsed` is the host read back from it. Two IPv6 urls that
the code makes one are therefore one in the model too.

### Faulty operators

The definitions introduced as faulty (for instance `UpsertAppending` before `Upsert`) are
not part of any specification. Each is the mapped definition next to it with one plausible
bug; `PROJECT.json` names, for each checked property, the one that makes it fail.

## Runs

| run | question | states |
|---|---|---|
| `memory_store` | do arbitrary calls, saves and restarts implement the abstract map, keep keys unique, budgets, restorability and the separation of contexts, does each call do what it promises, and do the second writer and the second reader agree? | 10 thousand |
| `project_memory` | is what a turn is shown fresh, is current memory kept, and what blocks persistence? | 320 thousand |
| `project_memory_stale` | *violation*: an in-flight write of an old epoch is rejected after the change | - |
| `builder` | history, quotas, preview, ownership, finality of stop, checkpoints as a stack | 90 thousand |
| `builder_project` | does a builder under the current epoch see work of that epoch only, and is an accepted resume delta of it and of the head? | 500 thousand |
| `builder_project_stale` | *violation*: a session of a superseded epoch keeps its files | - |
| `connector_notices` | is only hidden what was seen in this launch, do snoozed notices return, resolved ones go, broken connectors show? | 10 thousand |
| `connector_notices_padded` | *violation*: an id with blanks around it is rejected | - |
| `scoped_notices` | does the scoped store implement the book, is each report taken whole or refused, do its snapshots restore, does every snooze end? | 58 thousand |
| `settings` | has every notice a remedy, is the plan enough, is a broken connector shown again? | 12 thousand |
| `research` | are the sources kept the first of each different one, in order, up to the limit? | 255 thousand |
| `research_raises` | *violation*: a malformed bundle never makes the call raise | - |

Deadlock is checked everywhere except in `builder` and `research`. In `builder` every
session may be stopped for good, and a stopped id cannot be used again, so no call is left
that does anything; the call that `research` models ends.

## Bounds

* `memory_store`: three epochs of one scope, so that an advance may jump over a missed one,
  and a second repository; a padded spelling of an id and of a key, a malformed authority
  and an over-budget payload; three keys for a budget of two and four authorities for a
  snapshot of two, so both limits are met and exceeded. `HeldBound` bounds the records in
  memory and on disk together (4), which leaves room for a full authority, a neighbour and
  an older snapshot that differs; a snapshot just taken may be of three, since one must not
  be taken of three authorities. One authority has the third key, and one of its keys two
  payloads, so that a replacement is visible; the last epoch has one key. `BoundedNext` takes the calls that stay within
  it; `CallsDoAsPromised` and `PolicyAgrees` look at all the others too, since they speak of
  every call in every state.
* `project_memory`: two repositories (three epochs and two), two turns, one key; three
  epochs are what a jump over a missed advance takes, two turns what an overtaken one
  takes. The budget of authorities equals the number of scopes, the boundary case of
  `PersistBlockedOnlyByStaleMemory`. `MaxResident` bounds the live records at 3. Turns are
  interchangeable (symmetry), and no liveness property is checked in that run.
* `builder`: two ids, two owners, two epochs and a malformed scope; sizes of 1, 2 and 3
  against quotas of 2 per file and 3 per session, three paths for a quota of two files, two
  log events and three checkpoints (one of them checkpoint 0): every quota is met, and calls
  that would exceed it are tried. Paths are interchangeable (symmetry; the temporal
  properties of this run are safety properties). `OthersBare`
  gives files and history to one scope only; the others are still created, previewed
  and stopped around it. Sessions do not read each other, so two rich ones would only
  multiply the states.
* `builder_project`: two owners with one id between them, three epochs, one file, one
  checkpoint beside the initial one, two commits and the last delta saved. Owners and
  commits are interchangeable (symmetry), and no liveness property is checked.
* `connector_notices`: two connectors for one place, a snooze of up to two ticks. The first
  provider is sound or has moved, deprecated and changed (several events in one report);
  the second is sound or revoked. Each may also answer without a usable health.
* `scoped_notices`: one connector in two scopes and a second one with a padded id, codes
  padded, blank and repeated beyond the limit; two notices in all, two codes of a report,
  a reminder of two ticks and a clock of two: a snooze begins, ends and is renewed, and a
  problem goes and comes back while the snooze of its predecessor would still run, which is
  what the lower bound of `HiddenWasDismissed` is about.
* `settings`: five reports that meet every blocker and every code (with what the plan makes
  of them along the way), two epochs, a reminder one tick ahead, past, absent or malformed.
* `research`: every bundle of up to five of nine kinds of sources, while two are kept of
  four looked at; two of them are IPv6 urls with one canonical form. A bundle whose
  `queries` or `sources` are null is one further value.

## Fairness and assumptions

Two modules state fairness, and for the same two things. Weak fairness of `Tick` says that
time passes. Weak fairness of the checks (the health check of each connector in
`ConnectorNotices`, `Check` in `ConnectorSettings`) says that Captain goes on checking and
that providers go on reporting: the code does not schedule checks, and without them no
notice ever changes, so this is an assumption about Captain, and the only one liveness
rests on. Garbled answers, dismissals, restarts, epoch changes and changes of condition are
not fair: they may happen at any time or never.

What else a liveness property needs is in its own statement. `ResolutionClears` assumes
that the condition is settled for good; `BrokenIsNoticed` that the connectors competing for
room are sound and out of the snapshot; `PlanSuffices` that the user goes on following the
plan, the provider changes no more and sends no malformed `remind_after`, past which no
check gets; `BrokenIsShown` that the provider does not put its reminder off for ever.

Assumed of the callers and not checked: the clock does not run backwards, and launch ids
differ from launch to launch (both are plain integers passed in, and `visible` trusts
them); the disk returns the last snapshot whole; Project State only ever increases an
epoch and announces changes truthfully; Settings offers a snooze only for what it shows.

## Proofs

Proved with TLAPS for every value of the constants that the named assumptions admit (any
texts and stripping, any budgets of at least one, any numbers of scopes, turns, epochs).

**`MemoryRecordsProofs`**: what the operators on record lists do. `WithoutEmbeds`
(filtering keeps exactly the kept elements, in order), `UpsertKeeps` (uniqueness and
budget), `ParseCanonical` (parsing is the identity on canonical tuples), `ReplayIsIdentity`
(replaying a duplicate-free list within budget gives that very list: every write appends).
Inductions over positions are done with sets (`InductionUpTo`), from the library's
well-foundedness of the naturals.

**`EpochMemoryStoreProofs`**: the invariant `StoreInv` is inductive. It needs more than the
properties it implies: `RestoreSnapshot` replaces the live list by the replayed snapshot, so
uniqueness and the budget must be known of `disk` as well (`Restorable`). Results:
`StoreInvAlways`, `StoreTypeCorrect`, `KeysUnique`, `BudgetNeverExceeded`,
`SnapshotsRestore`. The same invariant carries the comparisons with the two other ways in:
`PolicyAlwaysAgrees` holds because the policy's scan and the store's see the same first
match in a list without duplicates (`PolicyIsWrite`), and `GuardNeverShowsMore` because a
canonical scope permits a record exactly when the two compare equal (`GuardShows`).
`ContextsAreStable`, an action property, rests on what a write and an advance do to the
context of each authority. `CallsAlwaysDoAsPromised` is the effect of each call on the map
(`WriteDoes`, `AdvanceDoes`), under `MapInv`, which adds that records are kept under keys
that callers use. From the same lemmas `StoreImplementsMap` follows step by step: a write
refines `Put` or changes nothing, an advance refines `RetireBefore`, a snapshot `Save` and a
restart `Restart`. The crux is that budgets are counted on both sides, over positions of a
list here and over keys of a map there: `KeysAreCounted` shows the two counts equal, so that
a list is full exactly when the map is (`RoomIsRoom`).

**`ProjectMemoryProofs`**: the invariant `IInv` adds that a record never has an epoch its
scope has not reached, that a record whose epoch is still the current one carries its stamp
(`Stamped`, of the live list and the snapshot), and that turns and announcements name
reached epochs. The stamp is what makes `VisibleIsFresh` inductive: an old-epoch write may
land at any time, and is harmless because its authority cannot be current again.
`StepsAreStoreSteps` shows that every step is a step of the store or none, so the store's
invariant comes for free (`MemoryImplementsStore`). Results: `MemoryInvAlways`,
`MemoryTypeCorrect`, `ShownMemoryIsFresh`, `NoMemoryFromTheFuture`, `CurrentMemoryIsKept`,
`PersistBlockedOnlyByStale` (authorities of current records are an image of the finite set
of scopes, so there are no more of them than a snapshot has room for), and
`CaptainMemoryIsAMap`, which composes the two refinements: with turns in flight, late
advances and crashes around it, project memory is still the abstract map.

**`BuilderRuntimeProofs`**: the invariant `BuilderInv` says of every session what `TypeOK`,
`HistoryContiguous` and `PreviewOwned` say, since none is inductive alone: a new checkpoint
is number `checkpoint + 1` only because the old ones are exactly `0..checkpoint`, and stays
within the budget only because there are as many as that. One lemma per kind of change
(`NewSessionKept`, `EditKept`, `CheckpointKept`, `RollbackKept`), then `CallsMove`, with one
step per call, and `MovesOneSession` for the map of sessions and for what a step leaves
alone. Results: `BuilderInvAlways`, `SessionsTypeCorrect`, `HistoryUnbroken`,
`PreviewsStayOwned`, `StopIsFinal` (an action property), `DiffShowsUnsavedWork`, and
`QuotasAlwaysHold`: `rollback` tests no quota, so the quotas of every checkpoint belong to
the invariant. Bytes are a sum over the files, a recursion over finite sets of which the
library proves nothing: that it has a value and that one summand can be taken out
(`SumExists`, `SumTakesOut`) is shown over subsets, by a smallest one, and gives
`WritingFits` (a replaced file is discounted once) and `DeletingFits`. `SessionIsAStack` is
the refinement `CheckpointsAreAStack`: seen through `HistorySid`, every call of anybody is
one of the five steps of the stack or a stutter.

**`BuilderProjectProofs`**: `ProjectInv` stamps sessions: while the epoch of its scope is
the current one, a session holds contents of that epoch only, live and in every checkpoint,
and a scope is only ever of an epoch its owner has reached. A write under a superseded scope
may put newer contents beside older ones, and is harmless because that epoch cannot be
current again. Of a delta it says that it was observed no earlier than its scope was issued
and no later than now; that it is of the head of the moment the guard compares itself.
Results: `ProjectInvAlways`, `CurrentSessionsAreFresh`,
`UsableDeltasAreCurrent`, and `ProjectImplementsBuilder`: seen from the runtime, the
composition behaves as the runtime's own specification allows.

**`ConnectorNoticesProofs`**: `HiddenWasSeen` speaks of the notices hidden now and is not
inductive; `NoticeInv` says it of every dismissal made in this launch, expired or not,
since a tick only ends one. It also bounds live and stored notices. Results:
`NoticeInvAlways`, `NoticesTypeCorrect`, `SnapshotsFit`, `OnlyTheSeenIsHidden`.

**`ScopedNoticesProofs`**: `StoreInv` says the same (`Holds`) of the items and of what is on
disk, read back, because a restart replaces the one by the other; `RestoredIsHeld` is the
round trip of a snapshot. `BoundInv` adds both limits, for which a report's codes are
counted through a surjection (`ReportedAreFew`). Results: `StoreInvAlways`,
`NoticesTypeCorrect`, `SnoozesEnd`, `LimitsHold`, `SnapshotsAlwaysRestore`;
`ReportsAlwaysTakenWhole`, from the candidate of any report compared with the book page by
page (`CandidateIsReported`); and with it the whole safety refinement,
`StoreImplementsBook`: each step of the store is a step of `NoticeBook` or a stutter
(`StepsAreBookSteps`).

**`SettingsAndResearchProofs`**: two components without state in common that need little
beyond their own text, in one module. For settings the invariant is `TypeOK` and
`NoticeHasRemedy` together. The work is in what the pure operators make of *any* report:
lists of conditional codes are followed as sets (`Lists`, `JoinedLists`, `WhenLists`), so
`BlockersListed` says exactly which blockers there are, `NoticeCodeIsTrouble` what a notice
complains of, `PlanAnswers` what the plan then has, and `TroubleIsAnswered` joins the three.
Results: `SettingsTypeOK`, `NoticesHaveRemedies`. For a research bundle, `LoopInv` gives
every source its rank among the first ones of their url: what is kept is in rank order, and
the urls kept are exactly those seen so far. At the end of the loop, either everything was
looked at or the limit is met, and later first sources rank behind it (`LaterRanksBehind`).
Result: `SourcesAlwaysFaithful`.

Assumptions: `StripAssumption` (stripping is a function and idempotent), `UsableAssumption`,
`MalformedAssumption`, `PayloadAssumption`, `BudgetAssumption`, `InputAssumption`,
`ScopeAssumption` (finitely many scopes), `StampAssumption`, `IdleAssumption` for the
memory, and for its views `NoneAssumption` (what stands for no scope is no scope) and
`MissingAssumption` (what stands for no record is no payload); `QuotaAssumption` and
`NullAssumption` for the builder, `EpochAssumption` for `BuilderProject` and, with
`TimesAssumption`, for the settings; `BundlesAssumption` (a bundle has a length) and
`MaxSourcesAssumption` for research; `ConnectorAssumption`, `NoticeAssumption` and
`EventAssumption` (the event tuples include what `Evaluate` returns) for the notices;
`LabelAssumption` (as `StripAssumption`) and `ReminderAssumption` for the scoped store. TLC
evaluates all of them on the instances.

**Only model-checked**: liveness (`NoticeReappears`, `ResolutionClears`, `BrokenIsNoticed`,
`PlanSuffices`, `BrokenIsShown`), since the prover has no ENABLED and no fairness reasoning,
and the four violations. What recursive definitions compute is proved only where an
induction over positions can be written with sets (`InductionUpTo`); the library's induction
theorems take an operator as a parameter, which no prover here instantiates.

## Divergences

Four runs end in a counterexample: the code does something else than a document, a
docstring or a regression of the repository says. `PROJECT.json` (`findings`) quotes them.

1. `project_memory_stale`: an in-flight write of an old epoch lands after the epoch change.
   It stays invisible under the current epoch, but occupies the store.
2. `builder_project_stale`: the builder runtime has no epoch invalidation. In the trace a
   scope is issued, the epoch moves on, `create` still opens a session under the old scope
   and `write_file`, which passes `_owned`, writes to it.
3. `connector_notices_padded`: a padded connector id is accepted, against the regression.
4. `research_raises`: a null `queries`, `sources` or `matched_queries`, a port out of range,
   or a url with an IPv6 address that starts with `::` beside another host make
   `build_research_state` raise, against its docstring. The trace shows a null field.

What the models show besides, where nothing in the repository says otherwise:

* A health report without a usable `health` reads as healthy: it clears the notice of a
  broken connector until the next good report (`BrokenIsNoticed` still holds).
* `auth_method_migration` is an event of one check only, and the next one clears it.
* `apply_write` stores its record as it came: one built with blanks in its ids is compared
  under its stripped authority and stored under the other.
* A scoped notice shown at launch keeps its snooze: the next ordinary call hides it again.
  A report refused at capacity also keeps the codes it would have resolved. `restore` takes
  any `snoozed_until`, however far ahead; a snapshot of the store itself never has one more
  than a reminder ahead (`HiddenWasDismissed`).
* The notice policy accepts ids of up to 64 characters and readiness up to 128, so
  `notice_for` raises for a connector in between. It raises as well for a malformed
  `remind_after`, but only when a notice is due; one in the past shows a dismissed notice
  at once, one far ahead hides it as long.
* A `blocked` status alone makes a connector unready, with a plan but without a notice;
  `revoked` is an event of the monitor and unknown to readiness; `reauth_required` the
  other way round.
* The resume guard compares the head and not the base or the worktree.
* Canonical urls lose the brackets of an IPv6 address. Two hosts with the same first group
  are then counted as one host in the research state, and a url with a port may become the
  same as one whose address ends in that group (`http://[::1]:8080` and
  `http://[::1:8080]`), so that the second of the two sources is dropped as a duplicate.

## Not modelled

The JSON contracts and the research notes are documents; what they say of the code is
quoted in the findings. Cutting texts and scores to their limits in the research bridge,
labels and deep links of connectors, permissions and `checked_at`: they pass through and no
property looks at them. The details of `_snapshot_json`, `_safe_relpath` and of the shape
checks of snapshots and deltas, of which only acceptance or refusal matters. Detachment of
returned copies: values are immutable in TLA+, so the aliasing that the code's copies
prevent cannot be expressed, except where a checkpoint would share its files with the live
session (`CheckpointsAreAStack` states that saved levels do not change). Types that execute
caller code. The regression scripts are tests, read for what they demand of the code.
