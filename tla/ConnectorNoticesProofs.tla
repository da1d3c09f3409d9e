----------------------- MODULE ConnectorNoticesProofs -----------------------
(***************************************************************************)
(* Connector notices are only ever hidden for what their user has seen, and   *)
(* never outgrow their snapshot, for any connectors, providers, limits and    *)
(* event tuples.                                                               *)
(***************************************************************************)
EXTENDS ConnectorNotices, FiniteSetTheorems, TLAPS

(* What the maps of notices keep, live and stored: no more than fit. *)
Fits(f) ==
  /\ Store!IsNotices(f)
  /\ IsFiniteSet(DOMAIN f)
  /\ Cardinality(DOMAIN f) <= MaxNotices

(* The inductive invariant.  HiddenWasSeen speaks of the notices hidden now;    *)
(* the dismissals made in this launch are what time can only bring to an end.   *)
NoticeInv ==
  /\ Fits(notices) /\ Fits(stored)
  /\ condition \in [Connectors -> AllConditions]
  /\ \A c \in Connectors : condition[c] \in Conditions[c]
  /\ previous \in [Connectors -> Methods]
  /\ seen \in [Connectors -> EventTuples \cup {Nothing}]
  /\ \A c \in DOMAIN notices :
       notices[c].dismissed # NotDismissed /\ notices[c].dismissed.here
         => seen[c] = notices[c].events

-----------------------------------------------------------------------------
(* Maps of notices *)

(* The store's helpers are the ones used here. *)
LEMMA SameHelpers ==
  /\ \A S : Store!Cardinality(S) = Cardinality(S)
  /\ \A S : Store!Max(S) = Max(S)
  /\ \A f, S : Store!Restrict(f, S) = Restrict(f, S)
BY DEF Store!Cardinality, Cardinality, Store!Max, Max, Store!Restrict, Restrict

(* The map that has no notice. *)
LEMMA NoNoticesFit == Fits(Store!NoNotices)
<1>1. DOMAIN Store!NoNotices = {}
  BY DEF Store!NoNotices
<1>2. Store!IsNotices(Store!NoNotices)
  BY DEF Store!NoNotices, Store!IsNotices
<1> QED
  BY <1>1, <1>2, FS_EmptySet, NoticeAssumption DEF Fits

(* Fewer notices fit. *)
LEMMA FewerFit ==
  ASSUME NEW f, Fits(f), NEW D \in SUBSET DOMAIN f
  PROVE  Fits(Restrict(f, D))
<1>1. DOMAIN Restrict(f, D) = D /\ Store!IsNotices(Restrict(f, D))
  BY DEF Fits, Store!IsNotices, Restrict
<1>2. IsFiniteSet(D) /\ Cardinality(D) <= MaxNotices
  <2>1. /\ IsFiniteSet(D) /\ Cardinality(D) <= Cardinality(DOMAIN f)
        /\ Cardinality(D) \in Nat /\ Cardinality(DOMAIN f) \in Nat
    BY FS_Subset, FS_CardinalityType DEF Fits
  <2> QED
    BY <2>1, NoticeAssumption DEF Fits
<1> QED
  BY <1>1, <1>2 DEF Fits

(* Other notices at the same connectors fit. *)
LEMMA SameConnectorsFit ==
  ASSUME NEW f, Fits(f), NEW g, DOMAIN g = DOMAIN f, Store!IsNotices(g)
  PROVE  Fits(g)
BY DEF Fits

(* A notice put where there is room fits. *)
LEMMA KeptFits ==
  ASSUME Fits(notices), NEW c \in Connectors, Store!HasRoom(c), NEW notice \in Store!Notice
  PROVE  Fits(Store!With(notices, c, notice))
<1> DEFINE g == Store!With(notices, c, notice)
<1>1. DOMAIN g = DOMAIN notices \cup {c}
  BY DEF Store!With
<1>2. Store!IsNotices(g)
  BY DEF Fits, Store!IsNotices, Store!With
<1>3. /\ IsFiniteSet(DOMAIN notices \cup {c})
      /\ Cardinality(DOMAIN notices \cup {c}) <= MaxNotices
  <2>1. Cardinality(DOMAIN notices) \in Nat
    BY FS_CardinalityType DEF Fits
  <2>2. c \in DOMAIN notices \/ Cardinality(DOMAIN notices) < MaxNotices
    BY SameHelpers DEF Store!HasRoom
  <2>3. IsFiniteSet(DOMAIN notices) /\ Cardinality(DOMAIN notices) <= MaxNotices
    BY DEF Fits
  <2>4. /\ IsFiniteSet(DOMAIN notices \cup {c})
        /\ Cardinality(DOMAIN notices \cup {c}) =
             IF c \in DOMAIN notices THEN Cardinality(DOMAIN notices)
             ELSE Cardinality(DOMAIN notices) + 1
    BY <2>3, FS_AddElement, Zenon
  <2> QED
    BY <2>1, <2>2, <2>3, <2>4, NoticeAssumption
<1> QED
  BY <1>1, <1>2, <1>3 DEF Fits

(* Time, and a later launch, leave a dismissal a dismissal, of its launch or of  *)
(* none that is here.                                                            *)
LEMMA DismissalsPass ==
  ASSUME NEW time \in Nat, NEW d \in Store!Dismissal \cup {NotDismissed}
  PROVE  /\ Store!After(time, d) \in Store!Dismissal \cup {NotDismissed}
         /\ d = NotDismissed => Store!After(time, d) = NotDismissed
         /\ d # NotDismissed => Store!After(time, d).here = d.here
         /\ Store!LeftBehind(d, time) \in Store!Dismissal \cup {NotDismissed}
         /\ Store!LeftBehind(d, time) # NotDismissed => ~ Store!LeftBehind(d, time).here
<1>1. CASE d = NotDismissed
  BY <1>1 DEF Store!After, Store!LeftBehind
<1>2. CASE d # NotDismissed
  <2>1. d \in [left : 0..MaxSnooze, here : BOOLEAN]
    BY <1>2 DEF Store!Dismissal
  <2>2. Max({0, d.left - time}) \in 0..MaxSnooze
    <3>1. d.left - time \in Int /\ d.left - time <= MaxSnooze
      BY <2>1, NoticeAssumption
    <3>2. CASE d.left - time <= 0
      <4>1. Max({0, d.left - time}) = 0
        BY <3>1, <3>2 DEF Max
      <4> QED
        BY <4>1, NoticeAssumption
    <3>3. CASE d.left - time > 0
      <4>1. Max({0, d.left - time}) = d.left - time
        BY <3>1, <3>3 DEF Max
      <4> QED
        BY <3>1, <3>3, <4>1
    <3> QED
      BY <3>1, <3>2, <3>3
  <2>3. Store!After(time, d) = [left |-> Max({0, d.left - time}), here |-> d.here]
    BY <1>2, <2>1, SameHelpers DEF Store!After
  <2>4. Store!After(time, d) \in [left : 0..MaxSnooze, here : BOOLEAN]
    BY <2>1, <2>2, <2>3
  <2>5. \A r \in [left : 0..MaxSnooze, here : BOOLEAN] :
          /\ [r EXCEPT !.here = FALSE] \in [left : 0..MaxSnooze, here : BOOLEAN]
          /\ ~ [r EXCEPT !.here = FALSE].here
    OBVIOUS
  <2>6. Store!LeftBehind(d, time) = [Store!After(time, d) EXCEPT !.here = FALSE]
    BY <1>2, Zenon DEF Store!LeftBehind
  <2>7. /\ Store!LeftBehind(d, time) \in Store!Dismissal
        /\ ~ Store!LeftBehind(d, time).here
    BY <2>4, <2>5, <2>6, Zenon DEF Store!Dismissal
  <2>8. Store!After(time, d) \in Store!Dismissal /\ Store!After(time, d).here = d.here
    BY <2>3, <2>4 DEF Store!Dismissal
  <2> QED
    BY <1>2, <2>7, <2>8
<1> QED
  BY <1>1, <1>2

-----------------------------------------------------------------------------
(* Steps *)

(* The invariant holds at first. *)
LEMMA NoticeInvInit == Init => NoticeInv
<1> SUFFICES ASSUME Init PROVE NoticeInv
  OBVIOUS
<1>1. notices = Store!NoNotices /\ stored = Store!NoNotices
  BY DEF Init, Store!Init
<1>2. DOMAIN notices = {}
  BY <1>1 DEF Store!NoNotices
<1>3. /\ previous \in [Connectors -> Methods]
      /\ seen \in [Connectors -> EventTuples \cup {Nothing}]
  BY DEF Init, Methods
<1> QED
  BY <1>1, <1>2, <1>3, NoNoticesFit DEF Init, NoticeInv

(* A check of any report that may reach the monitor. *)
LEMMA CheckKeeps ==
  ASSUME NoticeInv, NEW c \in Connectors, NEW report \in Reports, Check(c, report)
  PROVE  NoticeInv'
<1> DEFINE events == Evaluate(previous[c], report)
<1>1. events \in EventTuples
  BY EventAssumption DEF NoticeInv
<1>2. UNCHANGED <<stored, condition, seen>> /\ previous' = [previous EXCEPT ![c] = report.auth_method]
  BY DEF Check, Store!Reconcile, noticeVars
<1>3. previous' \in [Connectors -> Methods]
  BY <1>2 DEF NoticeInv, Methods
<1> HIDE DEF events
<1>4. /\ Fits(notices')
      /\ \A d \in DOMAIN notices' :
           notices'[d].dismissed # NotDismissed /\ notices'[d].dismissed.here
             => seen[d] = notices'[d].events
  <2>1. CASE notices' = Store!Restrict(notices, DOMAIN notices \ {c})
    <3>1. notices' = Restrict(notices, DOMAIN notices \ {c})
      BY <2>1, SameHelpers
    <3>2. Fits(notices')
      BY <3>1, FewerFit DEF NoticeInv
    <3>3. \A d \in DOMAIN notices' : d \in DOMAIN notices /\ notices'[d] = notices[d]
      BY <3>1 DEF Restrict
    <3> QED
      BY <3>2, <3>3 DEF NoticeInv
  <2>2. CASE events # << >> /\ Store!HasRoom(c) /\ notices' = Store!Kept(c, events)
    <3> DEFINE notice == [events |-> events, dismissed |-> Store!SnoozeKept(c, events)]
    <3>1. notices' = Store!With(notices, c, notice)
      BY <2>2 DEF Store!Kept
    <3>2. notice \in Store!Notice
      <4>1. \A d \in DOMAIN notices : notices[d] \in Store!Notice
        BY DEF NoticeInv, Fits, Store!IsNotices
      <4>2. Store!SnoozeKept(c, events) \in Store!Dismissal \cup {NotDismissed}
        BY <4>1 DEF Store!SnoozeKept, Store!Notice
      <4> QED
        BY <1>1, <2>2, <4>2 DEF Store!Notice
    <3>3. notice.events = events /\ notice.dismissed = Store!SnoozeKept(c, events)
      OBVIOUS
    <3> HIDE DEF notice
    <3>4. Fits(notices')
      BY <2>2, <3>1, <3>2, KeptFits DEF NoticeInv
    <3>5. /\ notices'[c] = notice
          /\ \A d \in DOMAIN notices' \ {c} : d \in DOMAIN notices /\ notices'[d] = notices[d]
      BY <3>1 DEF Store!With
    <3>6. notice.dismissed # NotDismissed
            => c \in DOMAIN notices /\ notices[c].events = events
                /\ notice.dismissed = notices[c].dismissed
      BY <3>3 DEF Store!SnoozeKept
    <3> QED
      BY <3>3, <3>4, <3>5, <3>6 DEF NoticeInv
  <2>3. CASE notices' = notices
    BY <2>3 DEF NoticeInv
  <2> QED
    BY <2>1, <2>2, <2>3 DEF Check, Store!Reconcile, noticeVars, events
<1> QED
  BY <1>2, <1>3, <1>4 DEF NoticeInv

(* A dismissal of what is shown. *)
LEMMA DismissKeeps ==
  ASSUME NoticeInv, NEW c \in Connectors, NEW snooze \in 0..MaxSnooze, UserDismisses(c, snooze)
  PROVE  NoticeInv'
<1>1. c \in DOMAIN notices
  BY DEF UserDismisses, Store!Visible
<1>2. /\ notices' = [notices EXCEPT ![c].dismissed = [left |-> snooze, here |-> TRUE]]
      /\ seen' = [seen EXCEPT ![c] = notices[c].events]
      /\ UNCHANGED <<stored, condition, previous>>
  BY <1>1 DEF UserDismisses, Store!Dismiss
<1>3. notices \in [DOMAIN notices -> Store!Notice] /\ DOMAIN notices \subseteq Connectors
  BY DEF NoticeInv, Fits, Store!IsNotices
<1>4. /\ DOMAIN notices' = DOMAIN notices
      /\ notices'[c] = [notices[c] EXCEPT !.dismissed = [left |-> snooze, here |-> TRUE]]
      /\ \A d \in DOMAIN notices \ {c} : notices'[d] = notices[d]
      /\ notices' = [d \in DOMAIN notices |-> notices'[d]]
  BY <1>1, <1>2, <1>3
<1>5. notices'[c] \in Store!Notice /\ notices'[c].events = notices[c].events
  <2>1. notices[c] \in Store!Notice /\ [left |-> snooze, here |-> TRUE] \in Store!Dismissal
    BY <1>1, <1>3 DEF Store!Dismissal
  <2> QED
    BY <1>4, <2>1 DEF Store!Notice
<1>6. Fits(notices')
  <2>1. \A d \in DOMAIN notices : notices'[d] \in Store!Notice
    BY <1>3, <1>4, <1>5
  <2>2. Store!IsNotices(notices')
    BY <1>3, <1>4, <2>1 DEF Store!IsNotices
  <2> QED
    BY <1>4, <2>2, SameConnectorsFit DEF NoticeInv
<1>7. /\ seen' \in [Connectors -> EventTuples \cup {Nothing}]
      /\ seen'[c] = notices[c].events
      /\ \A d \in Connectors \ {c} : seen'[d] = seen[d]
  BY <1>1, <1>2, <1>3 DEF NoticeInv, Store!Notice
<1> QED
  BY <1>2, <1>3, <1>4, <1>5, <1>6, <1>7 DEF NoticeInv

(* The notices g are those of f but for their dismissals. *)
Passed(f, g) ==
  /\ DOMAIN g = DOMAIN f /\ g = [c \in DOMAIN g |-> g[c]]
  /\ \A c \in DOMAIN f :
       /\ g[c].dismissed \in Store!Dismissal \cup {NotDismissed}
       /\ g[c] = [f[c] EXCEPT !.dismissed = g[c].dismissed]

(* Other dismissals fit as well. *)
LEMMA PassedFit ==
  ASSUME NEW f, Fits(f), NEW g, Passed(f, g)
  PROVE  Fits(g) /\ \A c \in DOMAIN f : g[c].events = f[c].events
<1>1. \A c \in DOMAIN f : f[c] \in [events : EventTuples \ {<< >>},
                                  dismissed : Store!Dismissal \cup {NotDismissed}]
  BY DEF Fits, Store!IsNotices, Store!Notice
<1>2. \A c \in DOMAIN f : g[c] \in Store!Notice /\ g[c].events = f[c].events
  BY <1>1 DEF Store!Notice, Passed
<1>3. Store!IsNotices(g)
  BY <1>2 DEF Fits, Store!IsNotices, Passed
<1> QED
  BY <1>2, <1>3, SameConnectorsFit DEF Passed

(* The notices g that are left of f: the same events, and no dismissal that f did *)
(* not have.                                                                      *)
Outlived(f, g) ==
  /\ Fits(g) /\ DOMAIN g = DOMAIN f
  /\ \A c \in DOMAIN f :
       /\ g[c].events = f[c].events
       /\ g[c].dismissed # NotDismissed /\ g[c].dismissed.here
            => f[c].dismissed # NotDismissed /\ f[c].dismissed.here

(* The notices after some time. *)
LEMMA TickFits ==
  ASSUME NEW f, Fits(f), NEW time \in Nat, NEW g,
         g = [c \in DOMAIN f |-> [f[c] EXCEPT !.dismissed = Store!After(time, @)]]
  PROVE  Outlived(f, g)
<1>1. \A c \in DOMAIN f : f[c] \in Store!Notice
  BY DEF Fits, Store!IsNotices
<1>2. \A c \in DOMAIN f :
        /\ f[c].dismissed \in Store!Dismissal \cup {NotDismissed}
        /\ g[c] = [f[c] EXCEPT !.dismissed = Store!After(time, f[c].dismissed)]
        /\ g[c].dismissed = Store!After(time, f[c].dismissed)
  BY <1>1 DEF Store!Notice
<1>3. DOMAIN g = DOMAIN f /\ g = [c \in DOMAIN g |-> g[c]]
  OBVIOUS
<1>4. Fits(g) /\ \A c \in DOMAIN f : g[c].events = f[c].events
  <2>1. Passed(f, g)
    BY <1>2, <1>3, DismissalsPass DEF Passed
  <2> QED
    BY <2>1, PassedFit
<1>5. \A c \in DOMAIN f :
        g[c].dismissed # NotDismissed /\ g[c].dismissed.here
          => f[c].dismissed # NotDismissed /\ f[c].dismissed.here
  BY <1>2, DismissalsPass
<1> QED
  BY <1>3, <1>4, <1>5 DEF Outlived

(* The passing of a tick. *)
LEMMA TickKeeps ==
  ASSUME NoticeInv, Tick
  PROVE  NoticeInv'
<1>1. /\ notices' = [c \in DOMAIN notices |->
                      [notices[c] EXCEPT !.dismissed = Store!After(1, @)]]
      /\ UNCHANGED <<stored, condition, previous, seen>>
  BY DEF Tick, Store!Tick
<1>2. Fits(notices) /\ 1 \in Nat
  BY DEF NoticeInv
<1>3. Outlived(notices, notices')
  BY <1>1, <1>2, TickFits, Zenon
<1> QED
  BY <1>1, <1>3 DEF NoticeInv, Outlived

(* A snapshot, and a launch that starts from one. *)
LEMMA LaunchFits ==
  ASSUME NEW f, Fits(f), NEW time \in Nat, NEW g,
         g = [c \in DOMAIN f |-> [f[c] EXCEPT !.dismissed = Store!LeftBehind(@, time)]]
  PROVE  /\ Fits(g)
         /\ \A c \in DOMAIN g : ~ (g[c].dismissed # NotDismissed /\ g[c].dismissed.here)
<1>1. \A c \in DOMAIN f : f[c] \in Store!Notice
  BY DEF Fits, Store!IsNotices
<1>2. \A c \in DOMAIN f :
        /\ f[c].dismissed \in Store!Dismissal \cup {NotDismissed}
        /\ g[c] = [f[c] EXCEPT !.dismissed = Store!LeftBehind(f[c].dismissed, time)]
        /\ g[c].dismissed = Store!LeftBehind(f[c].dismissed, time)
  BY <1>1 DEF Store!Notice
<1>3. DOMAIN g = DOMAIN f /\ g = [c \in DOMAIN g |-> g[c]]
  OBVIOUS
<1>4. Fits(g)
  <2>1. Passed(f, g)
    BY <1>2, <1>3, DismissalsPass DEF Passed
  <2> QED
    BY <2>1, PassedFit
<1> QED
  BY <1>2, <1>3, <1>4, DismissalsPass

(* Every step keeps the invariant. *)
LEMMA NoticeInvNext == NoticeInv /\ [Next]_vars => NoticeInv'
<1> SUFFICES ASSUME NoticeInv, [Next]_vars PROVE NoticeInv'
  OBVIOUS
<1>1. ASSUME NEW c \in Connectors, ProviderChanges(c)
      PROVE  NoticeInv'
  <2>1. PICK now \in Conditions[c] : condition' = [condition EXCEPT ![c] = now]
    BY <1>1 DEF ProviderChanges
  <2>2. now \in AllConditions
    BY <2>1, ConnectorAssumption DEF AllConditions, Range
  <2>3. UNCHANGED <<notices, stored, previous, seen>>
    BY <1>1 DEF ProviderChanges, noticeVars
  <2> QED
    BY <2>1, <2>2, <2>3 DEF NoticeInv
<1>2. ASSUME NEW raw \in RawIds, HealthCheck(raw)
      PROVE  NoticeInv'
  <2>1. ConnectorId(raw) \in Connectors
    BY ConnectorAssumption DEF ConnectorId
  <2>2. condition[ConnectorId(raw)] \in Reports
    BY <2>1 DEF NoticeInv, Reports
  <2> QED
    BY <1>2, <2>1, <2>2, CheckKeeps DEF HealthCheck
<1>3. ASSUME NEW raw \in RawIds, GarbledCheck(raw)
      PROVE  NoticeInv'
  <2>1. ConnectorId(raw) \in Connectors
    BY ConnectorAssumption DEF ConnectorId
  <2>2. [condition[ConnectorId(raw)] EXCEPT !.health = NotADict] \in Reports
    BY <2>1 DEF NoticeInv, Reports
  <2> QED
    BY <1>3, <2>1, <2>2, CheckKeeps DEF GarbledCheck
<1>4. ASSUME NEW c \in Connectors, NEW snooze \in 0..MaxSnooze, UserDismisses(c, snooze)
      PROVE  NoticeInv'
  BY <1>4, DismissKeeps
<1>5. CASE Tick
  BY <1>5, TickKeeps
<1>6. CASE Persist
  <2>1. /\ stored' = [c \in DOMAIN notices |->
                       [notices[c] EXCEPT !.dismissed = Store!LeftBehind(@, 0)]]
        /\ UNCHANGED <<notices, condition, previous, seen>>
    BY <1>6 DEF Persist, Store!Persist
  <2>2. Fits(stored')
    BY <2>1, LaunchFits DEF NoticeInv
  <2> QED
    BY <2>1, <2>2 DEF NoticeInv
<1>7. CASE Relaunch
  <2>1. PICK time \in 0..MaxSnooze :
          notices' = [c \in DOMAIN stored |->
            [stored[c] EXCEPT !.dismissed = Store!LeftBehind(@, time)]]
    BY <1>7 DEF Relaunch, Store!Relaunch
  <2>2. /\ Fits(notices')
        /\ \A c \in DOMAIN notices' :
             ~ (notices'[c].dismissed # NotDismissed /\ notices'[c].dismissed.here)
    <3>1. Fits(stored) /\ time \in Nat
      BY NoticeAssumption DEF NoticeInv
    <3> QED
      BY <2>1, <3>1, LaunchFits, Zenon
  <2>3. /\ UNCHANGED <<stored, condition>>
        /\ previous' \in [Connectors -> Methods]
        /\ seen' \in [Connectors -> EventTuples \cup {Nothing}]
    BY <1>7 DEF Relaunch, Store!Relaunch, Methods
  <2> QED
    BY <2>2, <2>3 DEF NoticeInv
<1>8. CASE UNCHANGED vars
  BY <1>8 DEF vars, NoticeInv
<1> QED
  BY <1>1, <1>2, <1>3, <1>4, <1>5, <1>6, <1>7, <1>8 DEF Next

-----------------------------------------------------------------------------
(* Theorems *)

(* The invariant always holds. *)
THEOREM NoticeInvAlways == Spec => []NoticeInv
BY NoticeInvInit, NoticeInvNext, PTL DEF Spec

(* Notices, snapshots and what was seen are well-formed under any reports.        *)
THEOREM NoticesTypeCorrect == Spec => []TypeOK
<1>1. NoticeInv => TypeOK
  BY DEF NoticeInv, Fits, TypeOK, Store!TypeOK
<1> QED
  BY <1>1, NoticeInvAlways, PTL

(* A snapshot of the notices can always be restored: there is never one too many. *)
THEOREM SnapshotsFit == Spec => []SnapshotFits
<1>1. NoticeInv => SnapshotFits
  BY SameHelpers DEF NoticeInv, Fits, SnapshotFits, Store!SnapshotFits
<1> QED
  BY <1>1, NoticeInvAlways, PTL

(* What is hidden was seen and snoozed, as it is, in this launch: no change of     *)
(* events, no restart and no reconciliation hides what the user does not know of.  *)
THEOREM OnlyTheSeenIsHidden == Spec => []HiddenWasSeen
<1>1. NoticeInv => HiddenWasSeen
  BY DEF NoticeInv, HiddenWasSeen, HiddenNotice, Store!Hidden
<1> QED
  BY <1>1, NoticeInvAlways, PTL

=============================================================================
