--------------------------- MODULE ConnectorNotices ---------------------------
(***************************************************************************)
(* Connector health inside Captain: providers whose condition changes, the    *)
(* health monitor that compares their reports (ConnectorHealth), the notices   *)
(* that follow (NoticeStore), the user who snoozes what is shown, the clock    *)
(* and Captain's launches.  Providers, user and clock are not under src/; the  *)
(* arguments of evaluate, reconcile, dismiss and visible are what is known of  *)
(* them.                                                                       *)
(***************************************************************************)
EXTENDS ConnectorHealth

CONSTANTS
  Connectors, Conditions,   \* valid connector ids; what the provider of each may truthfully report
  RawIds, Strip,            \* the ids that reports carry, and the text of an id without outer blanks
  EventTuples, MaxNotices, MaxSnooze, NotDismissed, Nothing

ASSUME ConnectorAssumption ==
  /\ Strip \in [RawIds -> Connectors]
  /\ DOMAIN Conditions = Connectors
  /\ NoReport \notin KnownAuth

ASSUME NoticeAssumption ==
  /\ MaxNotices \in Nat \ {0}
  /\ MaxSnooze \in Nat
  /\ << >> \in EventTuples

(* What providers may truthfully report, what may reach the monitor of it, and  *)
(* the methods it is compared with.                                             *)
AllConditions == UNION Range(Conditions)

Reports == AllConditions \cup {[report EXCEPT !.health = NotADict] : report \in AllConditions}

Methods == {NoReport} \cup {report.auth_method : report \in Reports}

ASSUME EventAssumption ==
  \A old \in Methods, report \in Reports : Evaluate(old, report) \in EventTuples

VARIABLES
  notices, stored,   \* the store and its last snapshot
  condition,         \* the true condition of each provider
  previous,          \* the auth method of the report the next one is compared with
  seen               \* history: the events the user dismissed, in this launch

noticeVars == <<notices, stored>>
vars == <<notices, stored, condition, previous, seen>>

Store == INSTANCE NoticeStore

Init ==
  /\ Store!Init
  /\ condition \in {f \in [Connectors -> AllConditions] : \A c \in Connectors : f[c] \in Conditions[c]}
  /\ previous = [c \in Connectors |-> NoReport]
  /\ seen = [c \in Connectors |-> Nothing]

ProviderChanges(c) ==
  /\ \E now \in Conditions[c] : condition' = [condition EXCEPT ![c] = now]
  /\ UNCHANGED <<noticeVars, previous, seen>>

(* evaluate and then reconcile, for one report of a connector.  At capacity   *)
(* reconcile raises for a connector without a notice, and the store stays.     *)
Check(c, report) ==
  LET events == Evaluate(previous[c], report)
  IN  /\ \/ Store!Reconcile(c, events, events # << >>)
         \/ events # << >> /\ ~ Store!HasRoom(c) /\ UNCHANGED noticeVars
      /\ previous' = [previous EXCEPT ![c] = report.auth_method]
      /\ UNCHANGED <<condition, seen>>

(* evaluate strips the connector id of its report before it checks it. *)
ConnectorId(raw) == Strip[raw]

HealthCheck(raw) == Check(ConnectorId(raw), condition[ConnectorId(raw)])

(* The provider's answer carries no usable health: an error page, a timeout. *)
GarbledCheck(raw) ==
  Check(ConnectorId(raw), [condition[ConnectorId(raw)] EXCEPT !.health = NotADict])

(* Settings offers a snooze for the notices it shows. *)
UserDismisses(c, snooze) ==
  /\ c \in Store!Visible
  /\ Store!Dismiss(c, snooze)
  /\ seen' = [seen EXCEPT ![c] = notices[c].events]
  /\ UNCHANGED <<condition, previous>>

Tick == Store!Tick /\ UNCHANGED <<condition, previous, seen>>

Persist == Store!Persist /\ UNCHANGED <<condition, previous, seen>>

(* Captain ends and starts again: reports seen and snoozes made are forgotten. *)
Relaunch ==
  /\ Store!Relaunch
  /\ previous' = [c \in Connectors |-> NoReport]
  /\ seen' = [c \in Connectors |-> Nothing]
  /\ UNCHANGED condition

Next ==
  \/ \E c \in Connectors : ProviderChanges(c)
  \/ \E raw \in RawIds : HealthCheck(raw)
  \/ \E raw \in RawIds : GarbledCheck(raw)
  \/ \E c \in Connectors, snooze \in 0..MaxSnooze : UserDismisses(c, snooze)
  \/ Tick
  \/ Persist
  \/ Relaunch

Spec == Init /\ [][Next]_vars

(* Time passes, and Captain goes on checking every connector. *)
FairSpec ==
  /\ Spec
  /\ WF_vars(Tick)
  /\ \A c \in Connectors : WF_vars(\E raw \in RawIds : Strip[raw] = c /\ HealthCheck(raw))

-----------------------------------------------------------------------------

(* The store never holds more notices than a snapshot may have rows: what is  *)
(* persisted can always be restored, although no step of a check counts rows   *)
(* and a refused notice is tried again.                                        *)
SnapshotFits == Store!SnapshotFits

HiddenNotice(c) == c \in DOMAIN notices /\ Store!Hidden(c)

Broken(c) == condition[c].health.auth_status \in BadAuth

Sound(c) == Evaluate(condition[c].auth_method, condition[c]) = << >>

TypeOK ==
  /\ Store!TypeOK
  /\ \A c \in Connectors : condition[c] \in Conditions[c]
  /\ \A c \in Connectors : seen[c] \in EventTuples \cup {Nothing}

(* A notice is only ever hidden for what its user has seen: if Settings leaves *)
(* it out, the user was shown these very events and snoozed them in this very  *)
(* launch.  Events that came later, a restart, or a notice that went and came   *)
(* back all show.                                                               *)
HiddenWasSeen == \A c \in Connectors : HiddenNotice(c) => seen[c] = notices[c].events

(* A snoozed notice does not stay hidden: the interval passes, the launch ends, *)
(* the events change or the problem is resolved.                                *)
NoticeReappears == \A c \in Connectors : HiddenNotice(c) ~> ~ HiddenNotice(c)

(* Once a provider is sound for good its notice goes, with no one to clear it. *)
ResolutionClears ==
  \A c \in Connectors : <>[]Sound(c) => []<>(c \notin DOMAIN notices)

(* A provider that stays broken gets its notice while those that compete for   *)
(* the room are sound and their notices no longer in the snapshot: the room     *)
(* frees itself, with no eviction, and no restart or report that hid the trouble *)
(* loses the notice for good.                                                    *)
BrokenIsNoticed ==
  \A c \in Connectors :
    (<>[]Broken(c) /\ \A d \in Connectors \ {c} : <>[](Sound(d) /\ d \notin DOMAIN stored))
      => []<>(c \in DOMAIN notices)

(* The regression of the health monitor that rejects a connector id with blanks *)
(* around it: a notice belongs to a connector that was reported by its id.       *)
PaddedIdsRejected == DOMAIN notices \subseteq RawIds
=============================================================================
