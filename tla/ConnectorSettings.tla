-------------------------- MODULE ConnectorSettings --------------------------
(***************************************************************************)
(* One project-bound connector in Captain Settings: a provider whose reports   *)
(* change, Captain's checks that turn a report into a plan and a notice         *)
(* (ConnectorReadiness and src/parking/connector_notice_policy.py), the user     *)
(* who snoozes what is shown or follows the plan, and Project State, whose       *)
(* epoch the connector's notices are bound to.  Provider, user and Project        *)
(* State are not under src/.                                                     *)
(*                                                                            *)
(* Time is kept relative: a dismissal is its age, up to the default reminder    *)
(* after which no reader looks at it, and remind_after is how far ahead it is,    *)
(* zero once it is past.                                                         *)
(***************************************************************************)
EXTENDS ConnectorReadiness, Naturals, Functions

CONSTANTS
  Reports,           \* what the provider may report
  DefaultReminder,   \* DEFAULT_REMINDER, in ticks
  MaxRemindAfter,    \* bound on how far ahead a provider's remind_after is
  MaxEpoch,          \* bound on the epochs Project State reaches
  NoReminder, MalformedReminder, NoNotice, NotDismissed

ASSUME TimesAssumption == DefaultReminder \in Nat /\ MaxRemindAfter \in Nat

ASSUME EpochAssumption == MaxEpoch \in Nat \ {0}

VARIABLES
  report,      \* the provider's report at the moment
  remind,      \* the remind_after in the remediation of the report
  epoch,       \* the current Project State epoch
  plan,        \* the actions of the last check
  notice,      \* the notice of the last check
  dismissed    \* how long ago the user dismissed it

vars == <<report, remind, epoch, plan, notice, dismissed>>

world == <<report, remind, epoch>>

Reminder == 0..MaxRemindAfter \cup {NoReminder}

IMPORTANT ==
  {"auth_expired", "auth_invalid", "reauth_required",
   "provider_deprecated", "migration_required", "setup_incomplete"}

Notice == [code : IMPORTANT, remind_after : Reminder, state_epoch : 1..MaxEpoch]

Init ==
  /\ report \in Reports
  /\ remind = NoReminder
  /\ epoch = 1
  /\ plan = << >>
  /\ notice = NoNotice
  /\ dismissed = NotDismissed

ProviderChanges ==
  /\ report' \in Reports
  /\ remind' \in {NoReminder, MalformedReminder, MaxRemindAfter}
  /\ UNCHANGED <<epoch, plan, notice, dismissed>>

AdvanceProjectState ==
  /\ epoch < MaxEpoch
  /\ epoch' = epoch + 1
  /\ UNCHANGED <<report, remind, plan, notice, dismissed>>

(* notice_for, which raises for a malformed remind_after only when a notice is due. *)
NoticeFor(readiness) ==
  IF NoticeCode(readiness) = NoCode THEN NoNotice
  ELSE [code |-> NoticeCode(readiness), remind_after |-> remind, state_epoch |-> epoch]

NoticeRaises(readiness) == NoticeCode(readiness) # NoCode /\ remind = MalformedReminder

(* Captain checks the connector; a check that raises changes nothing.  A        *)
(* dismissal is kept while the notice keeps its code.                            *)
Check ==
  LET readiness == Evaluate(report)
  IN  /\ ~ NoticeRaises(readiness)
      /\ plan' = Remediation(readiness)
      /\ notice' = NoticeFor(readiness)
      /\ dismissed' =
           IF notice # NoNotice /\ NoticeCode(readiness) = notice.code
             THEN dismissed ELSE NotDismissed
      /\ UNCHANGED world

(* A faulty test, for the mutation runs: without a reminder of the provider's a *)
(* dismissal lasts.                                                             *)
HiddenUntilProvider == dismissed # NotDismissed /\ notice.remind_after # 0

HiddenByDismissal ==
  /\ dismissed # NotDismissed
  /\ IF notice.remind_after = NoReminder
       THEN dismissed < DefaultReminder
       ELSE notice.remind_after > 0

(* visible, asked under the current Project State. *)
Visible ==
  /\ notice # NoNotice
  /\ notice.state_epoch = epoch
  /\ ~ HiddenByDismissal

UserDismisses ==
  /\ Visible
  /\ dismissed' = 0
  /\ UNCHANGED <<world, plan, notice>>

(* What following an action of the plan makes of the connector. *)
Followed(action) ==
  CASE action = "install"         -> [report EXCEPT !.installed = TRUE]
    [] action = "connect"         -> [report EXCEPT !.connected = TRUE]
    [] action = "enable"          -> [report EXCEPT !.enabled = TRUE]
    [] action = "review_setup"    -> [report EXCEPT !.auth_method = "oauth"]
    [] action = "reconnect"       ->
         [report EXCEPT !.auth_status = IF report.auth_method = "none" THEN "not_required" ELSE "valid"]
    [] action = "test_connection" -> [report EXCEPT !.status = "healthy"]
    [] action = "review_provider" -> [report EXCEPT !.version_status = "current"]

UserFollowsPlan ==
  /\ plan # << >>
  /\ report' = Followed(Head(plan))
  /\ UNCHANGED <<remind, epoch, plan, notice, dismissed>>

Nearer(left) == IF left \in 1..MaxRemindAfter THEN left - 1 ELSE left

Tick ==
  /\ remind' = Nearer(remind)
  /\ notice' = IF notice = NoNotice THEN NoNotice ELSE [notice EXCEPT !.remind_after = Nearer(@)]
  /\ dismissed' =
       IF dismissed = NotDismissed \/ dismissed = DefaultReminder THEN dismissed ELSE dismissed + 1
  /\ UNCHANGED <<report, epoch, plan>>

Next ==
  \/ ProviderChanges
  \/ AdvanceProjectState
  \/ Check
  \/ UserDismisses
  \/ UserFollowsPlan
  \/ Tick

Spec == Init /\ [][Next]_vars

(* Time passes and Captain goes on checking; the user need not do anything. *)
FairSpec == Spec /\ WF_vars(Tick) /\ WF_vars(Check)

-----------------------------------------------------------------------------

TypeOK ==
  /\ Normalised(report).status \in HEALTH_STATUSES
  /\ Normalised(report).auth_status \in AUTH_STATUSES
  /\ Normalised(report).version_status \in VERSION_STATUSES
  /\ remind \in Reminder \cup {MalformedReminder}
  /\ epoch \in 1..MaxEpoch
  /\ Range(plan) \subseteq Range(Actions)
  /\ notice \in Notice \cup {NoNotice}
  /\ dismissed \in 0..DefaultReminder \cup {NotDismissed}

Remedies ==
  [auth_expired |-> {"reconnect", "review_setup"}, auth_invalid |-> {"reconnect", "review_setup"},
   reauth_required |-> {"reconnect", "review_setup"}, migration_required |-> {"review_provider"},
   provider_deprecated |-> {"review_provider"}, setup_incomplete |-> {"connect"}]

(* The two modules that look at a connector agree: whatever a notice complains  *)
(* of, the plan of the same check has an action that answers it, so no notice    *)
(* leads to a Settings page with nothing to do about it.                          *)
NoticeHasRemedy ==
  notice # NoNotice => Remedies[notice.code] \cap Range(plan) # {}

(* The plan is enough: once the provider changes no more, a user who goes on     *)
(* following its first action gets the connector ready and the notice away for     *)
(* good, from any state and whatever came first.  A malformed remind_after is the   *)
(* exception, since no check gets past it.                                           *)
PlanSuffices ==
  WF_vars(UserFollowsPlan) /\ <>[][~ ProviderChanges]_vars /\ <>[](remind # MalformedReminder)
    => <>[](Evaluate(report).ready /\ notice = NoNotice)

Broken == Normalised(report).auth_status \in {"expired", "invalid", "reauth_required"}

(* A connector whose authorisation stays broken is shown again and again under   *)
(* the current epoch, through every dismissal and after every epoch change, as    *)
(* long as its provider does not for ever put the reminder off or garble it.       *)
BrokenIsShown == <>[](Broken /\ remind \in {NoReminder, 0}) => []<>Visible
=============================================================================
