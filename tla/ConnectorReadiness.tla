-------------------------- MODULE ConnectorReadiness --------------------------
(***************************************************************************)
(* What Captain Settings derives from the report of one connector:            *)
(*   src/parking/connector_readiness.py     its state and what blocks it       *)
(*   src/parking/connector_remediation.py   the plan of actions for the user    *)
(*   src/parking/connector_notice_policy.py the notice code, if there is trouble *)
(*                                                                            *)
(* A report that is malformed raises and has no counterpart here; ids,          *)
(* permissions and checked_at pass through and are left out.                    *)
(***************************************************************************)
EXTENDS Sequences

CONSTANT NoCode

AUTH_METHODS == {"none", "oauth", "api_key", "id_based", "local_session"}
HEALTH_STATUSES == {"unknown", "healthy", "degraded", "blocked"}
AUTH_STATUSES == {"not_required", "unknown", "valid", "expired", "invalid", "reauth_required"}
VERSION_STATUSES == {"unknown", "current", "deprecated", "migration_required"}

(* A faulty normalisation, for the mutation runs: any status passes. *)
AnyEnum(value, allowed) == value

Enum(value, allowed) == IF value \in allowed THEN value ELSE "unknown"

(* The report with every field brought into its set: connected only if         *)
(* installed, enabled only if connected, an unknown method read as none.        *)
Normalised(report) ==
  LET connected == report.installed /\ report.connected
  IN  [installed |-> report.installed,
       connected |-> connected,
       enabled |-> connected /\ report.enabled,
       auth_method |-> IF report.auth_method \in AUTH_METHODS THEN report.auth_method ELSE "none",
       status |-> Enum(report.status, HEALTH_STATUSES),
       auth_status |-> Enum(report.auth_status, AUTH_STATUSES),
       version_status |-> Enum(report.version_status, VERSION_STATUSES)]

(* The status has to be the good one of the method, and the method a known one. *)
AuthOk(report) ==
  /\ report.auth_method \in AUTH_METHODS
  /\ report.auth_status = IF report.auth_method = "none" THEN "not_required" ELSE "valid"

When(condition, code) == IF condition THEN << code >> ELSE << >>

SetupBlocker(state) ==
  When(~ state.installed, "not_installed")
    \o When(state.installed /\ ~ state.connected, "not_connected")
    \o When(state.connected /\ ~ state.enabled, "disabled")

(* Faulty blockers: only the first is reported; a disabled connector is none. *)
FirstBlocker(state, report) ==
  SubSeq(SetupBlocker(state)
    \o When(~ AuthOk(report), "auth_unhealthy")
    \o When(state.status # "healthy", "health_unhealthy")
    \o When(state.version_status # "current", "provider_compatibility_unverified"), 1, 1)

BlockersButDisabled(state, report) ==
  When(~ state.installed, "not_installed")
    \o When(state.installed /\ ~ state.connected, "not_connected")
    \o When(report.auth_method \notin AUTH_METHODS, "auth_method_invalid")
    \o When(report.auth_method \in AUTH_METHODS /\ ~ AuthOk(report), "auth_unhealthy")
    \o When(state.status # "healthy", "health_unhealthy")
    \o When(state.version_status # "current", "provider_compatibility_unverified")

Blockers(state, report) ==
  SetupBlocker(state)
    \o When(report.auth_method \notin AUTH_METHODS, "auth_method_invalid")
    \o When(report.auth_method \in AUTH_METHODS /\ ~ AuthOk(report), "auth_unhealthy")
    \o When(state.status # "healthy", "health_unhealthy")
    \o When(state.version_status # "current", "provider_compatibility_unverified")

Ready(state, report) ==
  /\ state.enabled
  /\ state.status = "healthy"
  /\ AuthOk(report)
  /\ state.version_status = "current"

(* evaluate. *)
Evaluate(report) ==
  LET state == Normalised(report)
      ready == Ready(state, report)
  IN  [state |-> state, ready |-> ready,
       blockers |-> IF ready THEN << >> ELSE Blockers(state, report)]

-----------------------------------------------------------------------------

Actions ==
  [not_installed |-> "install", not_connected |-> "connect", disabled |-> "enable",
   auth_method_invalid |-> "review_setup", auth_unhealthy |-> "reconnect",
   health_unhealthy |-> "test_connection",
   provider_compatibility_unverified |-> "review_provider"]

(* remediation: one action per blocker in their order, an unknown blocker      *)
(* read as a review; evaluate has no two equal ones to make one of.             *)
Remediation(readiness) ==
  IF readiness.ready THEN << >>
  ELSE [i \in DOMAIN readiness.blockers |->
          IF readiness.blockers[i] \in DOMAIN Actions
            THEN Actions[readiness.blockers[i]] ELSE "review_setup"]

(* The code of the notice that notice_for makes: the first trouble in the      *)
(* order of the policy; a connector that is not ready may have none.            *)
NoticeCode(readiness) ==
  LET state == readiness.state
      codes ==
        When(state.auth_status = "expired", "auth_expired")
          \o When(state.auth_status = "invalid", "auth_invalid")
          \o When(state.auth_status = "reauth_required", "reauth_required")
          \o When(state.version_status = "migration_required", "migration_required")
          \o When(state.version_status = "deprecated", "provider_deprecated")
          \o When(state.installed /\ ~ state.connected, "setup_incomplete")
  IN  IF readiness.ready \/ codes = << >> THEN NoCode ELSE Head(codes)
=============================================================================
