--------------------------- MODULE ConnectorHealth ---------------------------
(***************************************************************************)
(* The connector health monitor (src/parking/connector_health_monitor.py):   *)
(* the event codes that the last two reports of a provider give rise to.      *)
(*                                                                            *)
(* A report is [auth_method, health]; health is NotADict, which the monitor    *)
(* reads as an empty one, or the three statuses it looks at.  Of the previous  *)
(* report only the method matters: NoReport if there was none.  Only the       *)
(* events are returned: important is true exactly when there are some, since   *)
(* every code is an important one, and the deep link is made of the id.        *)
(***************************************************************************)
EXTENDS SequencesExt

CONSTANTS KnownAuth, NotADict, NoReport

BadAuth == {"expired", "invalid", "revoked"}

OldVersions == {"deprecated", "unsupported"}

(* A field of the health dict; any other value than a string reads as none. *)
Status(report, field) == IF report.health = NotADict THEN "none" ELSE report.health[field]

When(condition, code) == IF condition THEN << code >> ELSE << >>

Migrated(previous, current) ==
  /\ previous \in KnownAuth
  /\ current.auth_method \in KnownAuth
  /\ previous # current.auth_method

(* A faulty monitor, for the mutation runs: the authorisation is not looked at. *)
EvaluateWithoutAuth(previous, current) ==
  When(Status(current, "version_status") \in OldVersions, "provider_deprecated")
    \o When(Status(current, "setup_status") = "changed", "setup_changed")
    \o When(Migrated(previous, current), "auth_method_migration")

(* evaluate: the codes in the order the monitor tests for them, the first of *)
(* equal ones kept.                                                           *)
Evaluate(previous, current) ==
  LET found ==
        When(current.auth_method \notin KnownAuth, "setup_changed")
          \o When(Status(current, "auth_status") \in BadAuth, "auth_expired")
          \o When(Status(current, "version_status") \in OldVersions, "provider_deprecated")
          \o When(Status(current, "setup_status") = "changed", "setup_changed")
          \o When(Migrated(previous, current), "auth_method_migration")
      AddOnce(codes, code) == IF Contains(codes, code) THEN codes ELSE Append(codes, code)
  IN  FoldLeft(AddOnce, << >>, found)
=============================================================================
