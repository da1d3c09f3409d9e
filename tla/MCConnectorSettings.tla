------------------------- MODULE MCConnectorSettings -------------------------
(***************************************************************************)
(* Instance of ConnectorSettings for TLC: reports that meet every blocker and,  *)
(* with the steps of the plans, a notice of each kind; a stray connection is one  *)
(* of a connector that is not installed, outage, revoked and future_magic are      *)
(* values outside their sets.                                                      *)
(***************************************************************************)
EXTENDS ConnectorSettings

Connector(setup, method, auth, status, version) ==
  [installed |-> setup # "stray", connected |-> setup # "unconnected", enabled |-> setup # "disabled",
   auth_method |-> method, auth_status |-> auth, status |-> status, version_status |-> version]

MCReports ==
  { Connector("on", "oauth", "valid", "healthy", "current"),
    Connector("stray", "oauth", "expired", "outage", "current"),
    Connector("unconnected", "oauth", "invalid", "healthy", "migration_required"),
    Connector("disabled", "none", "revoked", "healthy", "deprecated"),
    Connector("on", "future_magic", "reauth_required", "healthy", "current") }
=============================================================================
