------------------------- MODULE MCConnectorNotices -------------------------
(***************************************************************************)
(* Instance of ConnectorNotices for TLC: two connectors and room for one       *)
(* notice.  The first provider is sound, or has moved to another method, with a  *)
(* changed setup and deprecated; the second is sound, or its token is revoked.    *)
(***************************************************************************)
EXTENDS ConnectorNotices

Provider(method, auth, version, setup) ==
  [auth_method |-> method,
   health |-> [auth_status |-> auth, version_status |-> version, setup_status |-> setup]]

SoundProvider == Provider("oauth", "valid", "current", "same")
MovedProvider == Provider("api_key", "valid", "deprecated", "changed")
RevokedProvider == Provider("oauth", "revoked", "current", "same")

MCConditions ==
  [c \in Connectors |->
     {SoundProvider, IF c = "c1" THEN MovedProvider ELSE RevokedProvider}]

MCKnownAuth == {"none", "oauth", "api_key", "id_based", "local_session"}

MCStrip == [raw \in RawIds |-> IF raw = " c1 " THEN "c1" ELSE IF raw = " c2 " THEN "c2" ELSE raw]

MCEventTuples ==
  {<< >>} \cup {Evaluate(old, new) : old \in Methods, new \in Reports}
=============================================================================
