----------------------------- MODULE ResumeGuard -----------------------------
(***************************************************************************)
(* Whether a saved resume delta may be used                                    *)
(* (src/parking/repo_reality_resume_guard.py).  A delta carries the scope it     *)
(* was saved under, the head it was observed at and what its builder claims of   *)
(* its freshness; one whose shape, paths or sizes are out of bounds is never      *)
(* usable and is left out, and so is the base, which nothing is compared with.    *)
(***************************************************************************)

(* A faulty guard, for the mutation runs: the claim stands for the epoch. *)
UsableOnClaim(saved, current) ==
  /\ saved.scope.owner = current.scope.owner
  /\ saved.scope.builder_session_id = current.scope.builder_session_id
  /\ saved.head = current.head
  /\ saved.claims_fresh

(* resume_delta_usable: the five walls and the head are those of the moment, and *)
(* the claims must hold as well as the comparison.                               *)
ResumeDeltaUsable(saved, current) ==
  /\ saved.scope = current.scope
  /\ saved.head = current.head
  /\ saved.claims_fresh
=============================================================================
