--------------------------- MODULE MemoryAuthority ---------------------------
(***************************************************************************)
(* The authority tuple of project memory (src/parking/memory_authority.py): *)
(* chat, project, repository scope and Project State epoch.  A raw         *)
(* authority is what a caller passes; Parse is the validation every memory  *)
(* operation begins with.                                                   *)
(*                                                                          *)
(* Texts stands for the strings callers use.  Stripping a text of its outer *)
(* blanks is the function Strip; UsableIds and UsableKeys are the stripped  *)
(* texts that are plain strings, not empty and within their length limit    *)
(* (256 characters for an id, 512 for a memory key).                        *)
(***************************************************************************)
EXTENDS Integers

CONSTANTS Texts, Strip, UsableIds, UsableKeys, Hashes, Malformed

ASSUME StripAssumption ==
  /\ Strip \in [Texts -> Texts]
  /\ \A t \in Texts : Strip[Strip[t]] = Strip[t]

ASSUME UsableAssumption ==
  /\ UsableIds \subseteq Texts
  /\ UsableKeys \subseteq Texts

(* What a caller may pass: texts that need not be usable, a hash field that *)
(* may or may not be a lowercase sha256 and an epoch that may be too small. *)
RawAuthority ==
  [chat_id : Texts, project_id : Texts, repo_scope_hash : Texts \cup Hashes,
   state_epoch : Int]

CleanIds == {t \in UsableIds : Strip[t] = t}

CleanKeys == {t \in UsableKeys : Strip[t] = t}

Epochs == {n \in Nat : n >= 1}

Authority ==
  [chat_id : CleanIds, project_id : CleanIds, repo_scope_hash : Hashes,
   state_epoch : Epochs]

ASSUME MalformedAssumption == Malformed \notin Authority

WellFormed(raw) ==
  /\ Strip[raw.chat_id] \in UsableIds
  /\ Strip[raw.project_id] \in UsableIds
  /\ raw.repo_scope_hash \in Hashes
  /\ raw.state_epoch >= 1

(* A faulty Parse, for the mutation runs: the epoch is taken to count from zero. *)
ParseEpochFromZero(raw) ==
  IF WellFormed(raw)
    THEN [chat_id |-> Strip[raw.chat_id], project_id |-> Strip[raw.project_id],
          repo_scope_hash |-> raw.repo_scope_hash, state_epoch |-> raw.state_epoch + 1]
    ELSE Malformed

(* MemoryAuthority.parse: the canonical tuple, or Malformed where the code raises. *)
Parse(raw) ==
  IF WellFormed(raw)
    THEN [chat_id |-> Strip[raw.chat_id], project_id |-> Strip[raw.project_id],
          repo_scope_hash |-> raw.repo_scope_hash, state_epoch |-> raw.state_epoch]
    ELSE Malformed

(* A faulty Permits: the epoch wall is missing. *)
PermitsAnyEpoch(auth, other) ==
  [auth EXCEPT !.state_epoch = other.state_epoch] = other

Permits(auth, other) == auth = other

SameScope(a, b) ==
  /\ a.chat_id = b.chat_id
  /\ a.project_id = b.project_id
  /\ a.repo_scope_hash = b.repo_scope_hash
=============================================================================
