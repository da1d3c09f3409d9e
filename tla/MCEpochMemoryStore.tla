------------------------- MODULE MCEpochMemoryStore -------------------------
(***************************************************************************)
(* Instance of MemoryViews for TLC: three epochs of one scope, so that an     *)
(* advance may jump over one, and a scope that differs only in the repository *)
(* hash; padded spellings of an id and of a key, a malformed authority, an     *)
(* over-budget payload, room for two of three keys and for two of four         *)
(* authorities in a snapshot, so that every limit is met.  RichAuthority alone  *)
(* is given the last key, and payloads to tell apart under one key (a            *)
(* replacement is one of them by another), and LastEpoch has one key.  MaxHeld    *)
(* bounds the records in memory and on disk together, but for a snapshot just      *)
(* taken.                                                                           *)
(***************************************************************************)
EXTENDS MemoryViews

CONSTANTS MaxHeld, PlainPayload, VariedKey, LastKey

MCTexts == {"c", " c ", "p", "k", " k", "m", "n"}
MCStrip == [t \in MCTexts |->
  CASE t = " c " -> "c" [] t = " k" -> "k" [] OTHER -> t]
MCIds == {"c", "p"}
MCKeys == {"k", "m", "n"}
MCRawKeys == {"k", " k", "m", "n"}

Raw(chat, hash, epoch) ==
  [chat_id |-> chat, project_id |-> "p", repo_scope_hash |-> hash, state_epoch |-> epoch]

MCRawAuthorities ==
  {Raw("c", "h1", 1), Raw(" c ", "h1", 2), Raw("c", "h1", 3), Raw("c", "h2", 1),
   Raw("c", "h1", 0)}

LastEpoch == 3

RichAuthority == Parse(Raw("c", "h1", 1))

HeldBound ==
  /\ \/ Len(records) + Len(disk) <= MaxHeld
     \/ disk = records /\ Len(records) < MaxHeld
  /\ \A i \in DOMAIN records :
       LET r == records[i]
       IN  /\ r.payload = PlainPayload \/ (r.authority = RichAuthority /\ r.key = VariedKey)
           /\ r.key # LastKey \/ r.authority = RichAuthority
           /\ r.key = VariedKey \/ r.authority.state_epoch < LastEpoch

(* The calls that stay within the bound. *)
BoundedNext == StoreNext /\ HeldBound'

BoundedSpec == StoreInit /\ [][BoundedNext]_storeVars
=============================================================================
