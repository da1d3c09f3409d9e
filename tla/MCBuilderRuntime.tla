-------------------------- MODULE MCBuilderRuntime --------------------------
(***************************************************************************)
(* Instance of BuilderRuntime for TLC: two session ids, two owners, two       *)
(* epochs of one owner and a malformed scope.  RichScope is the one scope     *)
(* whose session is given files, logs and checkpoints up to every quota; the   *)
(* sessions of the others stay bare, but may be created, previewed and stopped *)
(* around it.  There is a path more than files fit; the paths are              *)
(* interchangeable.                                                            *)
(***************************************************************************)
EXTENDS BuilderSessionStack, TLC

S(owner, sid, epoch) == [owner |-> owner, builder_session_id |-> sid, state_epoch |-> epoch]

MCOwners == {"a", "b"}
MCSids == {"s1", "s2"}
MCScopes ==
  {S("a", "s1", 7), S("a", "s1", 8), S("b", "s1", 7), S("a", "s2", 7), S("a", "s1", -1)}

RichScope == S("a", HistorySid, 7)

MCSize == [c \in Contents |-> CASE c = "empty" -> 0 [] c = "small" -> 1
                                [] c = "large" -> 2 [] OTHER -> 3]

Interchangeable == Permutations(Paths)

OthersBare ==
  \A sid \in Live :
    sessions[sid].scope # RichScope =>
      sessions[sid].files = NoFiles /\ sessions[sid].logs = 0 /\ sessions[sid].checkpoint = 0
=============================================================================
