--------------------------- MODULE MCScopedNotices ---------------------------
(***************************************************************************)
(* Instance of ScopedNotices for TLC: one connector in two scopes and a second *)
(* connector in the first of them, which reports with blanks around its id; a   *)
(* code with blanks and a blank one; room for two notices, so that a report is       *)
(* refused for the total, and for two codes of a report, so that one is refused *)
(* for its length although its codes become one.                                *)
(***************************************************************************)
EXTENDS ScopedNotices

MCStripped ==
  [label \in {"s1", "s2", "c1", "c2", " c2", "a", " a", "b"} |->
     CASE label = " c2" -> "c2" [] label = " a" -> "a" [] OTHER -> label]

MCRawOwners == { <<"s1", "c1">>, <<"s1", " c2">>, <<"s2", "c1">> }

MCCodeTuples ==
  { << >>, <<"a">>, <<"b", " a">>, <<" ">>, <<"b", "b", "b">> }
=============================================================================
