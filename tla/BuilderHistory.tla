--------------------------- MODULE BuilderHistory ---------------------------
(***************************************************************************)
(* What a builder session promises its owner about checkpoints: the work is  *)
(* edited freely, a checkpoint pushes it on a stack, and a rollback to any   *)
(* level of the stack brings back exactly the work saved there and forgets   *)
(* the levels above.  A closed session never changes again.                  *)
(***************************************************************************)
EXTENDS Integers, Sequences

CONSTANTS Work, EmptyWork, NoWork, MaxLevels

VARIABLES open, work, stack

vars == <<open, work, stack>>

Init == open = FALSE /\ work = NoWork /\ stack = << >>

(* A session begins once, with nothing done and that nothing already saved. *)
Open ==
  /\ stack = << >>
  /\ open' = TRUE
  /\ work' = EmptyWork
  /\ stack' = << EmptyWork >>

Edit ==
  /\ open
  /\ work' \in Work
  /\ UNCHANGED <<open, stack>>

Push ==
  /\ open
  /\ Len(stack) < MaxLevels
  /\ stack' = Append(stack, work)
  /\ UNCHANGED <<open, work>>

PopTo(level) ==
  /\ open
  /\ work' = stack[level]
  /\ stack' = SubSeq(stack, 1, level)
  /\ UNCHANGED open

Close ==
  /\ open
  /\ open' = FALSE
  /\ UNCHANGED <<work, stack>>

Next ==
  \/ Open
  \/ Edit
  \/ Push
  \/ \E level \in 1..Len(stack) : PopTo(level)
  \/ Close

Spec == Init /\ [][Next]_vars
=============================================================================
