----------------------------- MODULE NoticeBook -----------------------------
(***************************************************************************)
(* What the scoped notices of Captain Settings promise, without saying how    *)
(* they are kept: a page per connector of a scope and code, on which a notice  *)
(* begins when its code is first reported, may be snoozed, and ends with the   *)
(* report that no longer has the code; and a saved copy of the book.           *)
(***************************************************************************)
EXTENDS Integers

CONSTANTS
  Pages,    \* where a notice may stand
  Owners,   \* who reports: for each, the pages that are theirs
  Reminder, None, NoNotice

VARIABLES book, copy, now

Init ==
  /\ book = [page \in Pages |-> NoNotice]
  /\ copy = book
  /\ now = 0

Noted(page) ==
  IF book[page] = NoNotice THEN [first_seen |-> now, snoozed_until |-> None] ELSE book[page]

(* The book after a report: the pages of its owner are those it names, where a   *)
(* notice that goes on keeps its age and its snooze, and no other page changes.    *)
Reported(owner, named) ==
  [page \in Pages |->
     IF page \in named THEN Noted(page)
     ELSE IF page \in owner THEN NoNotice
     ELSE book[page]]

Report(owner) ==
  /\ \E named \in SUBSET owner : book' = Reported(owner, named)
  /\ UNCHANGED <<copy, now>>

Snooze(page) ==
  /\ book[page] # NoNotice
  /\ book' = [book EXCEPT ![page].snoozed_until = now + Reminder]
  /\ UNCHANGED <<copy, now>>

Save == copy' = book /\ UNCHANGED <<book, now>>

Reload == book' = copy /\ UNCHANGED <<copy, now>>

Tick == now' = now + 1 /\ UNCHANGED <<book, copy>>

Next ==
  \/ \E owner \in Owners : Report(owner)
  \/ \E page \in Pages : Snooze(page)
  \/ Save
  \/ Reload
  \/ Tick

Spec == Init /\ [][Next]_<<book, copy, now>>
=============================================================================
