----------------------------- MODULE NoticeStore -----------------------------
(***************************************************************************)
(* The remediation notices of Captain Settings                               *)
(* (src/parking/connector_notice_state.py): at most one notice per connector, *)
(* which its owner may snooze for a while within one launch.                  *)
(*                                                                            *)
(* Time is kept relative.  A dismissal is what is left of its interval         *)
(* (dismissed_until - now, no less than zero) and whether it was made in the   *)
(* current launch (dismissed_launch = launch_id): that is all visible looks    *)
(* at.  Launch ids are taken to be different from launch to launch and the     *)
(* clock not to run backwards; both are the caller's, not the store's.         *)
(* ConnectorNotices composes the store with its callers.                       *)
(***************************************************************************)
EXTENDS Integers, Sequences, FiniteSets, FiniteSetsExt, Functions

CONSTANTS
  Connectors,      \* valid connector ids
  EventTuples,     \* the event tuples health results may carry, the empty one included
  MaxNotices,      \* MAX_NOTICES
  MaxSnooze,       \* MAX_SNOOZE_SECONDS, in units of a tick
  NotDismissed

VARIABLES
  notices,   \* NoticeStore._notices: connector -> notice
  stored     \* the last snapshot persisted

noticeVars == <<notices, stored>>

Dismissal == [left : 0..MaxSnooze, here : BOOLEAN]

Notice == [events : EventTuples \ {<< >>}, dismissed : Dismissal \cup {NotDismissed}]

NoNotices == [c \in {} |-> NotDismissed]

With(f, c, notice) == [d \in DOMAIN f \cup {c} |-> IF d = c THEN notice ELSE f[d]]

Init == notices = NoNotices /\ stored = NoNotices

(* A faulty capacity: off by one. *)
RoomForOneMore(c) == c \in DOMAIN notices \/ Cardinality(DOMAIN notices) <= MaxNotices

HasRoom(c) == c \in DOMAIN notices \/ Cardinality(DOMAIN notices) < MaxNotices

(* A faulty snooze: kept whatever the events. *)
SnoozeWhatever(c, events) ==
  IF c \in DOMAIN notices THEN notices[c].dismissed ELSE NotDismissed

(* A snooze survives only while the events stay exactly the same, order included. *)
SnoozeKept(c, events) ==
  IF c \in DOMAIN notices /\ notices[c].events = events
    THEN notices[c].dismissed ELSE NotDismissed

Kept(c, events) ==
  With(notices, c, [events |-> events, dismissed |-> SnoozeKept(c, events)])

(* Faulty reconciliations, for the mutation runs: nothing is cleared; a notice *)
(* without events is kept.                                                     *)
ReconcileClearingNothing(c, events, important) ==
  /\ important /\ events # << >>
  /\ HasRoom(c)
  /\ notices' = Kept(c, events)
  /\ UNCHANGED stored

ReconcileKeepingEmpty(c, events, important) ==
  /\ HasRoom(c)
  /\ notices' = Kept(c, events)
  /\ UNCHANGED stored

(* reconcile, with a health result that passed its validation; at capacity a  *)
(* new connector's notice is refused.                                          *)
Reconcile(c, events, important) ==
  /\ \/ /\ ~ important \/ events = << >>
        /\ notices' = Restrict(notices, DOMAIN notices \ {c})
     \/ /\ important /\ events # << >>
        /\ HasRoom(c)
        /\ notices' = Kept(c, events)
  /\ UNCHANGED stored

(* dismiss: too long an interval is refused, an unknown connector ignored, and *)
(* a notice already dismissed is dismissed anew.                              *)
Dismiss(c, snooze) ==
  /\ snooze <= MaxSnooze
  /\ notices' =
       IF c \in DOMAIN notices
         THEN [notices EXCEPT ![c].dismissed = [left |-> snooze, here |-> TRUE]]
         ELSE notices
  /\ UNCHANGED stored

(* A faulty test: the interval is not looked at. *)
HiddenForThisLaunch(c) ==
  /\ notices[c].dismissed # NotDismissed
  /\ notices[c].dismissed.here

(* visible leaves out exactly the notices dismissed in this launch whose      *)
(* interval has not passed.                                                    *)
Hidden(c) ==
  /\ notices[c].dismissed # NotDismissed
  /\ notices[c].dismissed.left > 0
  /\ notices[c].dismissed.here

Visible == {c \in DOMAIN notices : ~ Hidden(c)}

(* The passing of time, and with it of every interval. *)
After(time, dismissal) ==
  IF dismissal = NotDismissed THEN dismissal
  ELSE [dismissal EXCEPT !.left = Max({0, @ - time})]

Tick ==
  /\ notices' = [c \in DOMAIN notices |-> [notices[c] EXCEPT !.dismissed = After(1, @)]]
  /\ UNCHANGED stored

(* A dismissal as a later launch finds it. *)
LeftBehind(dismissal, time) ==
  IF dismissal = NotDismissed THEN dismissal
  ELSE [After(time, dismissal) EXCEPT !.here = FALSE]

(* snapshot, with the result stored; it is only read by a later launch. *)
Persist ==
  /\ stored' = [c \in DOMAIN notices |-> [notices[c] EXCEPT !.dismissed = LeftBehind(@, 0)]]
  /\ UNCHANGED notices

(* The process ends and the next launch starts from the stored snapshot, after *)
(* any length of time; from_snapshot refuses more rows than its budget.        *)
Relaunch ==
  /\ Cardinality(DOMAIN stored) <= MaxNotices
  /\ \E time \in 0..MaxSnooze :
       notices' = [c \in DOMAIN stored |->
         [stored[c] EXCEPT !.dismissed = LeftBehind(@, time)]]
  /\ UNCHANGED stored

-----------------------------------------------------------------------------

IsNotices(f) ==
  /\ DOMAIN f \subseteq Connectors
  /\ f \in [DOMAIN f -> Notice]

TypeOK == IsNotices(notices) /\ IsNotices(stored)

(* The store never holds more notices than a snapshot may have rows, so what  *)
(* is persisted can always be restored, whatever came in between.              *)
SnapshotFits ==
  /\ Cardinality(DOMAIN notices) <= MaxNotices
  /\ Cardinality(DOMAIN stored) <= MaxNotices
=============================================================================
