------------------------- MODULE BuilderSessionStack -------------------------
(***************************************************************************)
(* A builder session seen as the stack of checkpoints of BuilderHistory: the  *)
(* refinement mapping, for the session of one id.                             *)
(***************************************************************************)
EXTENDS BuilderRuntime, Sequences

CONSTANTS
  HistorySid,   \* the session id that is looked at
  NoWork        \* what stands for the work of a session that was never created

(* The work a session may hold: files and a log within the quotas. *)
Works ==
  {[files |-> f, logs |-> n] : f \in {g \in Files : FilesWithinQuota(g)}, n \in 0..MaxLogEvents}

WorkOf(s) == [files |-> s.files, logs |-> s.logs]

Saved(s) ==
  [i \in 1..(s.checkpoint + 1) |-> [files |-> s.snapshots[i - 1].files,
                                    logs |-> s.snapshots[i - 1].log_len]]

History == INSTANCE BuilderHistory WITH
  Work <- Works, EmptyWork <- [files |-> NoFiles, logs |-> 0], MaxLevels <- MaxCheckpoints,
  open <- HistorySid \in Live /\ ~ sessions[HistorySid].stopped,
  work <- IF HistorySid \in Live THEN WorkOf(sessions[HistorySid]) ELSE NoWork,
  stack <- IF HistorySid \in Live THEN Saved(sessions[HistorySid]) ELSE << >>

(* A session is a stack of checkpoints: a checkpoint saves the files and the  *)
(* log as they are, a rollback brings back exactly what was saved at that     *)
(* level whatever was written, deleted, run or rolled back since, no edit     *)
(* reaches a saved level, and the work never exceeds its quotas.              *)
CheckpointsAreAStack == History!Spec
=============================================================================
