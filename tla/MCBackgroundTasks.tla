------------------------- MODULE MCBackgroundTasks -------------------------
(***************************************************************************)
(* Two tasks of one command: the second can start once the first is over   *)
(* or cancelled, and may prune its record.                                 *)
(***************************************************************************)
EXTENDS BackgroundTasks

CONSTANTS t1, t2, build

MCCommandOf == [t \in Tasks |-> build]
=============================================================================
