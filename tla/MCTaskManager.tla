---------------------------- MODULE MCTaskManager ----------------------------
(* Small instances of TaskManager: tasks of one checkout, or scratch tasks.  *)
EXTENDS TaskManager

CONSTANTS t1, t2, r1

OneRepo == <<r1>>
NoRepo == <<>>
Sources == [t \in Tasks |-> IF r1 \in Repos THEN r1 ELSE Scratch]
=============================================================================
