-------------------------- MODULE MCTaskspaceSync ---------------------------
(* An instance of TaskspaceSync for TLC: the default taskspace with a global *)
(* slot and one of its own, a task with two workspaces and one with one.     *)
EXTENDS TaskspaceSync

MCSpaces == {"default", "a", "b"}
MCWorkspaces == {"1", "2", "a2", "a3", "b2"}
MCHome == [w \in MCWorkspaces |->
    IF w \in {"1", "2"} THEN "default" ELSE IF w = "b2" THEN "b" ELSE "a"]

\* One memory of the taskspaces the user is not in.
MCMemory == [default |-> "1", a |-> "a2", b |-> "b2"]
MCInit == Init /\ \A c \in Spaces \ {cur} : last[c] = MCMemory[c]
MCSpec == MCInit /\ [][Next]_vars /\ Fairness
=============================================================================
