--------------------------- MODULE MCTaskDispatch ---------------------------
EXTENDS TaskDispatch

\* Two organizations with a task of the same name and one global task.
MCName == [t \in {"a1", "a2", "b"} |-> IF t = "b" THEN "b" ELSE "a"]
=============================================================================
