---------------------------- MODULE MCOperations ----------------------------
(* Instances of Operations for TLC.                                        *)
EXTENDS Operations

\* Row 1 is a submitted operation, row 2 an enqueued job of the same type
\* with two attempts; the middle step has no Undo.
MCPriority == [j \in Jobs |-> 0]
MCMaxAttempts == [j \in Jobs |-> IF j \in OpJobs THEN 1 ELSE 2]
MCUndoable == {1, 3}
=============================================================================
