----------------------------- MODULE MCJobQueue -----------------------------
(* A worker runs one graph job of a project and one index job at a time (2 *)
(* and 2 in the code); of the pushes it may run two.                       *)
EXTENDS JobQueue

Only(kind, project) == [j \in Job |-> [kind |-> kind, project |-> project]]

MCWorkload  == {Only("graph", "a"), Only("index_document", "none"), Only("notify_push", "a")}
MCKindLimit == [k \in Kind |-> IF k = "index_document" THEN 1 ELSE 2]
MCPairLimit == [k \in Kind |-> IF k = "graph" THEN 1 ELSE 0]
=============================================================================
