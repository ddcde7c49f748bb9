------------------------------ MODULE MCStageA ------------------------------
EXTENDS StageA

CONSTANTS t1, t2

Cell(task, arm) == [task |-> task, arm |-> arm]

(* As in the frozen order, an assisted arm may come before its baseline.   *)
MCOrder == <<Cell(t1, "T1"), Cell(t2, "T1"), Cell(t1, "T0"), Cell(t2, "T0")>>

(* The stub of v1 stops short of the last baseline.                        *)
MCLimit == [v1_live |-> 4, v1_stub |-> 3, v2_stub |-> 2]
=============================================================================
