-------------------------- MODULE MCActionLifecycle --------------------------
(***************************************************************************)
(* Small instances of ActionLifecycle for TLC.  The two actions differ in  *)
(* priority, so the order of a batch matters.                              *)
(***************************************************************************)
EXTENDS ActionLifecycle

CONSTANTS a1, a2

OneAction == {a1}

TwoActions == {a1, a2}

MCPriority == [a \in Actions |-> IF a = a1 THEN 1 ELSE 5]
=============================================================================
