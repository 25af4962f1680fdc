---------------------------- MODULE RunLifecycle ----------------------------
(***************************************************************************)
(* What one execution of a run promises to whoever reads the table         *)
(* agent_runs and receives the result: the status moves forward only, it   *)
(* is final once the result is there, COMPLETED stands for success and for *)
(* nothing else, and FAILED for failure unless a write was lost.           *)
(* This is agent/agent_run.go as the engine uses it, stated without plans, *)
(* steps or retries; Engine implements it.                                 *)
(***************************************************************************)
VARIABLES
  status,    \* the status in the row, "NONE" when there is no row
  outcome,   \* the result of the execution, "none" until it returns
  lossy      \* whether writes of the row may be lost; it never changes

vars == <<status, outcome, lossy>>

Init ==
  /\ status \in {"NONE", "CREATED"}
  /\ outcome = "none"
  /\ lossy \in BOOLEAN

(* The initial state is persisted before the execution begins.             *)
Create ==
  /\ outcome = "none" /\ status = "NONE"
  /\ status' = "CREATED"
  /\ UNCHANGED <<outcome, lossy>>

Start ==
  /\ outcome = "none" /\ status = "CREATED"
  /\ status' = "RUNNING"
  /\ UNCHANGED <<outcome, lossy>>

Complete ==
  /\ outcome = "none" /\ status = "RUNNING"
  /\ status' = "COMPLETED"
  /\ outcome' = "succeeded"
  /\ UNCHANGED lossy

(* A run may fail before it was running: there was no plan for it.         *)
Fail ==
  /\ outcome = "none" /\ status \in {"CREATED", "RUNNING"}
  /\ status' = "FAILED" \/ (lossy /\ status' = status)
  /\ outcome' = "failed"
  /\ UNCHANGED lossy

(* A request that is refused leaves no trace; so does a call that cannot   *)
(* write that it starts or that it completed.                              *)
Refuse ==
  /\ outcome = "none"
  /\ status \in {"NONE", "CREATED"} \cup (IF lossy THEN {"RUNNING"} ELSE {})
  /\ outcome' = "error"
  /\ UNCHANGED <<status, lossy>>

Next == Create \/ Start \/ Complete \/ Fail \/ Refuse

Spec == Init /\ [][Next]_vars

FairSpec == Spec /\ WF_vars(Next)
=============================================================================
