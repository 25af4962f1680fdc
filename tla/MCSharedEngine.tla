--------------------------- MODULE MCSharedEngine ---------------------------
(***************************************************************************)
(* Calls and scripts for TLC's runs of SharedEngine.                       *)
(***************************************************************************)
EXTENDS SharedEngine, TLC

CONSTANTS e1, e2, r1, r2,      \* calls
          read, list, grep     \* arguments of tool calls

(* e1 and e2 execute, r1 replays e1, r2 replays e1 as well.                *)
MCSource == [c \in Call |-> IF c \in {r1, r2} THEN e1 ELSE NoCall]

(* Steps with arguments of their own, and steps that make the same call.   *)
OwnArguments == <<<<read, list>>, <<grep>>>>

OneCall == <<<<read>>>>

SameCall == <<<<read>>, <<read>>>>

Executions == Permutations({e1, e2})
=============================================================================
