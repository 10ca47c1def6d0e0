---------------------------- MODULE MC_BuildMarts ---------------------------
(* An instance of BuildMarts that retries the second pass only.            *)
EXTENDS BuildMarts

RetryPostGo == [p \in Pass |-> IF p = "post_go" THEN 2 ELSE 1]
=============================================================================
