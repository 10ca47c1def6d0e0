------------------------------ MODULE MC_Runner -----------------------------
(* Four windows of two tables, in the source's declaration order.          *)
EXTENDS Runner

Tables == {"events", "issues"}
TableOfJob == [j \in Job |-> IF j <= 2 THEN "events" ELSE "issues"]
=============================================================================
