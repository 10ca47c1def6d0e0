------------------------- MODULE MC_EventExtraction -------------------------
(* Half hours, an offset of an hour or two, and the ways it may change.    *)
EXTENDS EventExtraction

NoChange == [at |-> 4, before |-> 4, after |-> 4, repeated |-> "last"]
FallBack == [at |-> 4, before |-> 4, after |-> 2, repeated |-> "last"]
FirstOfTwo == [FallBack EXCEPT !.repeated = "first"]
SpringForward == [at |-> 4, before |-> 2, after |-> 4, repeated |-> "last"]

Changes == {NoChange, FallBack, SpringForward}
FallsBack == {FallBack, FirstOfTwo}
=============================================================================
