------------------------ MODULE MC_MaterialiseSource ------------------------
(* Small instances of MaterialiseSource: hours of two instants, whose rows *)
(* may come one instant late, and a day that goes on, whose file is        *)
(* written from outside; or hours alone, written from outside.             *)
EXTENDS MaterialiseSource

BothGrains == {"hour", "day"}
BothDuration == [g \in BothGrains |-> IF g = "hour" THEN 2 ELSE 6]
BothLookback == [g \in BothGrains |-> IF g = "hour" THEN 2 ELSE 1]
BothDelay == [g \in BothGrains |-> IF g = "hour" THEN 1 ELSE 0]
DayGrain == {"day"}

HourGrain == {"hour"}
HourDuration == [g \in HourGrain |-> 2]
HourLookback == [g \in HourGrain |-> 2]
HourDelay == [g \in HourGrain |-> 0]
=============================================================================
