---------------------------- MODULE MC_Functions ----------------------------
(* Small inputs of the pure functions: instants around two ends of a day;  *)
(* two issues with one text in two fields, as long as an id with a child   *)
(* suffix and something that follows it; columns with and without names,   *)
(* of the kinds there are and one there is not; an issue with every past   *)
(* of three days beside one that was there all along, or appeared.         *)
EXTENDS FunctionCalls

Instants == -1 .. 3 * DayLength

TablesOfThree == UNION {[1 .. n -> [grain : Grain, lookback : 1 .. 3]] : n \in 1 .. 3}

Characters == Lower \cup Digit \cup Upper \cup {".", "-"}

P1 == <<"p", "-", "1">>
PQ1 == <<"p", "q", "-", "1">>
QP1 == <<"q", "-", "p", ".", "1">>

TwoIssues ==
    {{[issue_id |-> P1, text |-> [title |-> text, notes |-> <<>>]],
      [issue_id |-> id, text |-> [title |-> <<>>, notes |-> text]]} :
        text \in UNION {[1 .. n -> Characters] : n \in 0 .. 6}, id \in {PQ1, QP1}}

Numbers == MinInt64 - 1 .. 2 * MaxInt64 + 2

(* Of the numbers above -3, -1 and 5 lie nearer to one float64, -2 and 2   *)
(* in the middle of two, and those from 6 on are too large for any; the    *)
(* float32 that is shown as 3 is not 3.                                    *)
Doubles == {-4, 0, 1, 3, 4}

Singles == {0, 4}

Decimals == [f \in Singles |-> IF f = 4 THEN 3 ELSE 0]

Columns == [name : {"", "id", "_source_file", "_SOURCE_FILE"}, kind : Kind \cup {"Decimal"}]

UpToTwoColumns == UNION {[1 .. m -> Columns] : m \in 0 .. 2}

Values == {Value(go, 1) : go \in {"nil", "string", "int64", "int32", "float64", "bool", "time_utc", "time_local"}}

UpToTwoValues == UNION {[1 .. m -> Values] : m \in 0 .. 2}

(* What the other issue may be: there all along, or created on a day.      *)
Others ==
    {[t \in 0 .. Now |-> IF t < from THEN Absent ELSE [status |-> "open", assignee |-> Null]] : from \in 0 .. 2}

Histories ==
    {[t \in 0 .. Now |-> [k \in Issue |-> IF k = i THEN first[t] ELSE other[t]]] :
        first \in [0 .. Now -> Tracked \cup {Absent}], other \in Others, i \in Issue}
=============================================================================
