----------------------------- MODULE IssueHistory -----------------------------
(***************************************************************************)
(* Daily snapshots of the issues, and the two marts made of them:          *)
(* dim_issues, the issues of the latest snapshot, and dim_issues_scd2, the *)
(* intervals in which an issue did not change. Day d is [d, d + 1) on the  *)
(* clock; its snapshot is the table AS OF d + 1, or as it is now when that *)
(* is still to come. Days may be missing, and any day may be read late.    *)
(***************************************************************************)
EXTENDS Integers, FiniteSets, FiniteSetsExt

CONSTANTS
    Issue,
    Null,       \* SQL's NULL
    Absent,     \* an issue that does not exist
    NoFile      \* a day that was never read

(* What the history distinguishes of an issue; the assignee may be NULL.   *)
Tracked == [status : {"open", "closed"}, assignee : {"alice", Null}]

ASSUME SentinelsAssumption ==
    /\ Null \notin Int \cup {"open", "closed", "alice"}
    /\ Absent \notin Tracked
    /\ NoFile \notin Int

(* The state of the source at each instant is given by                     *)
(*   history \in [0 .. now -> [Issue -> Tracked \cup {Absent}]]            *)
(* and the instant at which the file of a day was last read by             *)
(*   read \in [Day -> (0 .. now) \cup {NoFile}].                           *)

(* Mutated form: the snapshot of a day is taken at its start.              *)
AsOfStart(history, read, d) == history[d]

(* AS OF TIMESTAMP(w.End); an instant to come is the latest state.         *)
AsOf(history, read, d) == history[Min({d + 1, read[d]})]

snapshots(history, read) ==
    UNION {{[issue_id |-> i, snapshot_date |-> d, tracked |-> AsOf(history, read, d)[i]] :
               i \in {j \in Issue : AsOf(history, read, d)[j] # Absent}} :
               d \in {e \in DOMAIN read : read[e] # NoFile}}

dim_issues(snaps) ==
    {s \in snaps : \A t \in snaps : t.snapshot_date <= s.snapshot_date}

(* The rows of lag() over (partition by issue_id order by snapshot_date).  *)
Before(snaps, s) == {t \in snaps : t.issue_id = s.issue_id /\ t.snapshot_date < s.snapshot_date}

Lag(snaps, s) == CHOOSE t \in Before(snaps, s) : \A u \in Before(snaps, s) : u.snapshot_date <= t.snapshot_date

(* Mutated form: <>, which is not true of a NULL.                          *)
IsChangeByNotEqual(snaps, s) ==
    /\ Before(snaps, s) # {}
    /\ \E a \in {"status", "assignee"} :
          LET was == Lag(snaps, s).tracked[a] IN was # Null /\ s.tracked[a] # Null /\ was # s.tracked[a]

(* IS DISTINCT FROM the lag; status is never NULL, so the first snapshot   *)
(* of an issue is a change.                                                *)
is_change(snaps, s) ==
    \/ Before(snaps, s) = {}
    \/ \E a \in {"status", "assignee"} : Lag(snaps, s).tracked[a] # s.tracked[a]

(* sum(is_change) up to the row numbers the runs.                          *)
run_id(snaps, s) == Cardinality({t \in Before(snaps, s) \cup {s} : is_change(snaps, t)})

(* max() over a run leaves NULL out.                                       *)
MaxOf(run, a) ==
    LET values == {t.tracked[a] : t \in run} \ {Null} IN
    IF values = {} THEN Null
    ELSE IF "open" \in values THEN "open" ELSE CHOOSE v \in values : TRUE

runs(snaps) ==
    {LET run == {t \in snaps : t.issue_id = s.issue_id /\ run_id(snaps, t) = run_id(snaps, s)} IN
     [issue_id |-> s.issue_id,
      valid_from |-> Min({t.snapshot_date : t \in run}),
      tracked |-> [a \in {"status", "assignee"} |-> MaxOf(run, a)]] : s \in snaps}

(* Mutated form: lead() without the partition.                             *)
LaterOfAnyIssue(rs, r) == {q.valid_from : q \in {p \in rs : p.valid_from > r.valid_from}}

Later(rs, r) == {q.valid_from : q \in {p \in rs : p.issue_id = r.issue_id /\ p.valid_from > r.valid_from}}

dim_issues_scd2(snaps) ==
    LET rs == runs(snaps) IN
    {[issue_id |-> r.issue_id, tracked |-> r.tracked, valid_from |-> r.valid_from,
      valid_to |-> IF Later(rs, r) = {} THEN Null ELSE Min(Later(rs, r)),
      is_current |-> Later(rs, r) = {}] : r \in rs}

-----------------------------------------------------------------------------
(* Properties, for one history of the source and of the reads.             *)

Holds(r, d) == r.valid_from <= d /\ (r.is_current \/ d < r.valid_to)

(* assert_scd2_*.sql: an issue has exactly one current row, and intervals  *)
(* that do not overlap; and no two adjacent ones say the same.             *)
Scd2WellFormed(history, read) ==
    LET scd2 == dim_issues_scd2(snapshots(history, read)) IN
    /\ \A r \in scd2 : Cardinality({q \in scd2 : q.issue_id = r.issue_id /\ q.is_current}) = 1
    /\ \A r \in scd2 : (r.valid_to = Null) = r.is_current
    /\ \A q, r \in scd2 : q # r /\ q.issue_id = r.issue_id =>
          /\ q.valid_from # r.valid_from
          /\ q.valid_from < r.valid_from => ~q.is_current /\ q.valid_to <= r.valid_from
          /\ q.valid_to = r.valid_from => q.tracked # r.tracked

(* Whatever days are missing, and in whatever order the others were read:  *)
(* for every day read after its end, the interval that holds the day shows *)
(* an issue as it was at that end, assigned to nobody included; and the    *)
(* current row of an issue agrees with dim_issues.                         *)
Scd2TellsTheDay(history, read) ==
    LET scd2 == dim_issues_scd2(snapshots(history, read)) IN
    /\ \A d \in DOMAIN read, i \in Issue :
          read[d] # NoFile /\ read[d] > d /\ history[d + 1][i] # Absent =>
             \E r \in scd2 : r.issue_id = i /\ Holds(r, d) /\ r.tracked = history[d + 1][i]
    /\ \A s \in dim_issues(snapshots(history, read)) :
          \E r \in scd2 : r.issue_id = s.issue_id /\ r.is_current /\ r.tracked = s.tracked
=============================================================================
