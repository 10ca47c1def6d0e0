----------------------------- MODULE WorkerSlots -----------------------------
(***************************************************************************)
(* The clock of FetchWindow attempts and the activity slots of the worker. *)
(* An attempt holds a slot from its dispatch until its function returns.   *)
(* It heartbeats before it queries the source and when it has the rows,    *)
(* and not in between; the server gives it up HeartbeatTimeout after its   *)
(* last heartbeat, or StartToClose after its start. The worker hears of    *)
(* neither: a query goes on until it answers or StartToClose, the deadline *)
(* of its context, has passed.                                             *)
(***************************************************************************)
EXTENDS Integers, FiniteSets

CONSTANTS
    Task,               \* the FetchWindow activities of a run
    Slots,              \* maxConcurrentActivities
    MaxAttempts,        \* retryPolicy.MaximumAttempts
    HeartbeatTimeout,   \* fetchOptions.HeartbeatTimeout
    StartToClose        \* fetchOptions.StartToCloseTimeout

ASSUME SlotsAssumption == Slots \in Nat \ {0}
ASSUME MaxAttemptsAssumption == MaxAttempts \in Nat \ {0}
ASSUME TimeoutsAssumption ==
    /\ HeartbeatTimeout \in Nat \ {0}
    /\ StartToClose \in Nat
    /\ HeartbeatTimeout <= StartToClose

VARIABLES
    status,     \* status[t]: what the server knows of the activity
    attempt,    \* attempt[t]: attempts started so far
    sinceStart, \* sinceStart[t], sinceBeat[t]: the server's timers of the last one
    sinceBeat,
    exec        \* exec[t][k]: attempt k on its worker, and how long it has run

serverVars == <<status, attempt, sinceStart, sinceBeat>>
vars == <<serverVars, exec>>

Attempt == 1 .. MaxAttempts

Gone == [pc |-> "gone", age |-> 0]

TypeOK ==
    /\ status \in [Task -> {"scheduled", "started", "done", "failed"}]
    /\ attempt \in [Task -> 0 .. MaxAttempts]
    /\ sinceStart \in [Task -> 0 .. StartToClose]
    /\ sinceBeat \in [Task -> 0 .. HeartbeatTimeout]
    /\ exec \in [Task -> [Attempt -> [pc : {"query", "spool", "gone"}, age : 0 .. StartToClose]]]

Init ==
    /\ status = [t \in Task |-> "scheduled"]
    /\ attempt = [t \in Task |-> 0]
    /\ sinceStart = [t \in Task |-> 0]
    /\ sinceBeat = [t \in Task |-> 0]
    /\ exec = [t \in Task |-> [k \in Attempt |-> Gone]]

Held(t) == {k \in Attempt : exec[t][k].pc # "gone"}

SlotsHeld == {p \in Task \X Attempt : p[2] \in Held(p[1])}

-----------------------------------------------------------------------------
(* The server.                                                             *)

Awaited(t, k) == status[t] = "started" /\ attempt[t] = k

Settle(t, s) ==
    /\ status' = [status EXCEPT ![t] = s]
    /\ sinceStart' = [sinceStart EXCEPT ![t] = 0]
    /\ sinceBeat' = [sinceBeat EXCEPT ![t] = 0]
    /\ UNCHANGED attempt

(* Mutated form: the last attempt's failure goes unnoticed.                *)
RetryOnly(t) == attempt[t] < MaxAttempts /\ Settle(t, "scheduled")

(* The backoff before the next attempt is short beside the timeouts.       *)
RetryOrFail(t) ==
    \/ attempt[t] < MaxAttempts /\ Settle(t, "scheduled")
    \/ attempt[t] = MaxAttempts /\ Settle(t, "failed")

(* A worker with a free slot polls the queue and starts an attempt.        *)
Dispatch(t) ==
    /\ status[t] = "scheduled"
    /\ Cardinality(SlotsHeld) < Slots
    /\ status' = [status EXCEPT ![t] = "started"]
    /\ attempt' = [attempt EXCEPT ![t] = @ + 1]
    /\ exec' = [exec EXCEPT ![t][attempt[t] + 1] = [pc |-> "query", age |-> 0]]
    /\ UNCHANGED <<sinceStart, sinceBeat>>

(* Mutated form: any silence is too long.                                  *)
AnySilence(t) == TRUE

TimerFires(t) == sinceBeat[t] >= HeartbeatTimeout \/ sinceStart[t] >= StartToClose

(* The attempt is given up; whoever runs it does not hear of it.           *)
GiveUp(t) ==
    /\ status[t] = "started"
    /\ TimerFires(t)
    /\ RetryOrFail(t)
    /\ UNCHANGED exec

-----------------------------------------------------------------------------
(* The attempts. Writing the spool takes no time worth counting.           *)

Leaves(t, k) == exec' = [exec EXCEPT ![t][k] = Gone]

(* Mutated form: the query is not given the attempt's context.             *)
NeverCutShort(t, k) == FALSE

(* The context of the attempt ends at its deadline, and the query with it. *)
CutShort(t, k) == exec[t][k].pc = "query" /\ exec[t][k].age >= StartToClose

(* The query answers, and the attempt heartbeats.                          *)
QueryAnswers(t, k) ==
    /\ exec[t][k].pc = "query"
    /\ exec' = [exec EXCEPT ![t][k] = [pc |-> "spool", age |-> exec[t][k].age]]
    /\ sinceBeat' = IF Awaited(t, k) THEN [sinceBeat EXCEPT ![t] = 0] ELSE sinceBeat
    /\ UNCHANGED <<status, attempt, sinceStart>>

AttemptFails(t, k) ==
    /\ Leaves(t, k)
    /\ IF Awaited(t, k) THEN RetryOrFail(t) ELSE UNCHANGED serverVars

(* The source cannot be read, or the spool cannot be written.              *)
Error(t, k) ==
    /\ exec[t][k].pc \in {"query", "spool"}
    /\ AttemptFails(t, k)

Deadline(t, k) ==
    /\ CutShort(t, k)
    /\ AttemptFails(t, k)

Answer(t, k) ==
    /\ exec[t][k].pc = "spool"
    /\ Leaves(t, k)
    /\ IF Awaited(t, k) THEN Settle(t, "done") ELSE UNCHANGED serverVars

(* The worker dies, and another takes its place.                           *)
WorkerDies ==
    /\ SlotsHeld # {}
    /\ exec' = [t \in Task |-> [k \in Attempt |-> Gone]]
    /\ UNCHANGED serverVars

(* Time passes, unless a timer is due. A query that were never cut short   *)
(* would just stay; its age is not counted beyond the deadline.            *)
Tick ==
    /\ \E t \in Task : status[t] = "started" \/ Held(t) # {}
    /\ \A t \in Task : status[t] = "started" => ~TimerFires(t)
    /\ \A t \in Task, k \in Attempt : ~CutShort(t, k) /\ exec[t][k].pc # "spool"
    /\ sinceStart' = [t \in Task |-> IF status[t] = "started" THEN sinceStart[t] + 1 ELSE 0]
    /\ sinceBeat' = [t \in Task |-> IF status[t] = "started" THEN sinceBeat[t] + 1 ELSE 0]
    /\ exec' = [t \in Task |-> [k \in Attempt |->
                  [pc |-> exec[t][k].pc,
                   age |-> IF exec[t][k].pc = "query" /\ exec[t][k].age < StartToClose
                             THEN exec[t][k].age + 1 ELSE exec[t][k].age]]]
    /\ UNCHANGED <<status, attempt>>

Next ==
    \/ Tick \/ WorkerDies
    \/ \E t \in Task : Dispatch(t) \/ GiveUp(t)
    \/ \E t \in Task, k \in Attempt :
         QueryAnswers(t, k) \/ Error(t, k) \/ Deadline(t, k) \/ Answer(t, k)

Spec == Init /\ [][Next]_vars

(* Time passes, timers fire, contexts end and free slots are used. Nothing *)
(* is assumed of the source: a query may hang, and so may all of them.     *)
Fairness ==
    /\ WF_vars(Tick)
    /\ \A t \in Task : WF_vars(Dispatch(t)) /\ WF_vars(GiveUp(t))
    /\ \A t \in Task, k \in Attempt : WF_vars(Deadline(t, k)) /\ WF_vars(Answer(t, k))

FairSpec == Spec /\ Fairness

-----------------------------------------------------------------------------
(* Properties.                                                             *)

(* Two attempts of one activity that run at once are a heartbeat timeout   *)
(* apart: only an attempt that was given up runs beside its successor.     *)
AttemptsApart ==
    \A t \in Task : \A j, k \in Held(t) :
        j < k => exec[t][j].age >= exec[t][k].age + HeartbeatTimeout

(* So a query that hangs whenever it is tried holds several slots, but no  *)
(* more than fit into StartToClose (workflow_materialise.go: "5 min leaves *)
(* room for a slow Dolt query without letting a hung connection hold a     *)
(* slot for long"): with one and five minutes, all five attempts of it.    *)
HungQueryLeavesSlots ==
    \A t \in Task : Held(t) # {} =>
        (Cardinality(Held(t)) - 1) * HeartbeatTimeout <= StartToClose

(* Hung queries that fill all the slots do not stop the others for good:   *)
(* every activity completes or fails.                                      *)
EveryTaskEnds == \A t \in Task : <>(status[t] \in {"done", "failed"})

(* An attempt whose worker is alive and waits for the source is not given  *)
(* up before StartToClose ("5 min leaves room for a slow Dolt query").     *)
SlowQueryHasRoom ==
    [][\A t \in Task :
         attempt[t] # 0 /\ status[t] = "started" /\ status'[t] # "started"
         /\ exec[t][attempt[t]].pc = "query" /\ exec'[t][attempt[t]].pc = "query"
             => sinceStart[t] >= StartToClose]_vars

-----------------------------------------------------------------------------
(* The inductive invariant behind AttemptsApart.                           *)

(* The attempts on the workers are among those started, the awaited one is *)
(* as old as the server's timer says, and every other one at least a       *)
(* heartbeat timeout older.                                                *)
Ages ==
    \A t \in Task :
        /\ status[t] = "scheduled" =>
             attempt[t] < MaxAttempts /\ sinceStart[t] = 0 /\ sinceBeat[t] = 0
        /\ status[t] = "started" => attempt[t] # 0 /\ sinceBeat[t] <= sinceStart[t]
        /\ \A k \in Held(t) :
             /\ k <= attempt[t]
             /\ Awaited(t, k) => exec[t][k].age = sinceStart[t]
             /\ ~Awaited(t, k) => exec[t][k].age >= HeartbeatTimeout

IInv == TypeOK /\ Ages /\ AttemptsApart
=============================================================================
