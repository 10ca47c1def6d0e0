---------------------- MODULE MaterialiseWindow_proofs ----------------------
(***************************************************************************)
(* What is proved of MaterialiseWindow for every set of tables, every      *)
(* number of attempts, and attempts that outlive their timeout.            *)
(***************************************************************************)
EXTENDS MaterialiseWindow, TLAPS

USE MaxAttemptsAssumption DEF Attempt, Instant

-----------------------------------------------------------------------------
(* Type correctness. The server's half of the state and the workers' half  *)
(* are typed apart: most actions leave one of them alone.                  *)

ServerType ==
    /\ stage \in [Table -> {"fetch", "write", "delete", "done"}]
    /\ attempt \in [Table -> 0 .. MaxAttempts]
    /\ task \in [Table -> {"scheduled", "started"}]
    /\ ref \in [Table -> Instant]
    /\ writeErr \in [Table -> {"nil", "error"}]
    /\ verdict \in [Table -> {"none", "ok", "failed"}]
    /\ run \in {"running", "completed", "failed"}
    /\ AttemptLeft

WorkerType ==
    /\ fetch \in [Table -> [Attempt -> FetchAttempt]]
    /\ write \in [Table -> [Attempt -> WriteAttempt]]
    /\ remove \in [Table -> [Attempt -> RemoveAttempt]]
    /\ spool \in [Table -> File]
    /\ bronze \in [Table -> File]
    /\ clock \in Instant

LEMMA Halves == TypeOK /\ AttemptLeft <=> ServerType /\ WorkerType
BY DEF TypeOK, ServerType, WorkerType

LEMMA MoveToType ==
    ASSUME NEW t \in Table, NEW s \in {"fetch", "write", "delete", "done"},
           ServerType, MoveTo(t, s)
    PROVE  /\ stage' \in [Table -> {"fetch", "write", "delete", "done"}]
           /\ attempt' \in [Table -> 0 .. MaxAttempts]
           /\ task' \in [Table -> {"scheduled", "started"}]
           /\ AttemptLeft'
BY DEF ServerType, MoveTo, AttemptLeft

LEMMA NextAttemptType ==
    ASSUME NEW t \in Table, NEW s, ServerType, NextAttempt(t, s)
    PROVE  ServerType' /\ attempt[t] + 1 \in Attempt
BY DEF ServerType, NextAttempt, AttemptLeft

LEMMA ActivityFailsType ==
    ASSUME NEW t \in Table, ServerType, ActivityFails(t)
    PROVE  ServerType'
<1>1. CASE stage[t] = "fetch" /\ Return(t, "failed") /\ UNCHANGED <<writeErr, ref, run>>
  BY <1>1, MoveToType DEF ServerType, Return
<1>2. CASE stage[t] = "write" /\ MoveTo(t, "delete")
           /\ writeErr' = [writeErr EXCEPT ![t] = "error"] /\ UNCHANGED <<verdict, ref, run>>
  BY <1>2, MoveToType DEF ServerType
<1>3. CASE stage[t] = "delete" /\ Return(t, "failed") /\ UNCHANGED <<writeErr, ref, run>>
  BY <1>3, MoveToType DEF ServerType, Return
<1>4. QED
  BY <1>1, <1>2, <1>3 DEF ActivityFails

LEMMA RetryOrFailType ==
    ASSUME NEW t \in Table, ServerType, RetryOrFail(t)
    PROVE  ServerType'
<1>1. CASE /\ attempt[t] < MaxAttempts
           /\ task' = [task EXCEPT ![t] = "scheduled"]
           /\ UNCHANGED <<stage, attempt, ref, writeErr, verdict, run>>
  BY <1>1 DEF ServerType, AttemptLeft
<1>2. CASE ActivityFails(t)
  BY <1>2, ActivityFailsType
<1>3. QED
  BY <1>1, <1>2 DEF RetryOrFail

LEMMA CompletesType ==
    ASSUME NEW t \in Table, NEW at \in Instant, ServerType,
           FetchCompletes(t, at) \/ WriteCompletes(t) \/ DeleteCompletes(t)
    PROVE  ServerType'
<1>1. CASE FetchCompletes(t, at)
  BY <1>1, MoveToType DEF ServerType, FetchCompletes
<1>2. CASE WriteCompletes(t)
  BY <1>2, MoveToType DEF ServerType, WriteCompletes
<1>3. CASE DeleteCompletes(t)
  BY <1>3, MoveToType DEF ServerType, DeleteCompletes, Return
<1>4. QED
  BY <1>1, <1>2, <1>3

LEMMA IdleServerType ==
    ASSUME ServerType, UNCHANGED serverVars
    PROVE  ServerType'
BY DEF ServerType, AttemptLeft, serverVars

LEMMA FetchMovesType ==
    ASSUME NEW t \in Table, NEW k \in Attempt, WorkerType,
           NEW pc \in {"idle", "querying", "read", "spooled", "gone"}, NEW rows \in Instant,
           FetchMoves(t, k, pc, rows)
    PROVE  fetch' \in [Table -> [Attempt -> FetchAttempt]]
<1>1. [pc |-> pc, at |-> fetch[t][k].at, rows |-> rows] \in FetchAttempt
  BY DEF WorkerType, FetchAttempt
<1>2. QED
  BY <1>1 DEF WorkerType, FetchMoves

LEMMA WriteMovesType ==
    ASSUME NEW t \in Table, NEW k \in Attempt, WorkerType,
           NEW pc \in {"idle", "reading", "writing", "written", "gone"}, NEW rows \in Instant,
           WriteMoves(t, k, pc, rows)
    PROVE  write' \in [Table -> [Attempt -> WriteAttempt]]
<1>1. [pc |-> pc, rows |-> rows] \in WriteAttempt
  BY DEF WriteAttempt
<1>2. QED
  BY <1>1 DEF WorkerType, WriteMoves

LEMMA RemoveMovesType ==
    ASSUME NEW t \in Table, NEW k \in Attempt, WorkerType,
           NEW pc \in RemoveAttempt, RemoveMoves(t, k, pc)
    PROVE  remove' \in [Table -> [Attempt -> RemoveAttempt]]
BY DEF WorkerType, RemoveMoves

LEMMA FetchStepType ==
    ASSUME NEW t \in Table, NEW k \in Attempt, ServerType, WorkerType, FetchStep(t, k)
    PROVE  ServerType' /\ WorkerType'
<1>1. fetch[t][k].at \in Instant /\ fetch[t][k].rows \in Instant
  BY DEF WorkerType, FetchAttempt
<1>2. CASE FetchRead(t, k)
  BY <1>2, FetchMovesType, IdleServerType DEF FetchRead, WorkerType
<1>3. CASE FetchSpool(t, k)
  <2>1. spool' \in [Table -> File]
    BY <1>1, <1>3 DEF FetchSpool, WorkerType, File
  <2>2. QED
    BY <1>1, <1>3, <2>1, FetchMovesType, IdleServerType DEF FetchSpool, WorkerType
<1>4. CASE FetchAnswer(t, k)
  <2>1. ServerType'
    BY <1>1, <1>4, CompletesType, IdleServerType DEF FetchAnswer, Answer
  <2>2. QED
    BY <1>1, <1>4, <2>1, FetchMovesType DEF FetchAnswer, WorkerType
<1>5. CASE FetchError(t, k)
  <2>1. ServerType'
    BY <1>5, RetryOrFailType, IdleServerType DEF FetchError, Answer
  <2>2. QED
    BY <1>1, <1>5, <2>1, FetchMovesType DEF FetchError, WorkerType
<1>6. CASE FetchLost(t, k)
  BY <1>1, <1>6, FetchMovesType, IdleServerType DEF FetchLost, WorkerType
<1>7. QED
  BY <1>2, <1>3, <1>4, <1>5, <1>6 DEF FetchStep

LEMMA WriteStepType ==
    ASSUME NEW t \in Table, NEW k \in Attempt, ServerType, WorkerType, WriteStep(t, k)
    PROVE  ServerType' /\ WorkerType'
<1>1. write[t][k].rows \in Instant /\ spool[t].rows \in Instant /\ ref[t] \in Instant
  BY DEF ServerType, WorkerType, WriteAttempt, File
<1>2. CASE WriteRead(t, k)
  BY <1>1, <1>2, WriteMovesType, IdleServerType DEF WriteRead, WorkerType
<1>3. CASE WriteMismatch(t, k)
  <2>1. ServerType'
    BY <1>3, ActivityFailsType, IdleServerType DEF WriteMismatch, Answer
  <2>2. QED
    BY <1>1, <1>3, <2>1, WriteMovesType DEF WriteMismatch, WorkerType
<1>4. CASE WritePut(t, k)
  <2>1. bronze' \in [Table -> File]
    BY <1>1, <1>4 DEF WritePut, WorkerType, File
  <2>2. QED
    BY <1>1, <1>4, <2>1, WriteMovesType, IdleServerType DEF WritePut, WorkerType
<1>5. CASE WriteAnswer(t, k)
  <2>1. ServerType'
    BY <1>5, CompletesType, IdleServerType DEF WriteAnswer, Answer
  <2>2. QED
    BY <1>1, <1>5, <2>1, WriteMovesType DEF WriteAnswer, WorkerType
<1>6. CASE WriteError(t, k)
  <2>1. ServerType'
    BY <1>6, RetryOrFailType, IdleServerType DEF WriteError, Answer
  <2>2. QED
    BY <1>1, <1>6, <2>1, WriteMovesType DEF WriteError, WorkerType
<1>7. CASE WriteLost(t, k)
  BY <1>1, <1>7, WriteMovesType, IdleServerType DEF WriteLost, WorkerType
<1>8. QED
  BY <1>2, <1>3, <1>4, <1>5, <1>6, <1>7 DEF WriteStep

LEMMA DeleteStepType ==
    ASSUME NEW t \in Table, NEW k \in Attempt, ServerType, WorkerType, DeleteStep(t, k)
    PROVE  ServerType' /\ WorkerType'
<1> USE RemoveMovesType DEF WorkerType, RemoveAttempt
<1>1. CASE DeleteRemove(t, k)
  <2>1. spool' \in [Table -> File]
    BY <1>1 DEF DeleteRemove, File, Nothing
  <2>2. QED
    BY <1>1, <2>1, IdleServerType DEF DeleteRemove
<1>2. CASE DeleteAnswer(t, k)
  BY <1>2, CompletesType, IdleServerType DEF DeleteAnswer, Answer
<1>3. CASE DeleteError(t, k)
  BY <1>3, RetryOrFailType, IdleServerType DEF DeleteError, Answer
<1>4. CASE DeleteLost(t, k)
  BY <1>4, IdleServerType DEF DeleteLost
<1>5. QED
  BY <1>1, <1>2, <1>3, <1>4 DEF DeleteStep

LEMMA StartType ==
    ASSUME NEW t \in Table, ServerType, WorkerType, Start(t)
    PROVE  ServerType' /\ WorkerType'
<1>1. CASE FetchStart(t)
  <2>1. ServerType' /\ attempt[t] + 1 \in Attempt
    BY <1>1, NextAttemptType DEF FetchStart
  <2>2. [pc |-> "querying", at |-> clock + 1, rows |-> 0] \in FetchAttempt /\ clock' \in Instant
    BY <1>1 DEF FetchStart, WorkerType, FetchAttempt
  <2>3. QED
    BY <1>1, <2>1, <2>2 DEF FetchStart, WorkerType
<1>2. CASE WriteStart(t)
  BY <1>2, NextAttemptType, WriteMovesType DEF WriteStart, WorkerType
<1>3. CASE DeleteStart(t)
  BY <1>3, NextAttemptType, RemoveMovesType DEF DeleteStart, WorkerType, RemoveAttempt
<1>4. QED
  BY <1>1, <1>2, <1>3 DEF Start

LEMMA TypeStep ==
    ASSUME ServerType, WorkerType, [Next]_vars
    PROVE  ServerType' /\ WorkerType'
<1>1. CASE Finish
  BY <1>1 DEF Finish, ServerType, WorkerType, AttemptLeft, workerVars
<1>2. ASSUME NEW t \in Table, Timeout(t) PROVE ServerType' /\ WorkerType'
  BY <1>2, RetryOrFailType DEF Timeout, WorkerType, workerVars
<1>3. CASE UNCHANGED vars
  BY <1>3, IdleServerType DEF vars, workerVars, WorkerType
<1>4. QED
  BY <1>1, <1>2, <1>3, StartType, FetchStepType, WriteStepType, DeleteStepType DEF Next

LEMMA InitType == Init => ServerType /\ WorkerType
BY DEF Init, ServerType, WorkerType, AttemptLeft, File, FetchAttempt, WriteAttempt, RemoveAttempt, Nothing

(* Every variable keeps its type; in particular no activity is attempted   *)
(* more often than retryPolicy.MaximumAttempts.                            *)
THEOREM TypeCorrect == Spec => []TypeOK
<1>1. Init => ServerType /\ WorkerType
  BY InitType
<1>2. ServerType /\ WorkerType /\ [Next]_vars => (ServerType /\ WorkerType)'
  BY TypeStep
<1>3. ServerType /\ WorkerType => TypeOK
  BY Halves
<1>4. QED
  BY <1>1, <1>2, <1>3, PTL DEF Spec

-----------------------------------------------------------------------------
(* What a step may change.                                                 *)

LEMMA FetchMovesAt ==
    ASSUME TypeOK, NEW t \in Table, NEW k \in Attempt, NEW pc, NEW rows, FetchMoves(t, k, pc, rows)
    PROVE  \A u \in Table, j \in Attempt :
             fetch'[u][j] = IF u = t /\ j = k
                              THEN [pc |-> pc, at |-> fetch[t][k].at, rows |-> rows]
                              ELSE fetch[u][j]
BY DEF TypeOK, FetchMoves

LEMMA WriteMovesAt ==
    ASSUME TypeOK, NEW t \in Table, NEW k \in Attempt, NEW pc, NEW rows, WriteMoves(t, k, pc, rows)
    PROVE  \A u \in Table, j \in Attempt :
             write'[u][j] = IF u = t /\ j = k THEN [pc |-> pc, rows |-> rows] ELSE write[u][j]
BY DEF TypeOK, WriteMoves

LEMMA RemoveMovesAt ==
    ASSUME TypeOK, NEW t \in Table, NEW k \in Attempt, NEW pc, RemoveMoves(t, k, pc)
    PROVE  \A u \in Table, j \in Attempt :
             remove'[u][j] = IF u = t /\ j = k THEN pc ELSE remove[u][j]
BY DEF TypeOK, RemoveMoves

(* The fetch attempts change in three ways: one starts, one reads its      *)
(* rows, or one goes on with the rows it has.                              *)
FetchGoesOn(t, k) ==
    /\ \/ fetch[t][k].pc = "read" /\ FetchMoves(t, k, "spooled", fetch[t][k].rows)
       \/ fetch[t][k].pc \in {"querying", "read", "spooled"} /\ FetchMoves(t, k, "gone", fetch[t][k].rows)
    /\ UNCHANGED clock

LEMMA FetchChanges ==
    ASSUME [Next]_vars
    PROVE  \/ \E t \in Table : FetchStart(t)
           \/ \E t \in Table, k \in Attempt : FetchRead(t, k) \/ FetchGoesOn(t, k)
           \/ UNCHANGED <<fetch, clock>>
<1>1. CASE Finish \/ UNCHANGED vars
  BY <1>1 DEF Finish, vars, workerVars
<1>2. ASSUME NEW t \in Table, WriteStart(t) \/ DeleteStart(t) \/ Timeout(t)
      PROVE  UNCHANGED <<fetch, clock>>
  BY <1>2 DEF WriteStart, DeleteStart, Timeout, workerVars
<1>3. ASSUME NEW t \in Table, NEW k \in Attempt, FetchStep(t, k)
      PROVE  FetchRead(t, k) \/ FetchGoesOn(t, k)
  BY <1>3 DEF FetchStep, FetchSpool, FetchAnswer, FetchError, FetchLost, FetchGoesOn
<1>4. ASSUME NEW t \in Table, NEW k \in Attempt, WriteStep(t, k)
      PROVE  UNCHANGED <<fetch, clock>>
  BY <1>4 DEF WriteStep, WriteRead, WriteMismatch, WritePut, WriteAnswer, WriteError, WriteLost
<1>5. ASSUME NEW t \in Table, NEW k \in Attempt, DeleteStep(t, k)
      PROVE  UNCHANGED <<fetch, clock>>
  BY <1>5 DEF DeleteStep, DeleteRemove, DeleteAnswer, DeleteError, DeleteLost
<1>6. QED
  BY <1>1, <1>2, <1>3, <1>4, <1>5 DEF Next, Start

(* The attempt FetchStart starts has not run before.                       *)
LEMMA FreshAttempt ==
    ASSUME IInv, NEW t \in Table, FetchStart(t)
    PROVE  /\ attempt[t] + 1 \in Attempt
           /\ fetch[t][attempt[t] + 1].pc = "idle"
           /\ fetch[t][attempt[t] + 1].at = 0
           /\ fetch[t][attempt[t] + 1].rows = 0
           /\ clock' = clock + 1
           /\ \A u \in Table, j \in Attempt :
                fetch'[u][j] = IF u = t /\ j = attempt[t] + 1
                                 THEN [pc |-> "querying", at |-> clock + 1, rows |-> 0]
                                 ELSE fetch[u][j]
<1>1. attempt[t] + 1 \in Attempt
  BY NextAttemptType, Halves DEF FetchStart, IInv
<1>2. fetch[t][attempt[t] + 1].pc = "idle"
  <2>1. stage[t] = "fetch" /\ attempt[t] + 1 > attempt[t]
    BY DEF FetchStart, NextAttempt, IInv, TypeOK
  <2>2. QED
    BY <1>1, <2>1 DEF IInv, StageOrder
<1>3. fetch[t][attempt[t] + 1].at = 0 /\ fetch[t][attempt[t] + 1].rows = 0
  BY <1>1, <1>2 DEF IInv, FetchAttempts
<1>4. QED
  BY <1>1, <1>2, <1>3 DEF FetchStart, IInv, TypeOK

LEMMA FetchAttemptsStep ==
    ASSUME IInv, [Next]_vars
    PROVE  FetchAttempts'
<1>1. ASSUME NEW t \in Table, FetchStart(t) PROVE FetchAttempts'
  <2> DEFINE n == attempt[t] + 1
  <2>1. \A u \in Table, j \in Attempt : fetch[u][j] \in FetchAttempt /\ clock \in Instant
    BY DEF IInv, TypeOK
  <2>2. \A u \in Table, j \in Attempt : fetch[u][j].at < clock + 1
    BY <2>1 DEF IInv, FetchAttempts, FetchAttempt
  <2>3. \A u \in Table, j \in Attempt :
           fetch'[u][j] = IF u = t /\ j = n THEN [pc |-> "querying", at |-> clock + 1, rows |-> 0]
                                            ELSE fetch[u][j]
    BY <1>1, FreshAttempt
  <2>4. clock' = clock + 1
    BY <1>1, FreshAttempt
  <2> SUFFICES ASSUME NEW u \in Table, NEW j \in Attempt
               PROVE  /\ fetch'[u][j].at <= clock'
                      /\ fetch'[u][j].pc = "idle" <=> fetch'[u][j].at = 0
                      /\ fetch'[u][j].pc \in {"idle", "querying"} => fetch'[u][j].rows = 0
                      /\ fetch'[u][j].pc \in {"read", "spooled"} => fetch'[u][j].at <= fetch'[u][j].rows
                      /\ \A i \in Attempt : j # i /\ fetch'[u][j].at # 0 => fetch'[u][j].at # fetch'[u][i].at
    BY DEF FetchAttempts
  <2>5. CASE u = t /\ j = n
    BY <2>1, <2>2, <2>3, <2>4, <2>5 DEF FetchAttempt
  <2>6. CASE ~(u = t /\ j = n)
    <3>1. fetch'[u][j] = fetch[u][j]
      BY <2>3, <2>6
    <3>2. \A i \in Attempt : fetch'[u][i].at = fetch[u][i].at \/ fetch'[u][i].at = clock + 1
      BY <2>3
    <3>3. QED
      BY <2>1, <2>2, <2>4, <3>1, <3>2 DEF IInv, FetchAttempts, FetchAttempt
  <2>7. QED
    BY <2>5, <2>6
<1>2. ASSUME NEW t \in Table, NEW k \in Attempt, FetchRead(t, k) PROVE FetchAttempts'
  <2>1. fetch[t][k].pc = "querying" /\ UNCHANGED clock
    BY <1>2 DEF FetchRead
  <2>2. \A u \in Table, j \in Attempt :
           fetch'[u][j] = IF u = t /\ j = k THEN [pc |-> "read", at |-> fetch[t][k].at, rows |-> clock]
                                            ELSE fetch[u][j]
    BY <1>2, FetchMovesAt DEF FetchRead, IInv
  <2>3. \A u \in Table, j \in Attempt : fetch'[u][j].at = fetch[u][j].at
    BY <2>2
  <2>4. fetch[t][k].at # 0 /\ fetch[t][k].at <= clock
    BY <2>1 DEF IInv, FetchAttempts
  <2>5. QED
    BY <2>1, <2>2, <2>3, <2>4 DEF IInv, FetchAttempts
<1>3. ASSUME NEW t \in Table, NEW k \in Attempt, FetchGoesOn(t, k) PROVE FetchAttempts'
  <2>1. PICK pc \in {"spooled", "gone"} : /\ FetchMoves(t, k, pc, fetch[t][k].rows)
                                          /\ pc = "spooled" => fetch[t][k].pc = "read"
    BY <1>3 DEF FetchGoesOn
  <2>2. \A u \in Table, j \in Attempt :
           fetch'[u][j] = IF u = t /\ j = k
                            THEN [pc |-> pc, at |-> fetch[t][k].at, rows |-> fetch[t][k].rows]
                            ELSE fetch[u][j]
    BY <2>1, FetchMovesAt DEF IInv
  <2>3. \A u \in Table, j \in Attempt :
           fetch'[u][j].at = fetch[u][j].at /\ fetch'[u][j].rows = fetch[u][j].rows
    BY <2>2
  <2>4. fetch[t][k].pc # "idle" /\ clock' = clock
    BY <1>3 DEF FetchGoesOn
  <2>5. QED
    BY <2>1, <2>2, <2>3, <2>4 DEF IInv, FetchAttempts
<1>4. CASE UNCHANGED <<fetch, clock>>
  BY <1>4 DEF FetchAttempts, IInv
<1>5. QED
  BY <1>1, <1>2, <1>3, <1>4, FetchChanges

(* What was fetched once stays fetched.                                    *)
LEMMA OneFetchStable ==
    ASSUME IInv, [Next]_vars, NEW t \in Table, NEW file, OneFetch(t, file)
    PROVE  OneFetch(t, file)'
<1>1. PICK k \in Attempt : /\ fetch[t][k].at = file.at
                           /\ fetch[t][k].rows = file.rows
                           /\ 0 < file.at
                           /\ file.at <= file.rows
  BY DEF OneFetch
<1>2. fetch[t][k].at # 0 /\ fetch[t][k].rows # 0
  BY <1>1 DEF IInv, TypeOK, FetchAttempt
<1>3. fetch'[t][k].at = fetch[t][k].at /\ fetch'[t][k].rows = fetch[t][k].rows
  <2>1. ASSUME NEW u \in Table, FetchStart(u)
        PROVE  fetch'[t][k] = fetch[t][k]
    <3>1. fetch[u][attempt[u] + 1].at = 0
      BY <2>1, FreshAttempt
    <3>2. ~(t = u /\ k = attempt[u] + 1)
      BY <1>2, <3>1
    <3>3. QED
      BY <2>1, <3>2, FreshAttempt
  <2>2. ASSUME NEW u \in Table, NEW j \in Attempt, FetchRead(u, j)
        PROVE  fetch'[t][k] = fetch[t][k]
    <3>1. fetch[u][j].rows = 0
      BY <2>2 DEF FetchRead, IInv, FetchAttempts
    <3>2. ~(t = u /\ k = j)
      BY <1>2, <3>1
    <3>3. fetch'[t][k] = IF t = u /\ k = j
                           THEN [pc |-> "read", at |-> fetch[u][j].at, rows |-> clock]
                           ELSE fetch[t][k]
      BY <2>2, FetchMovesAt DEF FetchRead, IInv
    <3>4. QED
      BY <3>2, <3>3
  <2>3. ASSUME NEW u \in Table, NEW j \in Attempt, FetchGoesOn(u, j)
        PROVE  fetch'[t][k].at = fetch[t][k].at /\ fetch'[t][k].rows = fetch[t][k].rows
    <3>1. PICK pc : FetchMoves(u, j, pc, fetch[u][j].rows)
      BY <2>3 DEF FetchGoesOn
    <3>2. fetch'[t][k] = IF t = u /\ k = j
                           THEN [pc |-> pc, at |-> fetch[u][j].at, rows |-> fetch[u][j].rows]
                           ELSE fetch[t][k]
      BY <3>1, FetchMovesAt DEF IInv
    <3>3. QED
      BY <3>2
  <2>4. CASE UNCHANGED <<fetch, clock>>
    BY <2>4
  <2>5. QED
    BY <2>1, <2>2, <2>3, <2>4, FetchChanges
<1>4. QED
  BY <1>1, <1>3 DEF OneFetch

(* How a step changes what the server knows of a table.                    *)
Reschedule(t) ==
    /\ task' = [task EXCEPT ![t] = "scheduled"]
    /\ UNCHANGED <<stage, attempt, ref, writeErr, verdict, run>>

ServerChange(t) ==
    \/ NextAttempt(t, stage[t])
    \/ Reschedule(t)
    \/ ActivityFails(t)
    \/ /\ stage[t] = "fetch"
       /\ \E k \in Attempt : /\ fetch[t][k].pc = "spooled"
                             /\ FetchMoves(t, k, "gone", fetch[t][k].rows)
                             /\ FetchCompletes(t, fetch[t][k].at)
    \/ /\ stage[t] = "write"
       /\ \E k \in Attempt : write[t][k].pc = "written"
       /\ WriteCompletes(t)
    \/ /\ stage[t] = "delete"
       /\ \E k \in Attempt : remove[t][k] = "removed"
       /\ DeleteCompletes(t)

LEMMA ServerChanges ==
    ASSUME [Next]_vars
    PROVE  Finish \/ UNCHANGED serverVars \/ \E t \in Table : ServerChange(t)
<1> USE DEF ServerChange
<1>1. CASE UNCHANGED vars
  BY <1>1 DEF vars
<1>2. ASSUME NEW t \in Table, Start(t) PROVE ServerChange(t)
  BY <1>2 DEF Start, FetchStart, WriteStart, DeleteStart, NextAttempt
<1>3. ASSUME NEW t \in Table, RetryOrFail(t) PROVE ServerChange(t)
  BY <1>3 DEF RetryOrFail, Reschedule
<1>4. ASSUME NEW t \in Table, NEW k \in Attempt, FetchStep(t, k)
      PROVE  UNCHANGED serverVars \/ ServerChange(t)
  BY <1>3, <1>4 DEF FetchStep, FetchRead, FetchSpool, FetchAnswer, FetchError, FetchLost, Answer, Awaited
<1>5. ASSUME NEW t \in Table, NEW k \in Attempt, WriteStep(t, k)
      PROVE  UNCHANGED serverVars \/ ServerChange(t)
  BY <1>3, <1>5 DEF WriteStep, WriteRead, WriteMismatch, WritePut, WriteAnswer, WriteError, WriteLost,
       Answer, Awaited
<1>6. ASSUME NEW t \in Table, NEW k \in Attempt, DeleteStep(t, k)
      PROVE  UNCHANGED serverVars \/ ServerChange(t)
  BY <1>3, <1>6 DEF DeleteStep, DeleteRemove, DeleteAnswer, DeleteError, DeleteLost, Answer, Awaited
<1>7. QED
  BY <1>1, <1>2, <1>3, <1>4, <1>5, <1>6 DEF Next, Timeout

(* How a step changes a WriteWindow attempt, a DeleteSpool attempt, the    *)
(* spool and the bronze file.                                              *)
WriteChange(t, k) ==
    \/ write'[t][k] = write[t][k]
    \/ stage[t] = "write" /\ write'[t][k].pc = "reading"
    \/ /\ write[t][k].pc = "reading"
       /\ spool[t] # Nothing /\ spool[t].at = ref[t]
       /\ write'[t][k] = [pc |-> "writing", rows |-> spool[t].rows]
    \/ /\ write[t][k].pc = "writing"
       /\ write'[t][k] = [pc |-> "written", rows |-> write[t][k].rows]
       /\ bronze'[t] = [at |-> ref[t], rows |-> write[t][k].rows]
    \/ write[t][k].pc # "idle" /\ write'[t][k].pc = "gone"

LEMMA WriteChanges ==
    ASSUME IInv, [Next]_vars, NEW t \in Table, NEW k \in Attempt
    PROVE  WriteChange(t, k)
<1> USE DEF WriteChange
<1>1. CASE UNCHANGED write
  BY <1>1
<1>2. ASSUME NEW u \in Table, WriteStart(u) PROVE WriteChange(t, k)
  <2>1. attempt[u] + 1 \in Attempt /\ stage[u] = "write"
    BY <1>2, NextAttemptType, Halves DEF WriteStart, IInv, NextAttempt
  <2>2. write'[t][k] = IF t = u /\ k = attempt[u] + 1 THEN [pc |-> "reading", rows |-> 0] ELSE write[t][k]
    BY <1>2, <2>1, WriteMovesAt DEF WriteStart, IInv
  <2>3. QED
    BY <2>1, <2>2
<1>3. ASSUME NEW u \in Table, NEW j \in Attempt, WriteRead(u, j)
      PROVE  WriteChange(t, k)
  <2>1. write'[t][k] = IF t = u /\ k = j THEN [pc |-> "writing", rows |-> spool[u].rows] ELSE write[t][k]
    BY <1>3, WriteMovesAt DEF WriteRead, IInv
  <2>2. QED
    BY <1>3, <2>1 DEF WriteRead, Matches
<1>4. ASSUME NEW u \in Table, NEW j \in Attempt, WritePut(u, j)
      PROVE  WriteChange(t, k)
  <2>1. bronze'[u] = [at |-> ref[u], rows |-> write[u][j].rows]
    BY <1>4 DEF WritePut, IInv, TypeOK
  <2>2. write'[t][k] = IF t = u /\ k = j THEN [pc |-> "written", rows |-> write[u][j].rows] ELSE write[t][k]
    BY <1>4, WriteMovesAt DEF WritePut, IInv
  <2>3. QED
    BY <1>4, <2>1, <2>2 DEF WritePut
<1>5. ASSUME NEW u \in Table, NEW j \in Attempt,
             write[u][j].pc # "idle", WriteMoves(u, j, "gone", write[u][j].rows)
      PROVE  WriteChange(t, k)
  <2>1. write'[t][k] = IF t = u /\ k = j THEN [pc |-> "gone", rows |-> write[u][j].rows] ELSE write[t][k]
    BY <1>5, WriteMovesAt DEF IInv
  <2>2. QED
    BY <1>5, <2>1
<1>6. ASSUME NEW u \in Table, NEW j \in Attempt, WriteStep(u, j)
      PROVE  WriteChange(t, k)
  BY <1>3, <1>4, <1>5, <1>6 DEF WriteStep, WriteMismatch, WriteAnswer, WriteError, WriteLost
<1>7. ASSUME NEW u \in Table, NEW j \in Attempt, FetchStep(u, j) \/ DeleteStep(u, j)
      PROVE UNCHANGED write
  BY <1>7 DEF FetchStep, FetchRead, FetchSpool, FetchAnswer, FetchError, FetchLost,
       DeleteStep, DeleteRemove, DeleteAnswer, DeleteError, DeleteLost
<1>8. ASSUME NEW u \in Table, FetchStart(u) \/ DeleteStart(u) \/ Timeout(u)
      PROVE UNCHANGED write
  BY <1>8 DEF FetchStart, DeleteStart, Timeout, workerVars
<1>9. QED
  BY <1>1, <1>2, <1>6, <1>7, <1>8 DEF Next, Start, Finish, vars, workerVars

RemoveChange(t, k) ==
    \/ remove'[t][k] = remove[t][k]
    \/ stage[t] = "delete" /\ remove'[t][k] = "removing"
    \/ remove[t][k] = "removing" /\ remove'[t][k] = "removed" /\ spool'[t] = Nothing
    \/ remove[t][k] # "idle" /\ remove'[t][k] = "gone"

LEMMA RemoveChanges ==
    ASSUME IInv, [Next]_vars
    PROVE  \A t \in Table, k \in Attempt : RemoveChange(t, k)
<1> USE DEF RemoveChange
<1>1. CASE UNCHANGED remove
  BY <1>1
<1>2. ASSUME NEW u \in Table, DeleteStart(u) PROVE \A t \in Table, k \in Attempt : RemoveChange(t, k)
  <2>1. attempt[u] + 1 \in Attempt /\ stage[u] = "delete"
    BY <1>2, NextAttemptType, Halves DEF DeleteStart, IInv, NextAttempt
  <2>2. QED
    BY <1>2, <2>1, RemoveMovesAt DEF DeleteStart, IInv
<1>3. ASSUME NEW u \in Table, NEW j \in Attempt, DeleteRemove(u, j)
      PROVE \A t \in Table, k \in Attempt : RemoveChange(t, k)
  <2>1. spool'[u] = Nothing
    BY <1>3 DEF DeleteRemove, IInv, TypeOK
  <2>2. QED
    BY <1>3, <2>1, RemoveMovesAt DEF DeleteRemove, IInv
<1>4. ASSUME NEW u \in Table, NEW j \in Attempt, remove[u][j] # "idle", RemoveMoves(u, j, "gone")
      PROVE \A t \in Table, k \in Attempt : RemoveChange(t, k)
  BY <1>4, RemoveMovesAt DEF IInv
<1>5. ASSUME NEW u \in Table, NEW j \in Attempt, DeleteStep(u, j)
      PROVE \A t \in Table, k \in Attempt : RemoveChange(t, k)
  BY <1>3, <1>4, <1>5 DEF DeleteStep, DeleteAnswer, DeleteError, DeleteLost
<1>6. ASSUME NEW u \in Table, NEW j \in Attempt, FetchStep(u, j) \/ WriteStep(u, j)
      PROVE UNCHANGED remove
  BY <1>6 DEF FetchStep, FetchRead, FetchSpool, FetchAnswer, FetchError, FetchLost,
       WriteStep, WriteRead, WriteMismatch, WritePut, WriteAnswer, WriteError, WriteLost
<1>7. ASSUME NEW u \in Table, FetchStart(u) \/ WriteStart(u) \/ Timeout(u)
      PROVE UNCHANGED remove
  BY <1>7 DEF FetchStart, WriteStart, Timeout, workerVars
<1>8. QED
  BY <1>1, <1>2, <1>5, <1>6, <1>7 DEF Next, Start, Finish, vars, workerVars

SpoolChange(t) ==
    \/ spool'[t] = spool[t]
    \/ spool'[t] = Nothing /\ \E k \in Attempt : remove[t][k] = "removing"
    \/ \E k \in Attempt : /\ fetch[t][k].pc = "read"
                          /\ spool'[t] = [at |-> fetch[t][k].at, rows |-> fetch[t][k].rows]

BronzeChange(t) ==
    \/ bronze'[t] = bronze[t]
    \/ \E k \in Attempt : /\ write[t][k].pc = "writing"
                          /\ bronze'[t] = [at |-> ref[t], rows |-> write[t][k].rows]

LEMMA FileChanges ==
    ASSUME IInv, [Next]_vars
    PROVE  \A t \in Table : SpoolChange(t) /\ BronzeChange(t)
<1> USE DEF SpoolChange, BronzeChange, IInv, TypeOK
<1>1. CASE UNCHANGED <<spool, bronze>>
  BY <1>1
<1>2. ASSUME NEW u \in Table, NEW j \in Attempt, FetchSpool(u, j)
      PROVE \A t \in Table : SpoolChange(t) /\ BronzeChange(t)
  BY <1>2 DEF FetchSpool
<1>3. ASSUME NEW u \in Table, NEW j \in Attempt, DeleteRemove(u, j)
      PROVE \A t \in Table : SpoolChange(t) /\ BronzeChange(t)
  BY <1>3 DEF DeleteRemove
<1>4. ASSUME NEW u \in Table, NEW j \in Attempt, WritePut(u, j)
      PROVE \A t \in Table : SpoolChange(t) /\ BronzeChange(t)
  BY <1>4 DEF WritePut
<1>5. ASSUME NEW u \in Table, NEW j \in Attempt, FetchStep(u, j) \/ WriteStep(u, j) \/ DeleteStep(u, j)
      PROVE \/ FetchSpool(u, j) \/ DeleteRemove(u, j) \/ WritePut(u, j)
            \/ UNCHANGED <<spool, bronze>>
  BY <1>5 DEF FetchStep, FetchRead, FetchAnswer, FetchError, FetchLost,
       WriteStep, WriteRead, WriteMismatch, WriteAnswer, WriteError, WriteLost,
       DeleteStep, DeleteAnswer, DeleteError, DeleteLost
<1>6. ASSUME NEW u \in Table, Start(u) \/ Timeout(u)
      PROVE UNCHANGED <<spool, bronze>>
  BY <1>6 DEF Start, FetchStart, WriteStart, DeleteStart, Timeout
<1>7. QED
  BY <1>1, <1>2, <1>3, <1>4, <1>5, <1>6 DEF Next, Finish, vars

-----------------------------------------------------------------------------
(* The invariant is kept, one conjunct at a time.                          *)

(* A ref, once handed on, is never changed.                                *)
LEMMA RefChanges ==
    ASSUME IInv, [Next]_vars, NEW t \in Table
    PROVE  \/ ref'[t] = ref[t]
           \/ /\ ref[t] = 0 /\ stage[t] = "fetch"
              /\ \E k \in Attempt : /\ fetch[t][k].pc = "spooled"
                                    /\ FetchMoves(t, k, "gone", fetch[t][k].rows)
                                    /\ ref'[t] = fetch[t][k].at
                                    /\ ref'[t] # 0
<1>1. CASE Finish \/ UNCHANGED serverVars
  BY <1>1 DEF Finish, serverVars
<1>2. ASSUME NEW u \in Table, NextAttempt(u, stage[u]) \/ Reschedule(u) \/ ActivityFails(u)
                              \/ WriteCompletes(u) \/ DeleteCompletes(u)
      PROVE  ref' = ref
  BY <1>2 DEF NextAttempt, Reschedule, ActivityFails, WriteCompletes, DeleteCompletes
<1>3. ASSUME NEW u \in Table, NEW k \in Attempt, stage[u] = "fetch", fetch[u][k].pc = "spooled",
             FetchMoves(u, k, "gone", fetch[u][k].rows), FetchCompletes(u, fetch[u][k].at), t = u
      PROVE  /\ ref[t] = 0 /\ stage[t] = "fetch"
             /\ \E j \in Attempt : /\ fetch[t][j].pc = "spooled"
                                   /\ FetchMoves(t, j, "gone", fetch[t][j].rows)
                                   /\ ref'[t] = fetch[t][j].at
                                   /\ ref'[t] # 0
  <2>1. fetch[u][k].at # 0 /\ ref[u] = 0
    BY <1>3 DEF IInv, FetchAttempts, StageOrder
  <2>2. ref'[u] = fetch[u][k].at
    BY <1>3 DEF FetchCompletes, IInv, TypeOK
  <2>3. QED
    BY <1>3, <2>1, <2>2
<1>4. ASSUME NEW u \in Table, NEW k \in Attempt, FetchCompletes(u, fetch[u][k].at), t # u
      PROVE  ref'[t] = ref[t]
  BY <1>4 DEF FetchCompletes, IInv, TypeOK
<1>5. QED
  BY <1>1, <1>2, <1>3, <1>4, ServerChanges DEF ServerChange

LEMMA AttemptGrows ==
    ASSUME TypeOK, NEW t \in Table, NEW u \in Table, NextAttempt(u, stage[u]) \/ Reschedule(u)
    PROVE  attempt[t] <= attempt'[t]
<1>1. attempt[t] \in Nat
  BY DEF TypeOK
<1>2. CASE attempt' = attempt
  BY <1>1, <1>2
<1>3. CASE attempt' = [attempt EXCEPT ![u] = @ + 1]
  BY <1>1, <1>3 DEF TypeOK
<1>4. QED
  BY <1>2, <1>3 DEF NextAttempt, Reschedule

(* A table leaves a stage only for a later one, and WriteWindow is not     *)
(* reached without a ref.                                                  *)
StageChange(t) ==
    /\ stage'[t] = "fetch" => stage[t] = "fetch" /\ attempt[t] <= attempt'[t] /\ ref'[t] = ref[t]
    /\ stage'[t] \in {"write", "delete"} => ref'[t] # 0
    /\ stage'[t] = "done" <=> verdict'[t] # "none"

LEMMA StageChanges ==
    ASSUME IInv, [Next]_vars, NEW t \in Table
    PROVE  StageChange(t)
<1> USE DEF StageChange, IInv, TypeOK, StageOrder, MoveTo
<1>1. CASE Finish \/ UNCHANGED serverVars
  BY <1>1 DEF Finish, serverVars
<1>2. ASSUME NEW u \in Table, NextAttempt(u, stage[u]) \/ Reschedule(u)
      PROVE  StageChange(t)
  <2>1. UNCHANGED <<stage, verdict, ref>>
    BY <1>2 DEF NextAttempt, Reschedule
  <2>2. attempt[t] <= attempt'[t]
    BY <1>2, AttemptGrows
  <2>3. QED
    BY <2>1, <2>2
<1>3. ASSUME NEW u \in Table, NEW v \in {"failed", "ok"}, Return(u, v), UNCHANGED ref
      PROVE  StageChange(t)
  BY <1>3 DEF Return
<1>4. ASSUME NEW u \in Table, MoveTo(u, "delete"), stage[u] = "write", UNCHANGED <<verdict, ref>>
      PROVE  StageChange(t)
  BY <1>4
<1>5. ASSUME NEW u \in Table, ActivityFails(u) PROVE StageChange(t)
  BY <1>3, <1>4, <1>5 DEF ActivityFails
<1>6. ASSUME NEW u \in Table, stage[u] = "write", WriteCompletes(u) PROVE StageChange(t)
  BY <1>4, <1>6 DEF WriteCompletes
<1>7. ASSUME NEW u \in Table, DeleteCompletes(u) PROVE StageChange(t)
  BY <1>3, <1>7 DEF DeleteCompletes
<1>8. ASSUME NEW u \in Table, NEW k \in Attempt, stage[u] = "fetch", fetch[u][k].pc = "spooled",
             FetchCompletes(u, fetch[u][k].at)
      PROVE  StageChange(t)
  <2>1. fetch[u][k].at # 0
    BY <1>8 DEF FetchAttempts
  <2>2. QED
    BY <1>8, <2>1 DEF FetchCompletes
<1>9. ASSUME NEW u \in Table, ServerChange(u) PROVE StageChange(t)
  <2> USE <1>9
  <2>1. CASE NextAttempt(u, stage[u]) \/ Reschedule(u)
    BY <2>1, <1>2
  <2>2. CASE ActivityFails(u)
    BY <2>2, <1>5
  <2>3. CASE stage[u] = "fetch" /\ \E k \in Attempt : fetch[u][k].pc = "spooled" /\ FetchCompletes(u, fetch[u][k].at)
    BY <2>3, <1>8
  <2>4. CASE stage[u] = "write" /\ WriteCompletes(u)
    BY <2>4, <1>6
  <2>5. CASE DeleteCompletes(u)
    BY <2>5, <1>7
  <2>6. QED
    BY <2>1, <2>2, <2>3, <2>4, <2>5 DEF ServerChange
<1>10. QED
  BY <1>1, <1>9, ServerChanges

LEMMA StageOrderStep ==
    ASSUME IInv, [Next]_vars
    PROVE  StageOrder'
<1> SUFFICES ASSUME NEW t \in Table
             PROVE  /\ stage'[t] = "fetch" =>
                         /\ ref'[t] = 0
                         /\ \A k \in Attempt : k > attempt'[t] => fetch'[t][k].pc = "idle"
                    /\ stage'[t] \in {"write", "delete"} => ref'[t] # 0
                    /\ stage'[t] = "done" <=> verdict'[t] # "none"
                    /\ ref'[t] = 0 => \A k \in Attempt : write'[t][k].pc = "idle" /\ remove'[t][k] = "idle"
  BY DEF StageOrder
<1>1. /\ stage'[t] = "fetch" => ref'[t] = 0
      /\ stage'[t] \in {"write", "delete"} => ref'[t] # 0
      /\ stage'[t] = "done" <=> verdict'[t] # "none"
  BY StageChanges DEF StageChange, IInv, StageOrder
<1>2. ASSUME stage'[t] = "fetch", NEW k \in Attempt, k > attempt'[t]
      PROVE  fetch'[t][k].pc = "idle"
  <2>1. stage[t] = "fetch" /\ attempt[t] <= attempt'[t]
    BY <1>2, StageChanges DEF StageChange
  <2>2. fetch[t][k].pc = "idle"
    <3>1. attempt'[t] \in 0 .. MaxAttempts
      BY TypeStep, Halves DEF IInv, ServerType
    <3>2. k > attempt[t]
      BY <1>2, <2>1, <3>1 DEF IInv, TypeOK
    <3>3. QED
      BY <2>1, <3>2 DEF IInv, StageOrder
  <2>3. ASSUME NEW u \in Table, FetchStart(u) PROVE fetch'[t][k] = fetch[t][k]
    <3>1. u = t => k # attempt[t] + 1
      BY <1>2, <2>3 DEF FetchStart, NextAttempt, IInv, TypeOK
    <3>2. QED
      BY <2>3, <3>1, FreshAttempt
  <2>4. ASSUME NEW u \in Table, NEW j \in Attempt, NEW pc, NEW rows,
               fetch[u][j].pc # "idle", FetchMoves(u, j, pc, rows)
        PROVE  fetch'[t][k] = fetch[t][k]
    <3>1. fetch'[t][k] = IF t = u /\ k = j
                           THEN [pc |-> pc, at |-> fetch[u][j].at, rows |-> rows]
                           ELSE fetch[t][k]
      BY <2>4, FetchMovesAt DEF IInv
    <3>2. QED
      BY <2>2, <2>4, <3>1
  <2>5. ASSUME NEW u \in Table, NEW j \in Attempt, FetchRead(u, j) \/ FetchGoesOn(u, j)
        PROVE  fetch'[t][k] = fetch[t][k]
    BY <2>4, <2>5 DEF FetchRead, FetchGoesOn
  <2>6. QED
    BY <2>2, <2>3, <2>5, FetchChanges
<1>3. ASSUME ref'[t] = 0, NEW k \in Attempt
      PROVE  write'[t][k].pc = "idle" /\ remove'[t][k] = "idle"
  <2>1. ref[t] = 0
    BY <1>3, RefChanges
  <2>2. write[t][k].pc = "idle" /\ remove[t][k] = "idle" /\ stage[t] \notin {"write", "delete"}
    BY <2>1 DEF IInv, StageOrder
  <2>3. write'[t][k] = write[t][k]
    BY <2>2, WriteChanges DEF WriteChange
  <2>4. remove'[t][k] = remove[t][k]
    BY <2>2, RemoveChanges DEF RemoveChange
  <2>5. QED
    BY <2>2, <2>3, <2>4
<1>4. QED
  BY <1>1, <1>2, <1>3

LEMMA CopiesStep ==
    ASSUME IInv, [Next]_vars
    PROVE  Copies'
<1> SUFFICES ASSUME NEW t \in Table
             PROVE  /\ spool'[t] # Nothing => OneFetch(t, spool[t])'
                    /\ bronze'[t] # Nothing => bronze'[t].at = ref'[t] /\ OneFetch(t, bronze[t])'
                    /\ \A k \in Attempt : write'[t][k].pc \in {"writing", "written"} =>
                         OneFetch(t, [at |-> ref[t], rows |-> write[t][k].rows])'
  BY DEF Copies
<1>1. spool'[t] # Nothing => OneFetch(t, spool[t])'
  <2>1. CASE spool'[t] = spool[t]
    <3>1. spool[t] # Nothing => OneFetch(t, spool[t])
      BY DEF IInv, Copies
    <3>2. QED
      BY <2>1, <3>1, OneFetchStable DEF OneFetch
  <2>2. ASSUME NEW k \in Attempt, fetch[t][k].pc = "read",
               spool'[t] = [at |-> fetch[t][k].at, rows |-> fetch[t][k].rows]
        PROVE  OneFetch(t, spool[t])'
    <3> DEFINE file == [at |-> fetch[t][k].at, rows |-> fetch[t][k].rows]
    <3>1. OneFetch(t, file)
      BY <2>2 DEF OneFetch, IInv, FetchAttempts, TypeOK, FetchAttempt
    <3>2. QED
      BY <2>2, <3>1, OneFetchStable DEF OneFetch
  <2>3. QED
    BY <2>1, <2>2, FileChanges DEF SpoolChange
<1>2. bronze'[t] # Nothing => bronze'[t].at = ref'[t] /\ OneFetch(t, bronze[t])'
  <2>1. CASE bronze'[t] = bronze[t]
    <3>1. bronze[t] # Nothing => bronze[t].at = ref[t] /\ ref[t] # 0 /\ OneFetch(t, bronze[t])
      BY DEF IInv, Copies, OneFetch
    <3>2. bronze[t] # Nothing => ref'[t] = ref[t]
      BY <3>1, RefChanges
    <3>3. QED
      BY <2>1, <3>1, <3>2, OneFetchStable DEF OneFetch
  <2>2. ASSUME NEW k \in Attempt, write[t][k].pc = "writing",
               bronze'[t] = [at |-> ref[t], rows |-> write[t][k].rows]
        PROVE  bronze'[t].at = ref'[t] /\ OneFetch(t, bronze[t])'
    <3> DEFINE file == [at |-> ref[t], rows |-> write[t][k].rows]
    <3>1. OneFetch(t, file)
      BY <2>2 DEF IInv, Copies
    <3>2. ref'[t] = ref[t]
      BY <2>2, RefChanges DEF IInv, StageOrder
    <3>3. QED
      BY <2>2, <3>1, <3>2, OneFetchStable DEF OneFetch
  <2>3. QED
    BY <2>1, <2>2, FileChanges DEF BronzeChange
<1>3. ASSUME NEW k \in Attempt, write'[t][k].pc \in {"writing", "written"}
      PROVE  OneFetch(t, [at |-> ref[t], rows |-> write[t][k].rows])'
  <2>1. CASE write[t][k].pc \in {"writing", "written"} /\ write'[t][k].rows = write[t][k].rows
    <3> DEFINE file == [at |-> ref[t], rows |-> write[t][k].rows]
    <3>1. OneFetch(t, file)
      BY <2>1 DEF IInv, Copies
    <3>2. ref'[t] = ref[t]
      BY <2>1, RefChanges DEF IInv, StageOrder
    <3>3. QED
      BY <2>1, <3>1, <3>2, OneFetchStable DEF OneFetch
  <2>2. CASE /\ write[t][k].pc = "reading"
             /\ spool[t] # Nothing /\ spool[t].at = ref[t]
             /\ write'[t][k] = [pc |-> "writing", rows |-> spool[t].rows]
    <3> DEFINE file == spool[t]
    <3>1. OneFetch(t, file)
      BY <2>2 DEF IInv, Copies
    <3>2. ref'[t] = ref[t]
      BY <2>2, RefChanges DEF IInv, StageOrder
    <3>3. QED
      BY <2>2, <3>1, <3>2, OneFetchStable DEF OneFetch
  <2>3. CASE write'[t][k] = write[t][k]
    BY <1>3, <2>1, <2>3
  <2>4. CASE /\ write[t][k].pc = "writing"
             /\ write'[t][k] = [pc |-> "written", rows |-> write[t][k].rows]
    BY <2>1, <2>4
  <2>5. WriteChange(t, k)
    BY WriteChanges
  <2>6. QED
    BY <1>3, <2>2, <2>3, <2>4, <2>5 DEF WriteChange
<1>4. QED
  BY <1>1, <1>2, <1>3

LEMMA RefFromFinishedStep ==
    ASSUME IInv, [Next]_vars
    PROVE  RefFromFinished'
<1> SUFFICES ASSUME NEW t \in Table, ref'[t] # 0
             PROVE  \E k \in Attempt : fetch'[t][k].pc = "gone" /\ fetch'[t][k].at = ref'[t]
  BY DEF RefFromFinished
<1>1. ASSUME NEW k \in Attempt, FetchMoves(t, k, "gone", fetch[t][k].rows), ref'[t] = fetch[t][k].at
      PROVE  fetch'[t][k].pc = "gone" /\ fetch'[t][k].at = ref'[t]
  <2>1. fetch'[t][k] = [pc |-> "gone", at |-> fetch[t][k].at, rows |-> fetch[t][k].rows]
    BY <1>1, FetchMovesAt DEF IInv
  <2>2. QED
    BY <1>1, <2>1
<1>2. ASSUME ref'[t] = ref[t]
      PROVE  \E k \in Attempt : fetch'[t][k].pc = "gone" /\ fetch'[t][k].at = ref'[t]
  <2>1. PICK k \in Attempt : fetch[t][k].pc = "gone" /\ fetch[t][k].at = ref[t]
    BY <1>2 DEF IInv, RefFromFinished
  <2>2. ASSUME NEW u \in Table, FetchStart(u) PROVE fetch'[t][k] = fetch[t][k]
    <3>1. ~(t = u /\ k = attempt[u] + 1)
      BY <2>1, <2>2, FreshAttempt
    <3>2. QED
      BY <2>2, <3>1, FreshAttempt
  <2>3. ASSUME NEW u \in Table, NEW j \in Attempt, NEW pc, NEW rows,
               fetch[u][j].pc # "gone", FetchMoves(u, j, pc, rows)
        PROVE  fetch'[t][k] = fetch[t][k]
    <3>1. fetch'[t][k] = IF t = u /\ k = j
                           THEN [pc |-> pc, at |-> fetch[u][j].at, rows |-> rows]
                           ELSE fetch[t][k]
      BY <2>3, FetchMovesAt DEF IInv
    <3>2. QED
      BY <2>1, <2>3, <3>1
  <2>4. ASSUME NEW u \in Table, NEW j \in Attempt, FetchRead(u, j) \/ FetchGoesOn(u, j)
        PROVE  fetch'[t][k] = fetch[t][k]
    BY <2>3, <2>4 DEF FetchRead, FetchGoesOn
  <2>5. fetch'[t][k] = fetch[t][k]
    BY <2>2, <2>4, FetchChanges
  <2>6. QED
    BY <1>2, <2>1, <2>5
<1>3. QED
  BY <1>1, <1>2, RefChanges

(* A bronze file the run has replaced stays as it is: a later rename       *)
(* brings the same rows under the same instant, for no two attempts share  *)
(* an instant.                                                             *)
LEMMA BronzeStable ==
    ASSUME IInv, [Next]_vars, NEW t \in Table, bronze[t] # Nothing
    PROVE  bronze'[t] = bronze[t]
<1>1. ASSUME NEW k \in Attempt, write[t][k].pc = "writing",
             bronze'[t] = [at |-> ref[t], rows |-> write[t][k].rows]
      PROVE  bronze'[t] = bronze[t]
  <2>1. bronze[t].at = ref[t] /\ bronze[t] \in File
    BY DEF IInv, Copies, TypeOK
  <2>2. PICK i \in Attempt : fetch[t][i].at = bronze[t].at /\ fetch[t][i].rows = bronze[t].rows /\ 0 < bronze[t].at
    BY DEF IInv, Copies, OneFetch
  <2>3. PICK j \in Attempt : fetch[t][j].at = ref[t] /\ fetch[t][j].rows = write[t][k].rows
    BY <1>1 DEF IInv, Copies, OneFetch
  <2>4. i = j
    BY <2>1, <2>2, <2>3 DEF IInv, FetchAttempts, File
  <2>5. bronze[t].rows = write[t][k].rows
    BY <2>2, <2>3, <2>4
  <2>6. QED
    BY <1>1, <2>1, <2>5 DEF File
<1>2. QED
  BY <1>1, FileChanges DEF BronzeChange

(* How a verdict is reached, and how DeleteSpool is, with no error kept.   *)
VerdictChange(t) ==
    /\ \/ verdict'[t] = verdict[t]
       \/ verdict[t] = "none" /\ verdict'[t] = "failed"
       \/ /\ verdict[t] = "none" /\ verdict'[t] = "ok"
          /\ stage[t] = "delete" /\ writeErr[t] = "nil"
          /\ \E k \in Attempt : remove[t][k] = "removed"
    /\ stage'[t] = "delete" /\ writeErr'[t] = "nil" =>
         \/ stage[t] = "delete" /\ writeErr[t] = "nil"
         \/ \E k \in Attempt : write[t][k].pc = "written"

LEMMA VerdictChanges ==
    ASSUME IInv, [Next]_vars, NEW t \in Table
    PROVE  VerdictChange(t)
<1> USE DEF VerdictChange, TypeOK, MoveTo, Return
<1>0. TypeOK /\ \A u \in Table : stage[u] = "done" <=> verdict[u] # "none"
  BY DEF IInv, StageOrder
<1>1. CASE Finish \/ UNCHANGED serverVars
  BY <1>0, <1>1 DEF Finish, serverVars
<1>2. ASSUME NEW u \in Table, NextAttempt(u, stage[u]) \/ Reschedule(u)
      PROVE  VerdictChange(t)
  BY <1>0, <1>2 DEF NextAttempt, Reschedule
<1>3. ASSUME NEW u \in Table, ActivityFails(u) PROVE VerdictChange(t)
  BY <1>0, <1>3 DEF ActivityFails
<1>4. ASSUME NEW u \in Table, NEW k \in Attempt, FetchCompletes(u, fetch[u][k].at) PROVE VerdictChange(t)
  BY <1>0, <1>4 DEF FetchCompletes
<1>5. ASSUME NEW u \in Table, WriteCompletes(u), \E k \in Attempt : write[u][k].pc = "written"
      PROVE  VerdictChange(t)
  BY <1>0, <1>5 DEF WriteCompletes
<1>6. ASSUME NEW u \in Table, DeleteCompletes(u), stage[u] = "delete",
             \E k \in Attempt : remove[u][k] = "removed"
      PROVE  VerdictChange(t)
  BY <1>0, <1>6 DEF DeleteCompletes
<1>7. ASSUME NEW u \in Table, ServerChange(u) PROVE VerdictChange(t)
  BY <1>2, <1>3, <1>4, <1>5, <1>6, <1>7 DEF ServerChange
<1>8. QED
  BY <1>1, <1>7, ServerChanges

LEMMA SuccessIsEarnedStep ==
    ASSUME IInv, [Next]_vars
    PROVE  SuccessIsEarned'
<1> SUFFICES ASSUME NEW t \in Table
             PROVE  /\ \A k \in Attempt : write'[t][k].pc = "written" => bronze'[t] # Nothing
                    /\ stage'[t] = "delete" /\ writeErr'[t] = "nil" => bronze'[t] # Nothing
                    /\ verdict'[t] = "ok" => bronze'[t] # Nothing
  BY DEF SuccessIsEarned
<1>1. bronze[t] # Nothing => bronze'[t] # Nothing
  BY BronzeStable
<1>2. ASSUME NEW k \in Attempt, write'[t][k].pc = "written"
      PROVE  bronze'[t] # Nothing
  <2>1. CASE write'[t][k] = write[t][k]
    BY <1>1, <1>2, <2>1 DEF IInv, SuccessIsEarned
  <2>2. CASE write[t][k].pc = "writing" /\ bronze'[t] = [at |-> ref[t], rows |-> write[t][k].rows]
    <3>1. ref[t] # 0
      BY <2>2 DEF IInv, StageOrder
    <3>2. QED
      BY <2>2, <3>1 DEF Nothing
  <2>3. WriteChange(t, k)
    BY WriteChanges
  <2>4. QED
    BY <1>2, <2>1, <2>2, <2>3 DEF WriteChange
<1>3. stage'[t] = "delete" /\ writeErr'[t] = "nil" => bronze'[t] # Nothing
  BY <1>1, VerdictChanges DEF VerdictChange, IInv, SuccessIsEarned
<1>4. verdict'[t] = "ok" => bronze'[t] # Nothing
  BY <1>1, VerdictChanges DEF VerdictChange, IInv, SuccessIsEarned
<1>5. QED
  BY <1>2, <1>3, <1>4

LEMMA RedeemedSpoolIsGoneStep ==
    ASSUME IInv, [Next]_vars
    PROVE  RedeemedSpoolIsGone'
<1> SUFFICES ASSUME NEW t \in Table,
                    verdict'[t] = "ok" \/ \E k \in Attempt : remove'[t][k] = "removed"
             PROVE  spool'[t].at # ref'[t]
  BY DEF RedeemedSpoolIsGone
<1>1. ASSUME spool[t].at # ref[t], ref[t] # 0 PROVE spool'[t].at # ref'[t]
  <2>1. ref'[t] = ref[t]
    BY <1>1, RefChanges
  <2>2. CASE spool'[t] = spool[t] \/ spool'[t] = Nothing
    BY <1>1, <2>1, <2>2 DEF Nothing
  <2>3. ASSUME NEW k \in Attempt, fetch[t][k].pc = "read", spool'[t].at = fetch[t][k].at
        PROVE  spool'[t].at # ref'[t]
    <3>1. PICK j \in Attempt : fetch[t][j].pc = "gone" /\ fetch[t][j].at = ref[t]
      BY <1>1 DEF IInv, RefFromFinished
    <3>2. fetch[t][k].at # fetch[t][j].at
      BY <1>1, <2>3, <3>1 DEF IInv, FetchAttempts
    <3>3. QED
      BY <2>1, <2>3, <3>1, <3>2
  <2>4. ASSUME NEW k \in Attempt, fetch[t][k].pc = "read",
               spool'[t] = [at |-> fetch[t][k].at, rows |-> fetch[t][k].rows]
        PROVE  spool'[t].at # ref'[t]
    <3>1. spool'[t].at = fetch[t][k].at
      BY <2>4
    <3>2. QED
      BY <2>3, <2>4, <3>1
  <2>5. SpoolChange(t)
    BY FileChanges
  <2>6. QED
    BY <2>2, <2>4, <2>5 DEF SpoolChange
<1>2. CASE verdict[t] = "ok" \/ \E k \in Attempt : remove[t][k] = "removed"
  <2>1. ref[t] # 0
    <3>1. verdict[t] = "ok" => bronze[t] # Nothing /\ bronze[t].at = ref[t] /\ OneFetch(t, bronze[t])
      BY DEF IInv, SuccessIsEarned, Copies
    <3>2. QED
      BY <1>2, <3>1 DEF IInv, StageOrder, OneFetch
  <2>2. QED
    BY <1>1, <1>2, <2>1 DEF IInv, RedeemedSpoolIsGone
<1>3. ASSUME NEW k \in Attempt, remove[t][k] = "removing", spool'[t] = Nothing
      PROVE  spool'[t].at # ref'[t]
  <2>1. ref[t] # 0
    BY <1>3 DEF IInv, StageOrder
  <2>2. QED
    BY <1>3, <2>1, RefChanges DEF Nothing
<1>4. CASE verdict'[t] = "ok" /\ verdict[t] # "ok"
  BY <1>2, <1>4, VerdictChanges DEF VerdictChange
<1>5. ASSUME NEW k \in Attempt, remove'[t][k] = "removed"
      PROVE  remove[t][k] = "removed" \/ (remove[t][k] = "removing" /\ spool'[t] = Nothing)
  <2>1. RemoveChange(t, k)
    BY RemoveChanges
  <2>2. QED
    BY <1>5, <2>1 DEF RemoveChange
<1>6. QED
  BY <1>2, <1>3, <1>4, <1>5

(* Where a table may come from when it waits for FetchWindow or WriteWindow. *)
LEMMA StageBack ==
    ASSUME IInv, [Next]_vars, NEW t \in Table, stage'[t] \in {"fetch", "write"}
    PROVE  /\ stage[t] \in {"fetch", "write"}
           /\ \/ stage[t] = stage'[t]
              \/ stage[t] = "fetch" /\ \E k \in Attempt : fetch[t][k].pc = "spooled"
<1> USE DEF IInv, TypeOK, MoveTo
<1>1. CASE Finish \/ UNCHANGED serverVars
  BY <1>1 DEF Finish, serverVars
<1>2. ASSUME NEW u \in Table, NextAttempt(u, stage[u]) \/ Reschedule(u) PROVE stage' = stage
  BY <1>2 DEF NextAttempt, Reschedule
<1>3. ASSUME NEW u \in Table,
             ActivityFails(u) \/ WriteCompletes(u) \/ DeleteCompletes(u)
      PROVE  stage' = stage \/ stage' = [stage EXCEPT ![u] = "done"]
                           \/ stage' = [stage EXCEPT ![u] = "delete"]
  BY <1>3 DEF ActivityFails, WriteCompletes, DeleteCompletes, Return
<1>4. ASSUME NEW u \in Table, NEW k \in Attempt, stage[u] = "fetch",
             fetch[u][k].pc = "spooled", FetchCompletes(u, fetch[u][k].at)
      PROVE  t = u \/ stage'[t] = stage[t]
  BY <1>4 DEF FetchCompletes
<1>5. ASSUME NEW u \in Table, ServerChange(u)
      PROVE  \/ stage'[t] = stage[t]
             \/ stage[t] = "fetch" /\ \E k \in Attempt : fetch[t][k].pc = "spooled"
  <2>1. CASE NextAttempt(u, stage[u]) \/ Reschedule(u)
    BY <1>2, <2>1
  <2>2. CASE ActivityFails(u) \/ WriteCompletes(u) \/ DeleteCompletes(u)
    <3>1. stage' = stage \/ stage' = [stage EXCEPT ![u] = "done"]
                        \/ stage' = [stage EXCEPT ![u] = "delete"]
      BY <1>3, <2>2
    <3>2. QED
      BY <3>1
  <2>3. CASE \E k \in Attempt : /\ stage[u] = "fetch" /\ fetch[u][k].pc = "spooled"
                               /\ FetchCompletes(u, fetch[u][k].at)
    <3>1. PICK k \in Attempt : /\ stage[u] = "fetch" /\ fetch[u][k].pc = "spooled"
                              /\ FetchCompletes(u, fetch[u][k].at)
      BY <2>3
    <3>2. t = u \/ stage'[t] = stage[t]
      BY <1>4, <3>1
    <3>3. QED
      BY <3>1, <3>2
  <2>4. QED
    BY <1>5, <2>1, <2>2, <2>3 DEF ServerChange
<1>6. QED
  BY <1>1, <1>5, ServerChanges

(* An attempt that has spooled has just put its file there, or had before. *)
LEMMA SpooledWrites ==
    ASSUME IInv, [Next]_vars, NEW t \in Table, NEW k \in Attempt, fetch'[t][k].pc = "spooled"
    PROVE  \/ fetch[t][k].pc = "spooled"
           \/ fetch[t][k].pc = "read" /\ spool'[t].at = fetch[t][k].at
<1> USE DEF IInv, TypeOK, FetchMoves
<1>1. CASE UNCHANGED fetch
  BY <1>1
<1>2. ASSUME NEW u \in Table, FetchStart(u) PROVE fetch[t][k].pc = "spooled"
  BY <1>2 DEF FetchStart
<1>3. ASSUME NEW u \in Table, NEW j \in Attempt, FetchSpool(u, j)
      PROVE  fetch[t][k].pc = "spooled" \/ (fetch[t][k].pc = "read" /\ spool'[t].at = fetch[t][k].at)
  BY <1>3 DEF FetchSpool
<1>4. ASSUME NEW u \in Table, NEW j \in Attempt,
             FetchRead(u, j) \/ FetchAnswer(u, j) \/ FetchError(u, j) \/ FetchLost(u, j)
      PROVE  fetch[t][k].pc = "spooled"
  <2>1. FetchMoves(u, j, "read", clock) \/ FetchMoves(u, j, "gone", fetch[u][j].rows)
    BY <1>4 DEF FetchRead, FetchAnswer, FetchError, FetchLost
  <2>2. ASSUME NEW pc \in {"read", "gone"}, NEW r, FetchMoves(u, j, pc, r)
        PROVE  fetch[t][k].pc = "spooled"
    <3>1. fetch'[t][k] = IF t = u /\ k = j THEN [pc |-> pc, at |-> fetch[u][j].at, rows |-> r]
                                           ELSE fetch[t][k]
      BY <2>2, FetchMovesAt
    <3>2. QED
      BY <3>1
  <2>3. QED
    BY <2>1, <2>2
<1>5. ASSUME NEW u \in Table, WriteStart(u) \/ DeleteStart(u) \/ Timeout(u)
      PROVE  UNCHANGED fetch
  BY <1>5 DEF WriteStart, DeleteStart, Timeout, workerVars
<1>6. ASSUME NEW u \in Table, NEW j \in Attempt, WriteStep(u, j) PROVE UNCHANGED fetch
  BY <1>6 DEF WriteStep, WriteRead, WriteMismatch, WritePut, WriteAnswer, WriteError, WriteLost
<1>7. ASSUME NEW u \in Table, NEW j \in Attempt, DeleteStep(u, j) PROVE UNCHANGED fetch
  BY <1>7 DEF DeleteStep, DeleteRemove, DeleteAnswer, DeleteError, DeleteLost
<1>8. QED
  BY <1>1, <1>2, <1>3, <1>4, <1>5, <1>6, <1>7 DEF Next, Start, FetchStep, Finish, vars, workerVars

LEMMA SpoolIsKeptStep ==
    ASSUME IInv, [Next]_vars
    PROVE  SpoolIsKept'
<1> SUFFICES ASSUME NEW t \in Table, stage'[t] \in {"fetch", "write"}
             PROVE  /\ \A k \in Attempt : remove'[t][k] = "idle"
                    /\ stage'[t] = "write" => spool'[t] # Nothing
                    /\ (\E k \in Attempt : fetch'[t][k].pc = "spooled") => spool'[t] # Nothing
  BY DEF SpoolIsKept
<1>1. stage[t] \in {"fetch", "write"}
  BY StageBack
<1>2. \A k \in Attempt : remove[t][k] = "idle"
  BY <1>1 DEF IInv, SpoolIsKept
<1>3. \A k \in Attempt : remove'[t][k] = "idle"
  <2>1. \A k \in Attempt : RemoveChange(t, k)
    BY RemoveChanges
  <2>2. QED
    BY <1>1, <1>2, <2>1 DEF RemoveChange
<1>4. \A k \in Attempt : fetch[t][k].pc = "read" => fetch[t][k].at # 0
  BY DEF IInv, FetchAttempts
<1>5. spool[t] # Nothing => spool'[t] # Nothing
  <2>1. SpoolChange(t)
    BY FileChanges
  <2>2. ASSUME NEW k \in Attempt, fetch[t][k].pc = "read",
               spool'[t] = [at |-> fetch[t][k].at, rows |-> fetch[t][k].rows]
        PROVE  spool'[t] # Nothing
    <3>1. spool'[t].at # 0
      BY <1>4, <2>2
    <3>2. QED
      BY <3>1 DEF Nothing
  <2>3. QED
    BY <1>2, <2>1, <2>2 DEF SpoolChange
<1>6. (\E k \in Attempt : fetch'[t][k].pc = "spooled") => spool'[t] # Nothing
  <2>1. ASSUME NEW k \in Attempt, fetch'[t][k].pc = "spooled" PROVE spool'[t] # Nothing
    <3>1. CASE fetch[t][k].pc = "spooled"
      BY <1>1, <1>5, <3>1 DEF IInv, SpoolIsKept
    <3>2. CASE fetch[t][k].pc = "read" /\ spool'[t].at = fetch[t][k].at
      BY <1>4, <3>2 DEF Nothing
    <3>3. QED
      BY <2>1, <3>1, <3>2, SpooledWrites
  <2>2. QED
    BY <2>1
<1>7. stage'[t] = "write" => spool'[t] # Nothing
  BY <1>1, <1>5, StageBack DEF IInv, SpoolIsKept
<1>8. QED
  BY <1>3, <1>6, <1>7

THEOREM Inductive == IInv /\ [Next]_vars => IInv'
<1> SUFFICES ASSUME IInv, [Next]_vars PROVE IInv'
  OBVIOUS
<1>1. ServerType' /\ WorkerType'
  BY TypeStep, Halves DEF IInv
<1>2. TypeOK' /\ AttemptLeft'
  BY <1>1 DEF ServerType, WorkerType, TypeOK
<1>3. QED
  BY <1>2, StageOrderStep, FetchAttemptsStep, CopiesStep, RefFromFinishedStep,
     SuccessIsEarnedStep, RedeemedSpoolIsGoneStep, SpoolIsKeptStep DEF IInv

LEMMA Initially == Init => IInv
<1> SUFFICES ASSUME Init PROVE IInv
  OBVIOUS
<1>1. TypeOK /\ AttemptLeft
  BY InitType, Halves
<1>2. QED
  BY <1>1 DEF Init, IInv, StageOrder, FetchAttempts, Copies, RefFromFinished, SuccessIsEarned,
     RedeemedSpoolIsGone, SpoolIsKept

THEOREM Invariant == Spec => []IInv
BY Initially, Inductive, PTL DEF Spec

(* The bronze file is one read of the source, whole: whatever the          *)
(* timeouts, retries and late attempts, its rows and its _extracted_at are *)
(* those of a single FetchWindow attempt.                                  *)
THEOREM BronzeIsAlwaysOneFetch == Spec => []BronzeIsOneFetch
<1>1. IInv => BronzeIsOneFetch
  BY DEF IInv, Copies, OneFetch, BronzeIsOneFetch
<1>2. QED
  BY <1>1, Invariant, PTL

(* A spool that DeleteSpool has removed, or whose table has succeeded, is  *)
(* never put back: no late attempt rewrites the file the ref names.        *)
THEOREM RedeemedSpoolStaysGone == Spec => []RedeemedSpoolIsGone
<1>1. IInv => RedeemedSpoolIsGone
  BY DEF IInv
<1>2. QED
  BY <1>1, Invariant, PTL

(* A WriteWindow attempt always finds a spool: no retry meets one that an  *)
(* earlier attempt or a DeleteSpool took away.                             *)
THEOREM WriteAlwaysFindsASpool == Spec => []WriteFindsASpool
<1>1. IInv => WriteFindsASpool
  <2> SUFFICES ASSUME IInv, NEW t \in Table, stage[t] = "write"
               PROVE  /\ spool[t] # Nothing
                      /\ \E k \in Attempt : /\ fetch[t][k].pc # "idle"
                                            /\ Matches(spool[t], fetch[t][k].at)
                                            /\ spool[t].rows = fetch[t][k].rows
    BY DEF WriteFindsASpool
  <2>1. spool[t] # Nothing /\ OneFetch(t, spool[t])
    BY DEF IInv, SpoolIsKept, Copies
  <2>2. PICK k \in Attempt : /\ fetch[t][k].at = spool[t].at
                             /\ fetch[t][k].rows = spool[t].rows
                             /\ 0 < spool[t].at
    BY <2>1 DEF OneFetch
  <2>3. fetch[t][k].pc # "idle"
    BY <2>2 DEF IInv, FetchAttempts
  <2>4. QED
    BY <2>1, <2>2, <2>3 DEF Matches
<1>2. QED
  BY <1>1, Invariant, PTL

(* The same ref always yields the same bronze: a file the run has replaced *)
(* is not changed again by that run, retried and given-up WriteWindow      *)
(* attempts included.                                                      *)
THEOREM BronzeIsWrittenOnce == Spec => BronzeWrittenOnce
<1>1. IInv /\ [Next]_vars => [\A t \in Table : bronze[t] # Nothing => bronze'[t] = bronze[t]]_vars
  BY BronzeStable
<1>2. QED
  BY <1>1, Invariant, PTL DEF Spec, BronzeWrittenOnce

-----------------------------------------------------------------------------
(* The run implements WindowRefresh.                                       *)

LEMMA PutReplaces ==
    ASSUME IInv, NEW t \in Table, NEW k \in Attempt, WritePut(t, k), [Next]_vars
    PROVE  Refresh!Replace(t) \/ UNCHANGED Refresh!vars
<1>1. /\ bronze' = [bronze EXCEPT ![t] = [at |-> ref[t], rows |-> write[t][k].rows]]
      /\ UNCHANGED serverVars
  BY DEF WritePut
<1>2. CASE bronze[t] # Nothing
  <2>1. bronze'[t] = bronze[t]
    BY <1>2, BronzeStable
  <2>2. bronze' = bronze
    BY <1>1, <2>1 DEF IInv, TypeOK
  <2>3. QED
    BY <1>1, <2>2 DEF Refresh!vars, serverVars
<1>3. CASE bronze[t] = Nothing
  <2>1. OneFetch(t, [at |-> ref[t], rows |-> write[t][k].rows])
    BY DEF IInv, Copies, WritePut
  <2>2. /\ ref[t] \in Nat \ {0}
        /\ write[t][k].rows \in Nat
        /\ ref[t] <= write[t][k].rows
    BY <2>1 DEF OneFetch, IInv, TypeOK, WriteAttempt, Instant
  <2>3. bronze'[t] = [at |-> ref[t], rows |-> write[t][k].rows]
    BY <1>1 DEF IInv, TypeOK
  <2>4. bronze'[t] \in [at : Nat \ {0}, rows : Nat] /\ bronze'[t].at <= bronze'[t].rows
    BY <2>2, <2>3
  <2>5. verdict[t] # "ok"
    BY <1>3 DEF IInv, SuccessIsEarned
  <2>6. bronze' = [bronze EXCEPT ![t] = bronze'[t]]
    BY <1>1, <2>3
  <2>7. QED
    BY <1>1, <1>3, <2>4, <2>5, <2>6
       DEF Refresh!Replace, Refresh!Refreshed, Refresh!Inherited, Nothing, serverVars
<1>4. QED
  BY <1>2, <1>3

LEMMA VerdictRefines ==
    ASSUME IInv, NEW t \in Table, ServerChange(t), UNCHANGED bronze
    PROVE  Refresh!Succeed(t) \/ Refresh!Fail(t) \/ UNCHANGED Refresh!vars
<1> USE DEF Refresh!Succeed, Refresh!Fail, Refresh!vars, Refresh!Refreshed, Refresh!Inherited, Nothing
<1>1. stage[t] # "done" => verdict[t] = "none"
  BY DEF IInv, StageOrder
<1>2. CASE NextAttempt(t, stage[t]) \/ Reschedule(t) \/ WriteCompletes(t)
  BY <1>2 DEF NextAttempt, Reschedule, WriteCompletes
<1>3. CASE ActivityFails(t)
  BY <1>1, <1>3 DEF ActivityFails, Return
<1>4. ASSUME NEW k \in Attempt, FetchCompletes(t, fetch[t][k].at)
      PROVE  UNCHANGED Refresh!vars
  BY <1>4 DEF FetchCompletes
<1>5. CASE DeleteCompletes(t) /\ stage[t] = "delete"
  <2>1. writeErr[t] = "nil" => bronze[t] # Nothing
    BY <1>5 DEF IInv, SuccessIsEarned
  <2>2. QED
    BY <1>1, <1>5, <2>1 DEF DeleteCompletes, Return
<1>6. QED
  BY <1>2, <1>3, <1>4, <1>5 DEF ServerChange

LEMMA StepRefines ==
    ASSUME IInv, [Next]_vars
    PROVE  [Refresh!Next]_(Refresh!vars)
<1>1. CASE Finish
  <2>1. \A t \in Table : verdict[t] # "none"
    BY <1>1 DEF Finish, IInv, StageOrder
  <2>2. QED
    BY <1>1, <2>1 DEF Finish, Refresh!Finish, Refresh!Next
<1>2. ASSUME NEW t \in Table, NEW k \in Attempt, WritePut(t, k)
      PROVE  [Refresh!Next]_(Refresh!vars)
  BY <1>2, PutReplaces DEF Refresh!Next
<1>3. ASSUME NEW t \in Table, NEW k \in Attempt, FetchStep(t, k) \/ WriteStep(t, k) \/ DeleteStep(t, k)
      PROVE  WritePut(t, k) \/ UNCHANGED bronze
  BY <1>3 DEF FetchStep, FetchRead, FetchSpool, FetchAnswer, FetchError, FetchLost,
     WriteStep, WriteRead, WriteMismatch, WriteAnswer, WriteError, WriteLost,
     DeleteStep, DeleteRemove, DeleteAnswer, DeleteError, DeleteLost
<1>4. ASSUME NEW t \in Table, Start(t) \/ Timeout(t)
      PROVE  UNCHANGED bronze
  BY <1>4 DEF Start, FetchStart, WriteStart, DeleteStart, Timeout
<1>5. Finish \/ UNCHANGED bronze \/ \E t \in Table, k \in Attempt : WritePut(t, k)
  BY <1>3, <1>4 DEF Next, vars
<1>6. CASE UNCHANGED bronze /\ UNCHANGED serverVars
  BY <1>6 DEF Refresh!vars, serverVars
<1>7. ASSUME UNCHANGED bronze, NEW t \in Table, ServerChange(t)
      PROVE  [Refresh!Next]_(Refresh!vars)
  BY <1>7, VerdictRefines DEF Refresh!Next
<1>8. QED
  BY <1>1, <1>2, <1>5, <1>6, <1>7, ServerChanges

(* A run keeps its promise to the readers of bronze, whatever the timeouts *)
(* and retries: each file is replaced at most once, by one whole read of   *)
(* the source, and success is reported only of replaced files.             *)
THEOREM Refinement == Spec => KeepsPromise
<1>1. Init => Refresh!Init
  BY DEF Init, Refresh!Init, Refresh!Inherited, Nothing
<1>2. IInv /\ [Next]_vars => [Refresh!Next]_(Refresh!vars)
  BY StepRefines
<1>3. QED
  BY <1>1, <1>2, Invariant, PTL DEF Spec, KeepsPromise, Refresh!Spec
=============================================================================
