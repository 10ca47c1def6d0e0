------------------------- MODULE WorkerSlots_proofs -------------------------
(***************************************************************************)
(* Proofs about WorkerSlots, for any activities, any number of slots and   *)
(* attempts, and any timeouts. An attempt is dispatched only when the one  *)
(* before it has answered or has been given up, and then that one is at    *)
(* least a heartbeat timeout old; from there on both age together.         *)
(***************************************************************************)
EXTENDS WorkerSlots, FiniteSetTheorems, TLAPS

Execution == [pc : {"query", "spool", "gone"}, age : 0 .. StartToClose]

(* One attempt changes, and the others are as they were.                   *)
LEMMA ExecUpdate ==
    ASSUME TypeOK, NEW t \in Task, NEW k \in Attempt, NEW e \in Execution,
           exec' = [exec EXCEPT ![t][k] = e]
    PROVE  /\ exec' \in [Task -> [Attempt -> Execution]]
           /\ \A s \in Task, j \in Attempt : exec'[s][j] = IF s = t /\ j = k THEN e ELSE exec[s][j]
BY DEF TypeOK, Execution

LEMMA GoneIsExecution == Gone \in Execution
BY TimeoutsAssumption DEF Gone, Execution

LEMMA Numbers ==
    /\ MaxAttempts \in Nat \ {0} /\ StartToClose \in Nat /\ HeartbeatTimeout \in Nat \ {0}
    /\ HeartbeatTimeout <= StartToClose
    /\ 0 \in 0 .. StartToClose /\ 0 \in 0 .. HeartbeatTimeout
BY MaxAttemptsAssumption, TimeoutsAssumption

(* What a retry, a failure or a completion leaves of the server's record.  *)
LEMMA SettleType ==
    ASSUME TypeOK, NEW t \in Task, NEW s \in {"scheduled", "done", "failed"}, Settle(t, s)
    PROVE  /\ status' \in [Task -> {"scheduled", "started", "done", "failed"}]
           /\ attempt' \in [Task -> 0 .. MaxAttempts]
           /\ sinceStart' \in [Task -> 0 .. StartToClose]
           /\ sinceBeat' \in [Task -> 0 .. HeartbeatTimeout]
BY Numbers DEF TypeOK, Settle

LEMMA RetryOrFailSettles ==
    ASSUME NEW t \in Task, RetryOrFail(t)
    PROVE  \E s \in {"scheduled", "failed"} :
              Settle(t, s) /\ (s = "scheduled" => attempt[t] < MaxAttempts)
BY DEF RetryOrFail

-----------------------------------------------------------------------------

LEMMA TypeStep == TypeOK /\ Ages /\ [Next]_vars => TypeOK'
<1> SUFFICES ASSUME TypeOK, Ages, [Next]_vars PROVE TypeOK'
  OBVIOUS
<1> USE Numbers DEF Execution
<1>1. CASE UNCHANGED vars
  BY <1>1 DEF TypeOK, vars, serverVars
<1>2. CASE Tick
  <2>1. \A t \in Task : status[t] = "started" =>
           sinceBeat[t] + 1 \in 0 .. HeartbeatTimeout /\ sinceStart[t] + 1 \in 0 .. StartToClose
    BY <1>2 DEF Tick, TimerFires, TypeOK
  <2>2. \A t \in Task, k \in Attempt :
           exec[t][k].age < StartToClose => exec[t][k].age + 1 \in 0 .. StartToClose
    BY DEF TypeOK
  <2>3. sinceStart' \in [Task -> 0 .. StartToClose] /\ sinceBeat' \in [Task -> 0 .. HeartbeatTimeout]
    BY <1>2, <2>1 DEF Tick, TypeOK
  <2>4. exec' \in [Task -> [Attempt -> Execution]]
    BY <1>2, <2>2 DEF Tick, TypeOK
  <2>5. QED
    BY <1>2, <2>3, <2>4 DEF Tick, TypeOK
<1>3. CASE WorkerDies
  BY <1>3, GoneIsExecution DEF WorkerDies, TypeOK, serverVars
<1>4. ASSUME NEW t \in Task, Dispatch(t)
      PROVE  TypeOK'
  <2>1. attempt[t] + 1 \in 1 .. MaxAttempts
    BY <1>4 DEF TypeOK, Ages, Dispatch
  <2>2. exec' \in [Task -> [Attempt -> Execution]]
    BY <1>4, <2>1, ExecUpdate DEF Dispatch, Attempt
  <2>3. QED
    BY <1>4, <2>1, <2>2 DEF Dispatch, TypeOK
<1>5. ASSUME NEW t \in Task, GiveUp(t)
      PROVE  TypeOK'
  BY <1>5, RetryOrFailSettles, SettleType DEF GiveUp, TypeOK
<1>6. ASSUME NEW t \in Task, NEW k \in Attempt, QueryAnswers(t, k)
      PROVE  TypeOK'
  <2>1. [pc |-> "spool", age |-> exec[t][k].age] \in Execution
    BY DEF TypeOK
  <2>2. exec' \in [Task -> [Attempt -> Execution]]
    BY <1>6, <2>1, ExecUpdate DEF QueryAnswers
  <2>3. QED
    BY <1>6, <2>2 DEF QueryAnswers, TypeOK
<1>7. ASSUME NEW t \in Task, NEW k \in Attempt, Leaves(t, k)
      PROVE  exec' \in [Task -> [Attempt -> Execution]]
  BY <1>7, ExecUpdate, GoneIsExecution DEF Leaves
<1>8. ASSUME NEW t \in Task, NEW k \in Attempt, AttemptFails(t, k)
      PROVE  TypeOK'
  <2>1. exec' \in [Task -> [Attempt -> Execution]]
    BY <1>7, <1>8 DEF AttemptFails
  <2>2. CASE Awaited(t, k)
    BY <1>8, <2>1, <2>2, RetryOrFailSettles, SettleType DEF AttemptFails, TypeOK
  <2>3. CASE ~Awaited(t, k)
    BY <1>8, <2>1, <2>3 DEF AttemptFails, TypeOK, serverVars
  <2>4. QED
    BY <2>2, <2>3
<1>9. ASSUME NEW t \in Task, NEW k \in Attempt, Answer(t, k)
      PROVE  TypeOK'
  <2>1. exec' \in [Task -> [Attempt -> Execution]]
    BY <1>7, <1>9 DEF Answer
  <2>2. CASE Awaited(t, k)
    BY <1>9, <2>1, <2>2, SettleType DEF Answer, TypeOK
  <2>3. CASE ~Awaited(t, k)
    BY <1>9, <2>1, <2>3 DEF Answer, TypeOK, serverVars
  <2>4. QED
    BY <2>2, <2>3
<1>10. QED
  BY <1>1, <1>2, <1>3, <1>4, <1>5, <1>6, <1>8, <1>9 DEF Next, Error, Deadline

-----------------------------------------------------------------------------

(* An attempt leaves, or the server stops waiting for one that is a        *)
(* heartbeat timeout old: the others are as old as they were.              *)
LEMMA SettleKeepsAges ==
    ASSUME TypeOK, TypeOK', Ages, AttemptsApart,
           NEW t \in Task, NEW s \in {"scheduled", "done", "failed"}, Settle(t, s),
           s = "scheduled" => attempt[t] < MaxAttempts,
           \A u \in Task, j \in Attempt : exec'[u][j] # exec[u][j] => exec'[u][j] = Gone,
           \A j \in Held(t) : Awaited(t, j) /\ exec'[t][j] # Gone => exec[t][j].age >= HeartbeatTimeout
    PROVE  Ages' /\ AttemptsApart'
<1>1. \A u \in Task : Held(u)' \subseteq Held(u) /\ \A j \in Held(u)' : exec'[u][j] = exec[u][j]
  BY DEF Held, Gone
<1>2. AttemptsApart'
  BY <1>1 DEF AttemptsApart
<1>3. \A u \in Task : u # t => /\ status'[u] = status[u] /\ attempt'[u] = attempt[u]
                              /\ sinceStart'[u] = sinceStart[u] /\ sinceBeat'[u] = sinceBeat[u]
  BY DEF Settle, TypeOK
<1>4. status'[t] = s /\ attempt'[t] = attempt[t] /\ sinceStart'[t] = 0 /\ sinceBeat'[t] = 0
  BY DEF Settle, TypeOK
<1>5. \A j \in Held(t)' : j <= attempt'[t] /\ exec'[t][j].age >= HeartbeatTimeout
  BY <1>1, <1>4 DEF Ages, Held, Gone
<1>6. ASSUME NEW u \in Task, u # t, NEW j \in Held(u)'
      PROVE  /\ j <= attempt'[u]
             /\ Awaited(u, j)' => exec'[u][j].age = sinceStart'[u]
             /\ ~Awaited(u, j)' => exec'[u][j].age >= HeartbeatTimeout
  BY <1>1, <1>3, <1>6 DEF Ages, Awaited
<1>7. \A u \in Task :
         /\ status'[u] = "scheduled" =>
              attempt'[u] < MaxAttempts /\ sinceStart'[u] = 0 /\ sinceBeat'[u] = 0
         /\ status'[u] = "started" => attempt'[u] # 0 /\ sinceBeat'[u] <= sinceStart'[u]
  BY <1>3, <1>4 DEF Ages
<1>8. \A j \in Held(t)' : ~Awaited(t, j)'
  BY <1>4 DEF Awaited
<1>9. QED
  BY <1>2, <1>5, <1>6, <1>7, <1>8 DEF Ages

(* An attempt that nobody awaits leaves, and nothing else changes.         *)
LEMMA LeavesKeepsAges ==
    ASSUME Ages, AttemptsApart, UNCHANGED serverVars,
           \A u \in Task, j \in Attempt : exec'[u][j] # exec[u][j] => exec'[u][j] = Gone
    PROVE  Ages' /\ AttemptsApart'
<1>1. \A u \in Task : Held(u)' \subseteq Held(u) /\ \A j \in Held(u)' : exec'[u][j] = exec[u][j]
  BY DEF Held, Gone
<1>2. QED
  BY <1>1 DEF Ages, AttemptsApart, Awaited, serverVars

LEMMA LeavesOnlyGone ==
    ASSUME TypeOK, NEW t \in Task, NEW k \in Attempt, Leaves(t, k)
    PROVE  /\ exec'[t][k] = Gone
           /\ \A u \in Task, j \in Attempt : exec'[u][j] # exec[u][j] => exec'[u][j] = Gone
BY ExecUpdate, GoneIsExecution DEF Leaves

LEMMA AgesStep == IInv /\ [Next]_vars => IInv'
<1> SUFFICES ASSUME IInv, [Next]_vars PROVE IInv'
  OBVIOUS
<1> USE Numbers
<1>0. TypeOK /\ Ages /\ AttemptsApart /\ TypeOK'
  BY TypeStep DEF IInv
<1>1. CASE UNCHANGED vars
  BY <1>0, <1>1, LeavesKeepsAges DEF IInv, vars
<1>2. CASE Tick
  <2>1. \A u \in Task, j \in Attempt : exec'[u][j].pc = exec[u][j].pc
    BY <1>0, <1>2 DEF Tick, TypeOK
  <2>2. \A u \in Task : Held(u)' = Held(u)
    BY <2>1 DEF Held
  <2>3. \A u \in Task : \A j \in Held(u) : exec'[u][j].age = exec[u][j].age + 1
    BY <1>0, <1>2 DEF Tick, TypeOK, Held, CutShort
  <2>4. \A u \in Task : \A j \in Held(u) : j \in Attempt /\ exec[u][j].age \in Nat
    BY <1>0 DEF TypeOK, Held
  <2>5. AttemptsApart'
    <3>1. SUFFICES ASSUME NEW u \in Task, NEW j \in Held(u), NEW k \in Held(u), j < k
                   PROVE  exec'[u][j].age >= exec'[u][k].age + HeartbeatTimeout
      BY <2>2 DEF AttemptsApart
    <3>2. QED
      BY <1>0, <2>3, <2>4, <3>1 DEF AttemptsApart
  <2>6. \A u \in Task : /\ status'[u] = status[u] /\ attempt'[u] = attempt[u]
                        /\ status[u] = "started" =>
                             sinceStart'[u] = sinceStart[u] + 1 /\ sinceBeat'[u] = sinceBeat[u] + 1
                        /\ status[u] # "started" => sinceStart'[u] = 0 /\ sinceBeat'[u] = 0
    BY <1>2 DEF Tick
  <2>7. \A u \in Task : status'[u] = "started" => sinceBeat'[u] <= sinceStart'[u] /\ attempt'[u] # 0
    BY <1>0, <2>6 DEF Ages, TypeOK
  <2>8. \A u \in Task : \A k \in Held(u)' :
           /\ k <= attempt'[u]
           /\ Awaited(u, k)' => exec'[u][k].age = sinceStart'[u]
           /\ ~Awaited(u, k)' => exec'[u][k].age >= HeartbeatTimeout
    BY <1>0, <2>2, <2>3, <2>4, <2>6 DEF Ages, Awaited, TypeOK
  <2>9. Ages'
    BY <1>0, <2>6, <2>7, <2>8 DEF Ages
  <2>10. QED
    BY <1>0, <2>5, <2>9 DEF IInv
<1>3. CASE WorkerDies
  <2>1. \A u \in Task, j \in Attempt : exec'[u][j] = Gone
    BY <1>3 DEF WorkerDies
  <2>2. QED
    BY <1>0, <1>3, <2>1, LeavesKeepsAges DEF WorkerDies, IInv
<1>4. ASSUME NEW t \in Task, Dispatch(t)
      PROVE  IInv'
  <2> DEFINE n == attempt[t] + 1
  <2>1. n \in Attempt /\ status[t] = "scheduled" /\ attempt[t] \in Nat
    BY <1>0, <1>4 DEF TypeOK, Ages, Dispatch, Attempt
  <2>2. \A u \in Task, j \in Attempt :
           exec'[u][j] = IF u = t /\ j = n THEN [pc |-> "query", age |-> 0] ELSE exec[u][j]
    BY <1>0, <1>4, <2>1, ExecUpdate DEF Dispatch, Execution
  <2>3. \A u \in Task : Held(u)' = IF u = t THEN Held(u) \cup {n} ELSE Held(u)
    BY <2>1, <2>2 DEF Held
  <2>4. \A j \in Held(t) : j \in Attempt /\ j < n /\ exec[t][j].age \in Nat /\ exec[t][j].age >= HeartbeatTimeout
    <3>1. ASSUME NEW j \in Held(t)
          PROVE  j \in Attempt /\ j \in Nat /\ exec[t][j].age \in Nat
      BY <1>0 DEF Held, TypeOK, Attempt
    <3>2. \A j \in Held(t) : j <= attempt[t] /\ ~Awaited(t, j)
      BY <1>0, <2>1 DEF Ages, Awaited
    <3>3. \A j \in Held(t) : exec[t][j].age >= HeartbeatTimeout
      BY <1>0, <3>2 DEF Ages
    <3>4. QED
      BY <2>1, <3>1, <3>2, <3>3
  <2>5. AttemptsApart'
    <3>1. SUFFICES ASSUME NEW u \in Task, NEW j \in Held(u)', NEW k \in Held(u)', j < k
                   PROVE  exec'[u][j].age >= exec'[u][k].age + HeartbeatTimeout
      BY DEF AttemptsApart
    <3>2. CASE u # t \/ k # n
      <4>1. j \in Held(u) /\ k \in Held(u) /\ j \in Attempt /\ k \in Attempt
        BY <2>1, <2>3, <2>4, <3>1, <3>2 DEF Held, Attempt
      <4>2. exec'[u][j] = exec[u][j] /\ exec'[u][k] = exec[u][k]
        BY <2>2, <2>4, <3>1, <3>2, <4>1 DEF Attempt
      <4>3. QED
        BY <1>0, <3>1, <4>1, <4>2 DEF AttemptsApart
    <3>3. CASE u = t /\ k = n
      BY <2>1, <2>2, <2>3, <2>4, <3>1, <3>3
    <3>4. QED
      BY <3>2, <3>3
  <2>6. \A u \in Task : u # t => /\ status'[u] = status[u] /\ attempt'[u] = attempt[u]
    BY <1>0, <1>4 DEF Dispatch, TypeOK
  <2>7. status'[t] = "started" /\ attempt'[t] = n
    BY <1>0, <1>4 DEF Dispatch, TypeOK
  <2>8. sinceStart' = sinceStart /\ sinceBeat' = sinceBeat
    BY <1>4 DEF Dispatch
  <2>9. Ages'
    <3>1. ASSUME NEW u \in Task, u # t
          PROVE  /\ Held(u)' = Held(u)
                 /\ \A j \in Held(u) : exec'[u][j] = exec[u][j]
      BY <2>2, <2>3, <3>1 DEF Held
    <3>2. \A j \in Held(t)' : /\ j <= n
                              /\ j = n => exec'[t][j].age = 0
                              /\ j # n => exec'[t][j].age >= HeartbeatTimeout
      <4>1. SUFFICES ASSUME NEW j \in Held(t)'
                     PROVE  /\ j <= n
                            /\ j = n => exec'[t][j].age = 0
                            /\ j # n => exec'[t][j].age >= HeartbeatTimeout
        OBVIOUS
      <4>2. CASE j = n
        BY <2>1, <2>2, <4>2
      <4>3. CASE j # n
        <5>1. j \in Held(t)
          BY <2>3, <4>1, <4>3
        <5>2. exec'[t][j] = exec[t][j] /\ j \in Nat
          BY <2>2, <2>4, <4>3, <5>1 DEF Attempt
        <5>3. QED
          BY <2>1, <2>4, <4>3, <5>1, <5>2
      <4>4. QED
        BY <4>2, <4>3
    <3>3. sinceStart[t] = 0 /\ sinceBeat[t] = 0
      BY <1>0, <2>1 DEF Ages
    <3>4. n # 0
      BY <2>1
    <3>5. QED
      BY <1>0, <2>6, <2>7, <2>8, <3>1, <3>2, <3>3, <3>4 DEF Ages, Awaited
  <2>10. QED
    BY <1>0, <2>5, <2>9 DEF IInv
<1>5. ASSUME NEW t \in Task, GiveUp(t)
      PROVE  IInv'
  <2>1. \A j \in Held(t) : Awaited(t, j) => exec[t][j].age >= HeartbeatTimeout
    BY <1>0, <1>5 DEF Ages, GiveUp, TimerFires, TypeOK
  <2>2. PICK s \in {"scheduled", "failed"} :
           Settle(t, s) /\ (s = "scheduled" => attempt[t] < MaxAttempts)
    BY <1>5, RetryOrFailSettles DEF GiveUp
  <2>3. QED
    BY <1>0, <1>5, <2>1, <2>2, SettleKeepsAges DEF GiveUp, IInv
<1>6. ASSUME NEW t \in Task, NEW k \in Attempt, QueryAnswers(t, k)
      PROVE  IInv'
  <2>1. \A u \in Task, j \in Attempt :
           /\ exec'[u][j].age = exec[u][j].age
           /\ exec'[u][j].pc = "gone" <=> exec[u][j].pc = "gone"
    <3>1. [pc |-> "spool", age |-> exec[t][k].age] \in Execution
      BY <1>0 DEF TypeOK, Execution
    <3>2. QED
      BY <1>0, <1>6, <3>1, ExecUpdate DEF QueryAnswers
  <2>2. \A u \in Task : Held(u)' = Held(u) /\ \A j \in Held(u) : exec'[u][j].age = exec[u][j].age
    BY <2>1 DEF Held
  <2>3. status' = status /\ attempt' = attempt /\ sinceStart' = sinceStart
    BY <1>6 DEF QueryAnswers
  <2>4. \A u \in Task : sinceBeat'[u] = 0 \/ sinceBeat'[u] = sinceBeat[u]
    BY <1>0, <1>6 DEF QueryAnswers, TypeOK
  <2>5. Ages'
    <3>0. \A u \in Task : sinceStart[u] \in Nat
      BY <1>0 DEF TypeOK
    <3>1. \A u \in Task : status[u] = "started" => sinceBeat'[u] <= sinceStart[u]
      BY <1>0, <2>4, <3>0 DEF Ages
    <3>2. \A u \in Task : status[u] = "scheduled" => sinceBeat'[u] = 0
      BY <1>0, <2>4 DEF Ages
    <3>3. QED
      BY <1>0, <2>2, <2>3, <3>1, <3>2 DEF Ages, Awaited
  <2>6. AttemptsApart'
    BY <1>0, <2>2 DEF AttemptsApart
  <2>7. QED
    BY <1>0, <2>5, <2>6 DEF IInv
<1>7. ASSUME NEW t \in Task, NEW k \in Attempt, AttemptFails(t, k)
      PROVE  IInv'
  <2>1. exec'[t][k] = Gone /\ \A u \in Task, j \in Attempt : exec'[u][j] # exec[u][j] => exec'[u][j] = Gone
    BY <1>0, <1>7, LeavesOnlyGone DEF AttemptFails
  <2>2. CASE Awaited(t, k)
    <3>1. \A j \in Held(t) : Awaited(t, j) => j = k
      BY <2>2 DEF Awaited
    <3>2. PICK s \in {"scheduled", "failed"} :
             Settle(t, s) /\ (s = "scheduled" => attempt[t] < MaxAttempts)
      BY <1>7, <2>2, RetryOrFailSettles DEF AttemptFails
    <3>3. QED
      BY <1>0, <2>1, <3>1, <3>2, SettleKeepsAges DEF IInv
  <2>3. CASE ~Awaited(t, k)
    BY <1>0, <1>7, <2>1, <2>3, LeavesKeepsAges DEF AttemptFails, IInv
  <2>4. QED
    BY <2>2, <2>3
<1>8. ASSUME NEW t \in Task, NEW k \in Attempt, Answer(t, k)
      PROVE  IInv'
  <2>1. exec'[t][k] = Gone /\ \A u \in Task, j \in Attempt : exec'[u][j] # exec[u][j] => exec'[u][j] = Gone
    BY <1>0, <1>8, LeavesOnlyGone DEF Answer
  <2>2. CASE Awaited(t, k)
    <3>1. \A j \in Held(t) : Awaited(t, j) => j = k
      BY <2>2 DEF Awaited
    <3>2. Settle(t, "done")
      BY <1>8, <2>2 DEF Answer
    <3>3. QED
      BY <1>0, <2>1, <3>1, <3>2, SettleKeepsAges DEF IInv
  <2>3. CASE ~Awaited(t, k)
    BY <1>0, <1>8, <2>1, <2>3, LeavesKeepsAges DEF Answer, IInv
  <2>4. QED
    BY <2>2, <2>3
<1>9. QED
  BY <1>1, <1>2, <1>3, <1>4, <1>5, <1>6, <1>7, <1>8 DEF Next, Error, Deadline

LEMMA InitIInv == Init => IInv
<1> SUFFICES ASSUME Init PROVE IInv
  OBVIOUS
<1> USE Numbers
<1>1. exec \in [Task -> [Attempt -> Execution]]
  BY GoneIsExecution DEF Init
<1>2. \A t \in Task : Held(t) = {}
  BY DEF Init, Held, Gone
<1>3. TypeOK
  BY <1>1 DEF Init, TypeOK, Execution
<1>4. QED
  BY <1>2, <1>3 DEF Init, IInv, Ages, AttemptsApart

(* Server, timers and attempts agree in every state: what an awaited       *)
(* attempt and the server count is the same, and every other attempt still *)
(* running is at least a heartbeat timeout old.                            *)
THEOREM Invariant == Spec => []IInv
BY InitIInv, AgesStep, PTL DEF Spec

(* Two attempts of one activity that run at once (activity_ingest.go:103   *)
(* returns long after the server gave the attempt up) are at least a       *)
(* heartbeat timeout apart.                                                *)
THEOREM AlwaysApart == Spec => []AttemptsApart
<1>1. IInv => AttemptsApart
  BY DEF IInv
<1>2. QED
  BY <1>1, Invariant, PTL

-----------------------------------------------------------------------------

(* Ages that lie HeartbeatTimeout apart fall into different intervals of   *)
(* that length.                                                            *)
LEMMA IntervalsDiffer ==
    ASSUME NEW a \in Nat, NEW b \in Nat, NEW d \in Nat \ {0}, a >= b + d
    PROVE  a \div d >= (b \div d) + 1
OBVIOUS

LEMMA IntervalOfAge ==
    ASSUME NEW a \in Nat, NEW b \in Nat, NEW d \in Nat \ {0}, a <= b
    PROVE  a \div d \in 0 .. (b \div d) /\ b \div d \in Nat /\ (b \div d) * d <= b
OBVIOUS

LEMMA FewAttempts == IInv => HungQueryLeavesSlots
<1> SUFFICES ASSUME IInv, NEW t \in Task, Held(t) # {}
             PROVE  (Cardinality(Held(t)) - 1) * HeartbeatTimeout <= StartToClose
  BY DEF HungQueryLeavesSlots
<1> USE Numbers
<1> DEFINE d == HeartbeatTimeout
           m == StartToClose \div d
           f == [k \in Held(t) |-> exec[t][k].age \div d]
<1>1. \A k \in Held(t) : k \in Nat /\ exec[t][k].age \in Nat /\ exec[t][k].age <= StartToClose
  BY DEF IInv, TypeOK, Held, Attempt
<1>2. m \in Nat /\ m * d <= StartToClose /\ \A k \in Held(t) : f[k] \in 0 .. m
  BY <1>1, IntervalOfAge
<1>3. ASSUME NEW j \in Held(t), NEW k \in Held(t), f[j] = f[k]
      PROVE  j = k
  <2>1. ASSUME NEW x \in Held(t), NEW y \in Held(t), x < y PROVE f[x] # f[y]
    <3>1. exec[t][x].age >= exec[t][y].age + d
      BY <2>1 DEF IInv, AttemptsApart
    <3>2. exec[t][x].age \div d >= (exec[t][y].age \div d) + 1
      BY <1>1, <3>1, IntervalsDiffer
    <3>3. f[x] \in Nat /\ f[y] \in Nat
      BY <1>2
    <3>4. QED
      BY <3>2, <3>3
  <2>2. QED
    BY <1>1, <1>3, <2>1
<1>4. f \in Injection(Held(t), 0 .. m)
  BY <1>2, <1>3 DEF Injection, IsInjective
<1>5. IsFiniteSet(0 .. m) /\ Cardinality(0 .. m) = m + 1
  <2>1. 0 \in Int /\ m \in Int /\ ~(0 > m) /\ m - 0 + 1 = m + 1
    BY <1>2
  <2> HIDE DEF m
  <2>2. QED
    BY <2>1, FS_Interval
<1>6. IsFiniteSet(Held(t)) /\ Cardinality(Held(t)) <= m + 1
  BY <1>4, <1>5, FS_Injection
<1>7. Cardinality(Held(t)) \in Nat
  BY <1>6, FS_CardinalityType
<1>8. (Cardinality(Held(t)) - 1) * d <= m * d
  <2> HIDE DEF m
  <2>1. \A x \in Nat, y \in Nat : x <= y + 1 => (x - 1) * d <= y * d
    OBVIOUS
  <2>2. QED
    BY <1>2, <1>6, <1>7, <2>1
<1>9. QED
  <2> HIDE DEF m
  <2>1. (Cardinality(Held(t)) - 1) * d \in Int /\ m * d \in Int
    BY <1>2, <1>7
  <2>2. QED
    BY <1>2, <1>8, <2>1

(* A query that hangs whenever it is tried holds no more slots than fit    *)
(* into StartToClose, one per heartbeat timeout (workflow_materialise.go:  *)
(* "without letting a hung connection hold a slot for long").              *)
THEOREM HungQueryHoldsFewSlots == Spec => []HungQueryLeavesSlots
BY FewAttempts, Invariant, PTL
=============================================================================
