---------------------------- MODULE Runner_proofs ----------------------------
(***************************************************************************)
(* Proofs about Runner, for any number of windows, slots and tries. The    *)
(* semaphore and the wait group are counters: the invariant says what they *)
(* count, so that a full semaphore means Concurrency windows in flight and *)
(* a wait group at zero means that every goroutine has left.               *)
(***************************************************************************)
EXTENDS Runner, FiniteSetTheorems, TLAPS

LEMMA JobFinite == IsFiniteSet(Job) /\ Cardinality(Job) = Jobs
<1>1. Jobs \in Nat
  BY JobsAssumption
<1>2. IsFiniteSet(1 .. Jobs) /\ Cardinality(1 .. Jobs) = IF 1 > Jobs THEN 0 ELSE Jobs - 1 + 1
  BY <1>1, FS_Interval
<1>3. QED
  BY <1>1, <1>2 DEF Job

LEMMA SubsetOfJobs ==
    ASSUME NEW S \in SUBSET Job
    PROVE  IsFiniteSet(S) /\ Cardinality(S) \in Nat /\ Cardinality(S) <= Jobs
BY JobFinite, FS_Subset, FS_CardinalityType

(* One job entering or leaving a set changes its size by one.              *)
LEMMA SizeChange ==
    ASSUME NEW S \in SUBSET Job, NEW T \in SUBSET Job, NEW j \in Job, S \ {j} = T \ {j}
    PROVE  /\ j \in S <=> j \in T => Cardinality(T) = Cardinality(S)
           /\ j \notin S /\ j \in T => Cardinality(T) = Cardinality(S) + 1
           /\ j \in S /\ j \notin T => Cardinality(T) = Cardinality(S) - 1
<1>1. /\ IsFiniteSet(S) /\ Cardinality(S) \in Nat
      /\ IsFiniteSet(T) /\ Cardinality(T) \in Nat
  BY SubsetOfJobs
<1>2. Cardinality(S \ {j}) = IF j \in S THEN Cardinality(S) - 1 ELSE Cardinality(S)
  BY <1>1, FS_RemoveElement
<1>3. Cardinality(T \ {j}) = IF j \in T THEN Cardinality(T) - 1 ELSE Cardinality(T)
  BY <1>1, FS_RemoveElement
<1>4. Cardinality(S \ {j}) = Cardinality(T \ {j})
  OBVIOUS
<1>5. QED
  BY <1>1, <1>2, <1>3, <1>4

(* When only job j moves, the sets change by j at most.                    *)
LEMMA OneMoves ==
    ASSUME TypeOK, NEW j \in Job, NEW s, step' = [step EXCEPT ![j] = s]
    PROVE  /\ step'[j] = s /\ \A i \in Job : i # j => step'[i] = step[i]
           /\ InFlight \in SUBSET Job /\ InFlight' \in SUBSET Job /\ InFlight \ {j} = InFlight' \ {j}
           /\ Waited \in SUBSET Job /\ Waited' \in SUBSET Job /\ Waited \ {j} = Waited' \ {j}
           /\ j \in InFlight <=> step[j] \in {"fetch", "write", "wait", "stored"}
           /\ j \in InFlight' <=> s \in {"fetch", "write", "wait", "stored"}
           /\ j \in Waited <=> step[j] \in {"fetch", "write", "wait", "stored", "released"}
           /\ j \in Waited' <=> s \in {"fetch", "write", "wait", "stored", "released"}
           /\ (j \in InFlight <=> j \in InFlight') => InFlight' = InFlight
           /\ (j \in Waited <=> j \in Waited') => Waited' = Waited
<1>1. step'[j] = s /\ \A i \in Job : i # j => step'[i] = step[i]
  BY DEF TypeOK
<1>2. QED
  BY <1>1 DEF InFlight, Waited

LEMMA InFlightMoves ==
    ASSUME IInv, NEW j \in Job, NEW s \in {"fetch", "write", "wait", "stored"},
           step[j] \in {"fetch", "write", "wait"}, step' = [step EXCEPT ![j] = s], UNCHANGED <<sem, wg>>
    PROVE  Counted'
<1>1. TypeOK /\ Counted
  BY DEF IInv
<1>2. /\ j \in InFlight <=> step[j] \in {"fetch", "write", "wait", "stored"}
      /\ j \in InFlight' <=> s \in {"fetch", "write", "wait", "stored"}
      /\ (j \in InFlight <=> j \in InFlight') => InFlight' = InFlight
  BY <1>1, OneMoves
<1>3. /\ j \in Waited <=> step[j] \in {"fetch", "write", "wait", "stored", "released"}
      /\ j \in Waited' <=> s \in {"fetch", "write", "wait", "stored", "released"}
      /\ (j \in Waited <=> j \in Waited') => Waited' = Waited
  BY <1>1, OneMoves
<1>4. InFlight' = InFlight /\ Waited' = Waited
  BY <1>2, <1>3
<1>5. QED
  BY <1>1, <1>4 DEF Counted

(* Where a goroutine step can take its job.                                *)
LEMMA GoroutineMoves ==
    ASSUME NEW j \in Job, Goroutine(j)
    PROVE  \/ /\ step[j] \in {"fetch", "write", "wait"}
              /\ \E s \in {"fetch", "write", "wait", "stored"} : step' = [step EXCEPT ![j] = s]
              /\ UNCHANGED <<sem, wg>>
           \/ Release(j)
           \/ Leave(j)
<1>1. TryFailed(j) => \E s \in {"wait", "stored"} : step' = [step EXCEPT ![j] = s]
  BY DEF TryFailed, Store
<1>2. CASE Fetch(j)
  BY <1>1, <1>2 DEF Fetch
<1>3. CASE Write(j)
  BY <1>1, <1>3 DEF Write, Store
<1>4. CASE Retry(j) \/ StopWaiting(j)
  BY <1>4 DEF Retry, StopWaiting, Store
<1>5. QED
  BY <1>2, <1>3, <1>4 DEF Goroutine

LEMMA CountedStep == IInv /\ [Next]_vars => Counted'
<1> SUFFICES ASSUME IInv, [Next]_vars PROVE Counted'
  OBVIOUS
<1>0. TypeOK /\ Counted /\ sem \in Nat /\ wg \in Nat
  BY ConcurrencyAssumption, JobsAssumption DEF IInv, TypeOK
<1>1. ASSUME UNCHANGED <<step, sem, wg>> PROVE Counted'
  BY <1>0, <1>1 DEF Counted, InFlight, Waited
<1>2. CASE Spawn
  <2>1. next \in Job /\ step[next] = "none"
    BY <1>2, JobsAssumption DEF Spawn, IInv, TypeOK, Started, Job
  <2>2. step' = [step EXCEPT ![next] = "fetch"] /\ sem' = sem + 1 /\ wg' = wg + 1
    BY <1>2 DEF Spawn
  <2>3. /\ next \notin InFlight /\ next \in InFlight' /\ InFlight \ {next} = InFlight' \ {next}
        /\ next \notin Waited /\ next \in Waited' /\ Waited \ {next} = Waited' \ {next}
        /\ InFlight \in SUBSET Job /\ InFlight' \in SUBSET Job
        /\ Waited \in SUBSET Job /\ Waited' \in SUBSET Job
    BY <1>0, <2>1, <2>2, OneMoves
  <2>4. Cardinality(InFlight') = Cardinality(InFlight) + 1
    BY <2>1, <2>3, SizeChange
  <2>5. Cardinality(Waited') = Cardinality(Waited) + 1
    BY <2>1, <2>3, SizeChange
  <2>6. QED
    BY <1>0, <2>2, <2>4, <2>5 DEF Counted
<1>3. ASSUME NEW j \in Job, Release(j) PROVE Counted'
  <2>1. step[j] = "stored" /\ step' = [step EXCEPT ![j] = "released"] /\ sem' = sem - 1 /\ wg' = wg
    BY <1>3 DEF Release
  <2>2. /\ j \in InFlight /\ j \notin InFlight' /\ InFlight \ {j} = InFlight' \ {j}
        /\ InFlight \in SUBSET Job /\ InFlight' \in SUBSET Job
        /\ Waited' = Waited
    <3>1. /\ InFlight \in SUBSET Job /\ InFlight' \in SUBSET Job /\ InFlight \ {j} = InFlight' \ {j}
          /\ j \in InFlight <=> step[j] \in {"fetch", "write", "wait", "stored"}
          /\ j \in InFlight' <=> "released" \in {"fetch", "write", "wait", "stored"}
      BY <1>0, <2>1, OneMoves
    <3>2. /\ j \in Waited <=> step[j] \in {"fetch", "write", "wait", "stored", "released"}
          /\ j \in Waited' <=> "released" \in {"fetch", "write", "wait", "stored", "released"}
          /\ (j \in Waited <=> j \in Waited') => Waited' = Waited
      BY <1>0, <2>1, OneMoves
    <3>3. QED
      BY <2>1, <3>1, <3>2
  <2>3. Cardinality(InFlight') = Cardinality(InFlight) - 1
    BY <2>2, SizeChange
  <2>4. QED
    BY <1>0, <2>1, <2>2, <2>3 DEF Counted
<1>4. ASSUME NEW j \in Job, Leave(j) PROVE Counted'
  <2>1. step[j] = "released" /\ step' = [step EXCEPT ![j] = "gone"] /\ wg' = wg - 1 /\ sem' = sem
    BY <1>4 DEF Leave
  <2>2. /\ j \in Waited /\ j \notin Waited' /\ Waited \ {j} = Waited' \ {j}
        /\ Waited \in SUBSET Job /\ Waited' \in SUBSET Job
        /\ InFlight' = InFlight
    <3>1. /\ Waited \in SUBSET Job /\ Waited' \in SUBSET Job /\ Waited \ {j} = Waited' \ {j}
          /\ j \in Waited <=> step[j] \in {"fetch", "write", "wait", "stored", "released"}
          /\ j \in Waited' <=> "gone" \in {"fetch", "write", "wait", "stored", "released"}
      BY <1>0, <2>1, OneMoves
    <3>2. /\ j \in InFlight <=> step[j] \in {"fetch", "write", "wait", "stored"}
          /\ j \in InFlight' <=> "gone" \in {"fetch", "write", "wait", "stored"}
          /\ (j \in InFlight <=> j \in InFlight') => InFlight' = InFlight
      BY <1>0, <2>1, OneMoves
    <3>3. QED
      BY <2>1, <3>1, <3>2
  <2>3. Cardinality(Waited') = Cardinality(Waited) - 1
    BY <2>2, SizeChange
  <2>4. QED
    BY <1>0, <2>1, <2>2, <2>3 DEF Counted
<1>5. ASSUME NEW j \in Job, Goroutine(j) PROVE Counted'
  BY <1>3, <1>4, <1>5, GoroutineMoves, InFlightMoves
<1>6. CASE Select \/ Refuse \/ Report \/ Cancel
  BY <1>1, <1>6 DEF Select, Refuse, Report, Cancel
<1>7. CASE UNCHANGED vars
  BY <1>1, <1>7 DEF vars
<1>8. QED
  BY <1>2, <1>5, <1>6, <1>7 DEF Next

-----------------------------------------------------------------------------
(* The rest of the invariant. What a goroutine step does to its own job:   *)

JobChange(j) ==
    \/ /\ step[j] \in {"fetch", "write"}
       /\ step'[j] = "write" \/ (step'[j] = "wait" /\ attempt[j] # Attempts)
       /\ UNCHANGED <<attempt, result, lines, bronze>>
    \/ /\ step[j] = "wait" /\ step'[j] = "fetch" /\ attempt'[j] = attempt[j] + 1
       /\ UNCHANGED <<result, lines, bronze>>
    \/ /\ step[j] \in {"fetch", "write"} /\ step'[j] = "stored" /\ attempt[j] = Attempts
       /\ result'[j] = "failed" /\ lines'[j] = lines[j] + 1
       /\ UNCHANGED <<attempt, bronze>>
    \/ /\ step[j] = "write" /\ step'[j] = "stored"
       /\ result'[j] = "ok" /\ bronze'[j] = "new" /\ lines'[j] = lines[j] + 1
       /\ UNCHANGED attempt
    \/ /\ step[j] = "wait" /\ step'[j] = "stored" /\ cancelled = "yes"
       /\ result'[j] = "cancelled"
       /\ UNCHANGED <<attempt, lines, bronze>>
    \/ /\ step[j] = "stored" /\ step'[j] = "released"
       /\ UNCHANGED <<attempt, result, lines, bronze>>
    \/ /\ step[j] = "released" /\ step'[j] = "gone"
       /\ UNCHANGED <<attempt, result, lines, bronze>>

Others(j) ==
    \A i \in Job : i # j =>
        /\ step'[i] = step[i] /\ attempt'[i] = attempt[i] /\ result'[i] = result[i]
        /\ lines'[i] = lines[i] /\ bronze'[i] = bronze[i]

Functions ==
    /\ step' \in [Job -> {"none", "fetch", "write", "wait", "stored", "released", "gone"}]
    /\ attempt' \in [Job -> 0 .. Attempts]
    /\ result' \in [Job -> {"none", "ok", "failed", "cancelled"}]
    /\ lines' \in [Job -> 0 .. Attempts]
    /\ bronze' \in [Job -> {"old", "new"}]

LEMMA GoroutineChange ==
    ASSUME IInv, NEW j \in Job, Goroutine(j)
    PROVE  /\ UNCHANGED <<main, next, cancelled, failures>>
           /\ JobChange(j) /\ Others(j) /\ Functions
<1> USE DEF JobChange, Others, Functions
<1>0. /\ TypeOK
      /\ Attempts \in Nat /\ Attempts >= 1
      /\ step[j] \in {"fetch", "write", "wait"} => result[j] = "none" /\ lines[j] = 0
      /\ step[j] = "wait" => attempt[j] < Attempts
  BY AttemptsAssumption DEF IInv, ResultsMatch, LoggedOnceUnlessCancelled
<1>1. ASSUME step[j] \in {"fetch", "write"}, TryFailed(j), UNCHANGED <<attempt, bronze>>
      PROVE  JobChange(j) /\ Others(j) /\ Functions
  <2>1. CASE attempt[j] = Attempts
    <3>1. /\ lines' = [lines EXCEPT ![j] = lines[j] + 1]
          /\ result' = [result EXCEPT ![j] = "failed"]
          /\ step' = [step EXCEPT ![j] = "stored"]
      BY <1>1, <2>1 DEF TryFailed, Store, Log
    <3>2. lines[j] + 1 \in 0 .. Attempts
      BY <1>0, <1>1
    <3>3. QED
      BY <1>0, <1>1, <2>1, <3>1, <3>2 DEF TypeOK
  <2>2. CASE attempt[j] # Attempts
    BY <1>0, <1>1, <2>2 DEF TryFailed, TypeOK
  <2>3. QED
    BY <2>1, <2>2
<1>2. CASE Fetch(j)
  <2>1. CASE step' = [step EXCEPT ![j] = "write"] /\ UNCHANGED <<result, lines>>
    BY <1>0, <1>2, <2>1 DEF Fetch, TypeOK
  <2>2. CASE TryFailed(j)
    BY <1>1, <1>2, <2>2 DEF Fetch
  <2>3. QED
    BY <1>2, <2>1, <2>2 DEF Fetch
<1>3. CASE Write(j)
  <2>1. CASE bronze' = [bronze EXCEPT ![j] = "new"] /\ Log(j) /\ Store(j, "ok")
    <3>1. /\ lines' = [lines EXCEPT ![j] = lines[j] + 1]
          /\ result' = [result EXCEPT ![j] = "ok"]
          /\ step' = [step EXCEPT ![j] = "stored"]
      BY <2>1 DEF Store, Log
    <3>2. lines[j] + 1 \in 0 .. Attempts
      BY <1>0, <1>3 DEF Write
    <3>3. QED
      BY <1>0, <1>3, <2>1, <3>1, <3>2 DEF Write, TypeOK
  <2>2. CASE TryFailed(j) /\ UNCHANGED bronze
    BY <1>1, <1>3, <2>2 DEF Write
  <2>3. QED
    BY <1>3, <2>1, <2>2 DEF Write
<1>4. CASE Retry(j)
  <2>1. attempt' = [attempt EXCEPT ![j] = attempt[j] + 1] /\ attempt[j] + 1 \in 0 .. Attempts
    BY <1>0, <1>4 DEF Retry, TypeOK
  <2>2. QED
    BY <1>0, <1>4, <2>1 DEF Retry, TypeOK
<1>5. CASE StopWaiting(j)
  BY <1>0, <1>5 DEF StopWaiting, Store, TypeOK
<1>6. CASE Release(j)
  BY <1>0, <1>6 DEF Release, TypeOK
<1>7. CASE Leave(j)
  BY <1>0, <1>7 DEF Leave, TypeOK
<1>8. QED
  BY <1>2, <1>3, <1>4, <1>5, <1>6, <1>7 DEF Goroutine

(* What Spawn does to the job it starts.                                   *)
LEMMA SpawnChange ==
    ASSUME IInv, Spawn
    PROVE  /\ next \in Job /\ step[next] = "none" /\ next' = next + 1 /\ main = "spawn"
           /\ step' = [step EXCEPT ![next] = "fetch"]
           /\ attempt' = [attempt EXCEPT ![next] = 1]
           /\ UNCHANGED <<main, result, lines, bronze, cancelled, failures>>
BY JobsAssumption DEF Spawn, IInv, TypeOK, Started, Job

LEMMA TypeStep == IInv /\ [Next]_vars /\ Counted' => TypeOK'
<1> SUFFICES ASSUME IInv, [Next]_vars, Counted' PROVE TypeOK'
  OBVIOUS
<1>0. TypeOK /\ Counted /\ Jobs \in Nat /\ Concurrency \in Nat /\ Attempts \in Nat /\ Attempts >= 1
  BY JobsAssumption, ConcurrencyAssumption, AttemptsAssumption DEF IInv
<1>1. sem' \in Nat /\ wg' \in Nat /\ wg' <= Jobs
  <2>1. InFlight' \in SUBSET Job /\ Waited' \in SUBSET Job
    BY DEF InFlight, Waited
  <2>2. Cardinality(InFlight') \in Nat /\ Cardinality(Waited') \in Nat /\ Cardinality(Waited') <= Jobs
    BY <2>1, SubsetOfJobs
  <2>3. QED
    BY <2>2 DEF Counted
<1>2. CASE Spawn
  <2>1. sem' \in 0 .. Concurrency /\ wg' \in 0 .. Jobs /\ next' \in 1 .. Jobs + 1
    BY <1>0, <1>1, <1>2 DEF Spawn, TypeOK
  <2>2. step' \in [Job -> {"none", "fetch", "write", "wait", "stored", "released", "gone"}]
    BY <1>0, <1>2, SpawnChange DEF TypeOK
  <2>3. attempt' \in [Job -> 0 .. Attempts]
    BY <1>0, <1>2, SpawnChange DEF TypeOK
  <2>4. QED
    BY <1>0, <1>2, <2>1, <2>2, <2>3, SpawnChange DEF TypeOK
<1>3. ASSUME NEW j \in Job, Goroutine(j) PROVE TypeOK'
  <2>1. UNCHANGED <<main, next, cancelled, failures>> /\ Functions
    BY <1>3, GoroutineChange
  <2>2. sem' \in 0 .. Concurrency /\ wg' \in 0 .. Jobs
    <3>1. sem \in 0 .. Concurrency /\ wg \in 0 .. Jobs
      BY <1>0 DEF TypeOK
    <3>2. CASE UNCHANGED <<sem, wg>>
      BY <3>1, <3>2
    <3>3. CASE Release(j)
      BY <1>0, <1>1, <3>1, <3>3 DEF Release
    <3>4. CASE Leave(j)
      BY <1>0, <1>1, <3>1, <3>4 DEF Leave
    <3>5. QED
      BY <1>3, <3>2, <3>3, <3>4, GoroutineMoves
  <2>3. QED
    BY <1>0, <2>1, <2>2 DEF TypeOK, Functions
<1>4. CASE Report
  BY <1>0, <1>4 DEF Report, TypeOK
<1>5. CASE Select \/ Refuse \/ Cancel \/ UNCHANGED vars
  BY <1>0, <1>5 DEF Select, Refuse, Cancel, vars, TypeOK
<1>6. QED
  BY <1>2, <1>3, <1>4, <1>5 DEF Next

LEMMA StartedStep == IInv /\ [Next]_vars => Started'
<1> SUFFICES ASSUME IInv, [Next]_vars PROVE Started'
  OBVIOUS
<1>0. TypeOK /\ Started /\ Jobs \in Nat
  BY JobsAssumption DEF IInv
<1>1. CASE Spawn
  <2>1. step' = [step EXCEPT ![next] = "fetch"] /\ next' = next + 1 /\ next \in Job /\ main = "spawn" /\ main' = main
    BY <1>1, SpawnChange
  <2>2. \A j \in Job : step'[j] = "none" <=> j >= next'
    BY <1>0, <2>1 DEF Started, TypeOK, Job
  <2>3. QED
    BY <2>1, <2>2 DEF Started
<1>2. ASSUME NEW j \in Job, Goroutine(j) PROVE Started'
  <2>1. UNCHANGED <<main, next>>
    BY <1>2, GoroutineChange
  <2>2. \A i \in Job : step'[i] = "none" <=> step[i] = "none"
    BY <1>2, GoroutineChange DEF JobChange, Others
  <2>3. QED
    BY <1>0, <2>1, <2>2 DEF Started
<1>3. CASE Report
  BY <1>0, <1>3 DEF Report, Started, TypeOK
<1>4. CASE Select \/ Refuse \/ Cancel \/ UNCHANGED vars
  BY <1>0, <1>4 DEF Select, Refuse, Cancel, vars, Started
<1>5. QED
  BY <1>1, <1>2, <1>3, <1>4 DEF Next

LEMMA ResultsMatchStep == IInv /\ [Next]_vars => ResultsMatch' /\ LoggedOnceUnlessCancelled'
<1> SUFFICES ASSUME IInv, [Next]_vars PROVE ResultsMatch' /\ LoggedOnceUnlessCancelled'
  OBVIOUS
<1>0. TypeOK /\ ResultsMatch /\ LoggedOnceUnlessCancelled /\ Attempts \in Nat
  BY AttemptsAssumption DEF IInv
<1>1. CASE Spawn
  <2>1. next \in Job /\ step[next] = "none" /\ step' = [step EXCEPT ![next] = "fetch"]
    BY <1>1, SpawnChange
  <2>2. result[next] = "none"
    BY <1>0, <2>1 DEF ResultsMatch
  <2>3. attempt' = [attempt EXCEPT ![next] = 1] /\ UNCHANGED <<result, lines, bronze, cancelled>>
    BY <1>1, SpawnChange
  <2>4. ResultsMatch'
    BY <1>0, <2>1, <2>2, <2>3 DEF ResultsMatch, TypeOK
  <2>5. QED
    BY <1>0, <2>3, <2>4 DEF LoggedOnceUnlessCancelled
<1>2. ASSUME NEW j \in Job, Goroutine(j) PROVE ResultsMatch' /\ LoggedOnceUnlessCancelled'
  <2>1. JobChange(j) /\ Others(j) /\ cancelled' = cancelled /\ Functions
    BY <1>2, GoroutineChange
  <2>2. ASSUME NEW i \in Job
        PROVE  /\ result'[i] = "none" <=> step'[i] \in {"none", "fetch", "write", "wait"}
               /\ result'[i] = "ok" <=> bronze'[i] = "new"
               /\ result'[i] = "failed" => attempt'[i] = Attempts
               /\ result'[i] = "cancelled" => cancelled' = "yes"
               /\ step'[i] = "wait" => attempt'[i] < Attempts
               /\ lines'[i] = IF result'[i] \in {"ok", "failed"} THEN 1 ELSE 0
    <3>1. CASE i # j
      BY <1>0, <2>1, <3>1 DEF Others, ResultsMatch, LoggedOnceUnlessCancelled
    <3>2. CASE i = j
      <4>1. attempt[j] \in 0 .. Attempts /\ lines[j] \in Nat
        BY <1>0 DEF TypeOK
      <4>2. QED
        BY <1>0, <2>1, <3>2, <4>1 DEF JobChange, ResultsMatch, LoggedOnceUnlessCancelled
    <3>3. QED
      BY <3>1, <3>2
  <2>3. QED
    BY <2>2 DEF ResultsMatch, LoggedOnceUnlessCancelled
<1>3. CASE UNCHANGED <<step, attempt, result, lines, bronze>> /\ (cancelled' = cancelled \/ cancelled' = "yes")
  BY <1>0, <1>3 DEF ResultsMatch, LoggedOnceUnlessCancelled
<1>4. CASE Select \/ Refuse \/ Report \/ Cancel \/ UNCHANGED vars
  BY <1>3, <1>4 DEF Select, Refuse, Report, Cancel, vars
<1>5. QED
  BY <1>1, <1>2, <1>4 DEF Next

LEMMA ReportStep == IInv /\ [Next]_vars => ReportIsTrue'
<1> SUFFICES ASSUME IInv, [Next]_vars, main' = "done", NEW j \in Job
             PROVE  /\ step'[j] = "gone"
                    /\ j \in failures'[TableOf[j]] <=> bronze'[j] = "old"
                    /\ bronze'[j] = "old" /\ cancelled' = "no" => attempt'[j] = Attempts
  BY DEF ReportIsTrue
<1>0. TypeOK /\ Jobs \in Nat /\ TableOf[j] \in Table
  BY JobsAssumption, TableOfAssumption DEF IInv
<1>1. CASE Report
  <2>1. /\ wg = 0 /\ next > Jobs /\ UNCHANGED <<step, attempt, result, bronze, cancelled>>
        /\ failures' = [t \in Table |-> {i \in Job : TableOf[i] = t /\ result[i] \in {"failed", "cancelled"}}]
    BY <1>1 DEF Report
  <2>2. Waited = {}
    <3>1. Waited \in SUBSET Job
      BY DEF Waited, InFlight
    <3>2. IsFiniteSet(Waited) /\ Cardinality(Waited) = 0
      BY <2>1, <3>1, SubsetOfJobs DEF IInv, Counted
    <3>3. QED
      BY <3>2, FS_EmptySet
  <2>3. step[j] # "none"
    BY <1>0, <2>1 DEF IInv, Started, TypeOK, Job
  <2>4. step[j] = "gone"
    BY <1>0, <2>2, <2>3 DEF Waited, InFlight, TypeOK
  <2>5. /\ result[j] # "none"
        /\ result[j] \in {"failed", "cancelled"} <=> bronze[j] = "old"
        /\ bronze[j] = "old" /\ cancelled = "no" => attempt[j] = Attempts
    BY <1>0, <2>4 DEF IInv, ResultsMatch, TypeOK
  <2>6. j \in failures'[TableOf[j]] <=> result[j] \in {"failed", "cancelled"}
    BY <1>0, <2>1
  <2>7. QED
    BY <2>1, <2>4, <2>5, <2>6
<1>2. ASSUME main = "done"
      PROVE  /\ step[j] = "gone"
             /\ j \in failures[TableOf[j]] <=> bronze[j] = "old"
             /\ bronze[j] = "old" /\ cancelled = "no" => attempt[j] = Attempts
  BY <1>2 DEF IInv, ReportIsTrue
<1>3. ASSUME NEW i \in Job, Goroutine(i) PROVE FALSE
  <2>1. main' = main /\ JobChange(i)
    BY <1>3, GoroutineChange
  <2>2. step[i] = "gone"
    BY <2>1 DEF IInv, ReportIsTrue
  <2>3. QED
    BY <2>1, <2>2 DEF JobChange
<1>4. CASE Select \/ Refuse \/ Spawn
  BY <1>4 DEF Select, Refuse, Spawn
<1>5. CASE Cancel \/ UNCHANGED vars
  BY <1>2, <1>5 DEF Cancel, vars
<1>6. QED
  BY <1>1, <1>3, <1>4, <1>5 DEF Next

-----------------------------------------------------------------------------
(* The theorems.                                                           *)

LEMMA InitOK == Init => IInv
<1> SUFFICES ASSUME Init PROVE IInv
  OBVIOUS
<1>1. TypeOK
  BY JobsAssumption, ConcurrencyAssumption, AttemptsAssumption DEF Init, TypeOK
<1>2. Counted
  <2>1. InFlight = {} /\ Waited = {}
    BY DEF Init, InFlight, Waited
  <2>2. QED
    BY <2>1, FS_EmptySet DEF Init, Counted
<1>3. QED
  BY <1>1, <1>2 DEF Init, IInv, Started, ResultsMatch, LoggedOnceUnlessCancelled, ReportIsTrue, Job

(* The counters count what they are for, in every state.                   *)
THEOREM Invariant == Spec => []IInv
<1>1. IInv /\ [Next]_vars => IInv'
  BY CountedStep, TypeStep, StartedStep, ResultsMatchStep, ReportStep DEF IInv
<1>2. QED
  BY InitOK, <1>1, PTL DEF Spec

(* Never more than Concurrency windows are in flight.                      *)
THEOREM BoundedConcurrency == Spec => []WithinConcurrency
<1>1. IInv => WithinConcurrency
  BY ConcurrencyAssumption DEF IInv, TypeOK, Counted, WithinConcurrency
<1>2. QED
  BY Invariant, <1>1, PTL

(* The summary is made after all goroutines have left and tells the truth  *)
(* about every window.                                                     *)
THEOREM ReportAlwaysTrue == Spec => []ReportIsTrue
<1>1. IInv => ReportIsTrue
  BY DEF IInv
<1>2. QED
  BY Invariant, <1>1, PTL

(* A window is logged once, or not at all when its wait was cancelled.     *)
THEOREM LoggedAtMostOnce == Spec => []LoggedOnceUnlessCancelled
<1>1. IInv => LoggedOnceUnlessCancelled
  BY DEF IInv
<1>2. QED
  BY Invariant, <1>1, PTL

-----------------------------------------------------------------------------
(* A pass implements WindowRefresh, with a table for each window: storing  *)
(* a success replaces the file, giving back the slot is the verdict, the   *)
(* summary the end, and all else stutters.                                 *)

LEMMA PromiseKeptAtStart == Init => Promise!Init
BY DEF Init, Promise!Init, Promise!Inherited

LEMMA PromiseKeptByStep == IInv /\ [Next]_vars => [Promise!Next]_(Promise!vars)
<1> SUFFICES ASSUME IInv, [Next]_vars PROVE [Promise!Next]_(Promise!vars)
  OBVIOUS
<1> DEFINE file(j) == IF bronze[j] = "new" THEN [at |-> 1, rows |-> 1] ELSE [at |-> 0, rows |-> 0]
           verdict(j) == IF step[j] \notin {"released", "gone"} THEN "none"
                         ELSE IF result[j] = "ok" THEN "ok" ELSE "failed"
           files == [j \in Job |-> file(j)]
           verdicts == [j \in Job |-> verdict(j)]
           outcome == IF main # "done" THEN "running"
                      ELSE IF \A t \in Table : failures[t] = {} THEN "completed" ELSE "failed"
<1>0. TypeOK /\ Started /\ ResultsMatch
  BY DEF IInv
<1>1. ASSUME files' = files, verdicts' = verdicts, outcome' = outcome
      PROVE  UNCHANGED Promise!vars
  BY <1>1 DEF Promise!vars
<1>2. CASE Select \/ Refuse \/ Cancel \/ UNCHANGED vars
  <2>1. /\ UNCHANGED <<step, result, bronze, failures>>
        /\ main' = main \/ (main # "done" /\ main' # "done")
    BY <1>2 DEF Select, Refuse, Cancel, vars
  <2>2. QED
    BY <1>1, <2>1
<1>3. CASE Spawn
  <2>1. /\ next \in Job /\ step[next] = "none" /\ step' = [step EXCEPT ![next] = "fetch"]
        /\ UNCHANGED <<main, result, bronze, failures>>
    BY <1>3, SpawnChange
  <2>2. \A j \in Job : verdict(j)' = verdict(j)
    BY <1>0, <2>1 DEF TypeOK
  <2>3. verdicts' = verdicts
    BY <2>2
  <2>4. QED
    BY <1>1, <2>1, <2>3
<1>4. ASSUME NEW j \in Job, Goroutine(j) PROVE [Promise!Next]_(Promise!vars)
  <2>1. JobChange(j) /\ Others(j) /\ Functions /\ UNCHANGED <<main, failures>>
    BY <1>4, GoroutineChange
  <2>2. outcome' = outcome
    BY <2>1
  <2>3. \A i \in Job : i # j => file(i)' = file(i) /\ verdict(i)' = verdict(i)
    BY <2>1 DEF Others
  <2>4. CASE file(j)' = file(j) /\ verdict(j)' = verdict(j)
    <3>1. files' = files /\ verdicts' = verdicts
      BY <2>3, <2>4
    <3>2. QED
      BY <1>1, <2>2, <3>1
  <2>5. CASE step[j] = "write" /\ step'[j] = "stored" /\ result'[j] = "ok" /\ bronze'[j] = "new"
    <3>1. bronze[j] = "old" /\ verdict(j) = "none" /\ verdict(j)' = "none"
      BY <1>0, <2>5 DEF TypeOK, ResultsMatch
    <3>2. verdicts' = verdicts
      BY <2>3, <3>1
    <3>3. /\ files[j] = [at |-> 0, rows |-> 0] /\ files'[j] = [at |-> 1, rows |-> 1]
          /\ files' = [files EXCEPT ![j] = files'[j]]
      BY <2>3, <2>5, <3>1
    <3>4. Promise!Replace(j)
      BY <2>2, <3>1, <3>2, <3>3 DEF Promise!Replace, Promise!Refreshed, Promise!Inherited
    <3>5. QED
      BY <3>4 DEF Promise!Next
  <2>6. CASE step[j] = "stored" /\ step'[j] = "released" /\ UNCHANGED <<result, bronze>>
    <3>1. verdict(j) = "none" /\ verdict(j)' = (IF result[j] = "ok" THEN "ok" ELSE "failed")
      BY <2>6
    <3>2. /\ verdicts[j] = "none" /\ verdicts' = [verdicts EXCEPT ![j] = verdict(j)']
          /\ files' = files
      BY <2>3, <2>6, <3>1
    <3>3. CASE result[j] = "ok"
      <4>1. files[j] # [at |-> 0, rows |-> 0]
        BY <1>0, <3>3 DEF ResultsMatch
      <4>2. Promise!Succeed(j)
        BY <2>2, <3>1, <3>2, <3>3, <4>1 DEF Promise!Succeed, Promise!Refreshed, Promise!Inherited
      <4>3. QED
        BY <4>2 DEF Promise!Next
    <3>4. CASE result[j] # "ok"
      <4>1. Promise!Fail(j)
        BY <2>2, <3>1, <3>2, <3>4 DEF Promise!Fail
      <4>2. QED
        BY <4>1 DEF Promise!Next
    <3>5. QED
      BY <3>3, <3>4
  <2>7. QED
    BY <1>0, <2>1, <2>4, <2>5, <2>6 DEF JobChange, TypeOK
<1>5. CASE Report
  <2>1. /\ main = "spawn" /\ main' = "done" /\ UNCHANGED <<step, result, bronze>>
        /\ failures' = [t \in Table |-> {j \in Job : TableOf[j] = t /\ result[j] \in {"failed", "cancelled"}}]
    BY <1>5 DEF Report
  <2>2. \A j \in Job : step[j] = "gone"
    BY <1>5, <2>1, ReportStep DEF ReportIsTrue
  <2>3. \A j \in Job : result[j] # "none" /\ verdict(j) = (IF result[j] = "ok" THEN "ok" ELSE "failed")
    BY <1>0, <2>2 DEF ResultsMatch
  <2>4. (\A t \in Table : failures'[t] = {}) <=> \A j \in Job : verdict(j) = "ok"
    <3>1. \A j \in Job : TableOf[j] \in Table /\ result[j] \in {"none", "ok", "failed", "cancelled"}
      BY <1>0, TableOfAssumption DEF TypeOK
    <3>2. \A j \in Job : j \in failures'[TableOf[j]] <=> result[j] # "ok"
      BY <2>1, <2>3, <3>1
    <3>3. \A t \in Table : \A j \in failures'[t] : j \in Job /\ result[j] # "ok"
      BY <2>1
    <3>4. QED
      BY <2>3, <3>1, <3>2, <3>3
  <2>5. files' = files /\ verdicts' = verdicts
    BY <2>1
  <2>6. /\ outcome = "running"
        /\ outcome' = IF \A j \in Job : verdicts[j] = "ok" THEN "completed" ELSE "failed"
        /\ \A j \in Job : verdicts[j] # "none"
    BY <2>1, <2>3, <2>4
  <2>7. Promise!Finish
    BY <2>5, <2>6 DEF Promise!Finish
  <2>8. QED
    BY <2>7 DEF Promise!Next
<1>6. QED
  BY <1>2, <1>3, <1>4, <1>5 DEF Next

(* Runner.run: a pass keeps for each of its windows the promise that a     *)
(* MaterialiseWindow run keeps for each table, whatever fails, is retried  *)
(* or is cancelled.                                                        *)
THEOREM Refinement == Spec => KeepsPromise
<1>1. QED
  BY PromiseKeptAtStart, PromiseKeptByStep, Invariant, PTL DEF Spec, KeepsPromise, Promise!Spec
=============================================================================
