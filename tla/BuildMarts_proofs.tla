------------------------- MODULE BuildMarts_proofs -------------------------
(***************************************************************************)
(* Proofs about BuildMarts, for any number of runs, transforms and         *)
(* attempts. What holds whether or not dbt processes outlive their         *)
(* attempts follows from this: a process of a run that builds a pass sets  *)
(* its marts to that run, nothing sets them back, though an abandoned one  *)
(* may damage them and what is derived from them, and the workflow goes on *)
(* only after the exit code of its own process. That files are whole, and  *)
(* what the results file says, can be trusted only where the process       *)
(* waited for is the only one.                                             *)
(***************************************************************************)
EXTENDS BuildMarts, SequenceTheorems, TLAPS

Pc == {"starting", "building", "recording", "writing", "exited"}

(* What changing one process does to the list of them.                     *)
LEMMA BecomesOne ==
    ASSUME dbt \in Seq(Process), NEW b \in DOMAIN dbt, NEW pc \in Pc, NEW ok \in {"yes", "no"},
           Becomes(b, pc, ok)
    PROVE  /\ dbt' \in Seq(Process)
           /\ DOMAIN dbt' = DOMAIN dbt
           /\ dbt'[b] = [run |-> dbt[b].run, pass |-> dbt[b].pass, ok |-> ok, pc |-> pc]
           /\ \A c \in DOMAIN dbt : c # b => dbt'[c] = dbt[c]
<1> DEFINE e == [run |-> dbt[b].run, pass |-> dbt[b].pass, ok |-> ok, pc |-> pc]
<1>1. DOMAIN dbt = 1 .. Len(dbt)
  BY LenProperties
<1>2. dbt[b] \in Process
  BY <1>1, ElementOfSeq
<1>3. e \in Process
  BY <1>2 DEF Process, Pc
<1>4. dbt' = [dbt EXCEPT ![b] = e]
  BY DEF Becomes
<1>5. /\ dbt' \in Seq(Process)
      /\ Len(dbt') = Len(dbt)
      /\ \A c \in 1 .. Len(dbt) : dbt'[c] = IF c = b THEN e ELSE dbt[c]
  BY <1>1, <1>3, <1>4, ExceptSeq
<1>6. DOMAIN dbt' = 1 .. Len(dbt')
  BY <1>5, LenProperties
<1>7. QED
  BY <1>1, <1>5, <1>6

(* What starting a process does to it.                                     *)
LEMMA StartsOne ==
    ASSUME dbt \in Seq(Process), NEW p \in Process, dbt' = Append(dbt, p)
    PROVE  /\ dbt' \in Seq(Process)
           /\ Len(dbt) + 1 \in Nat \ {0}
           /\ Len(dbt) + 1 \notin DOMAIN dbt
           /\ DOMAIN dbt' = DOMAIN dbt \cup {Len(dbt) + 1}
           /\ dbt'[Len(dbt) + 1] = p
           /\ \A c \in DOMAIN dbt : dbt'[c] = dbt[c]
<1>1. DOMAIN dbt = 1 .. Len(dbt) /\ Len(dbt) \in Nat
  BY LenProperties
<1>2. /\ dbt' \in Seq(Process) /\ Len(dbt') = Len(dbt) + 1
      /\ \A c \in 1 .. Len(dbt) : dbt'[c] = dbt[c]
      /\ dbt'[Len(dbt) + 1] = p
  BY AppendProperties
<1>3. DOMAIN dbt' = 1 .. Len(dbt')
  BY <1>2, LenProperties
<1>4. QED
  BY <1>1, <1>2, <1>3

LEMMA AProcess ==
    ASSUME dbt \in Seq(Process), NEW b \in DOMAIN dbt
    PROVE  /\ dbt[b] \in Process
           /\ b \in Nat \ {0}
<1>1. DOMAIN dbt = 1 .. Len(dbt) /\ Len(dbt) \in Nat
  BY LenProperties
<1>2. QED
  BY <1>1, ElementOfSeq

(* What a process that gives up leaves of the marts.                       *)
LEMMA AbandonedMarts ==
    ASSUME TypeOK, NEW b \in DOMAIN dbt, Abandons(b)
    PROVE  /\ lock' \in Nat
           /\ pre' \in {pre, 0}
           /\ derived' = derived
           /\ post' \in [Transform -> Version]
           /\ \A t \in Transform : post'[t] \in {post[t], 0}
           /\ dbt[b].pass = "pre_go" => post' = post
           /\ dbt[b].pass = "post_go" => pre' = pre
<1>1. 0 \in Version
  BY RunsAssumption DEF Version
<1>2. QED
  BY <1>1 DEF Abandons, TypeOK, marts

LEMMA Versions == 0 \in Version /\ \A v \in Version : v \in Nat
BY RunsAssumption DEF Version

-----------------------------------------------------------------------------
(* Type correctness. It needs the invariant for the processes to exist     *)
(* that are waited for.                                                    *)

LEMMA TypeStep == TypeOK /\ AttemptMatches /\ [Next]_vars => TypeOK'
<1> SUFFICES ASSUME TypeOK, AttemptMatches, [Next]_vars PROVE TypeOK'
  OBVIOUS
<1> USE Versions
<1>1. CASE UNCHANGED vars
  BY <1>1 DEF vars, serverVars, workerVars, marts, TypeOK
<1>2. CASE StartRun
  <2>1. run + 1 \in Version
    BY <1>2, RunsAssumption DEF StartRun, TypeOK, Version
  <2>2. 1 \in Transform
    BY TransformsAssumption DEF Transform
  <2>3. QED
    BY <1>2, <2>1, <2>2 DEF StartRun, TypeOK, workerVars, marts
<1>3. CASE BuildStart
  <2>1. run \in 1 .. Runs
    BY <1>3, RunsAssumption DEF BuildStart, Dispatched, TypeOK, AttemptMatches, Version
  <2>2. [run |-> run, pass |-> stage, ok |-> "no", pc |-> "starting"] \in Process
    BY <1>3, <2>1 DEF BuildStart, Process
  <2>3. dbt' \in Seq(Process) /\ mine' \in Nat
    BY <1>3, <2>2, StartsOne DEF BuildStart, TypeOK
  <2>4. file' \in File
    BY <1>3 DEF BuildStart, TypeOK, File
  <2>5. attempt' \in Nat
    BY <1>3 DEF BuildStart, Dispatched, TypeOK
  <2>6. QED
    BY <1>3, <2>3, <2>4, <2>5 DEF BuildStart, Dispatched, TypeOK, marts
<1>4. CASE BuildRefused
  BY <1>4 DEF BuildRefused, Dispatched, TypeOK, marts
<1>5. CASE TransformStart
  BY <1>5 DEF TransformStart, Dispatched, TypeOK, marts
<1>6. ASSUME AttemptOver
      PROVE  /\ step' = "none" /\ ctx' = "live" /\ mine' \in Nat /\ rr' \in Nat
             /\ batch' \in Version /\ reply' = "ok"
  BY <1>6 DEF AttemptOver
<1>7. ASSUME RetryOrFail \/ ActivityFails
      PROVE  /\ outcome' \in {outcome, "failed"}
             /\ UNCHANGED <<run, stage, index, attempt, result>>
  BY <1>7 DEF RetryOrFail, ActivityFails, End, serverVars
<1>8. ASSUME Completes
      PROVE  /\ outcome' \in {outcome, "completed"} /\ run' = run
             /\ stage' \in {"pre_go", "transforms", "post_go"}
             /\ index' \in Transform /\ attempt' \in Nat /\ result' \in [Pass -> Nat]
  <2>1. 1 \in Transform /\ (index < Transforms => index + 1 \in Transform)
    BY TransformsAssumption DEF Transform, TypeOK
  <2>2. CASE stage \in Pass /\ BuildCompletes
    BY <2>1, <2>2 DEF BuildCompletes, GoTo, TypeOK
  <2>3. CASE stage = "transforms" /\ TransformCompletes
    BY <2>1, <2>3 DEF TransformCompletes, GoTo, TypeOK
  <2>4. QED
    BY <1>8, <2>2, <2>3 DEF Completes
<1>9. CASE Receive
  BY <1>6, <1>7, <1>8, <1>9 DEF Receive, TypeOK, marts
<1>10. ASSUME NEW b \in DOMAIN dbt, Killed(b)
       PROVE  /\ dbt' \in Seq(Process) /\ lock' \in Nat
              /\ pre' \in Version /\ derived' = derived /\ post' \in [Transform -> Version]
  BY <1>10, BecomesOne, AbandonedMarts DEF Killed, TypeOK, Pc
<1>11. step = "dbt" => mine \in DOMAIN dbt
  BY DEF AttemptMatches
<1>12. CASE Timeout
  <2>1. dbt' \in Seq(Process) /\ lock' \in Nat
        /\ pre' \in Version /\ derived' = derived /\ post' \in [Transform -> Version]
    BY <1>10, <1>11, <1>12 DEF Timeout, TypeOK, marts
  <2>2. QED
    BY <1>6, <1>7, <1>12, <2>1 DEF Timeout, TypeOK
<1>13. CASE Lost
  BY <1>13 DEF Lost, TypeOK, serverVars, marts
<1>14. CASE Shutdown
  BY <1>14 DEF Shutdown, TypeOK, serverVars, marts
<1>15. CASE KillDbt
  BY <1>10, <1>11, <1>15 DEF KillDbt, TypeOK, serverVars, workerVars
<1>16. ASSUME NEW nodes \in Nat, BuildFails(nodes)
       PROVE  /\ step' = "answer" /\ reply' \in {"failed", "retry"} /\ rr' = nodes
              /\ UNCHANGED <<ctx, mine, batch>>
  BY <1>16 DEF BuildFails, Answers
<1>17. CASE BuildStat
  BY <1>16, <1>17 DEF BuildStat, TypeOK, serverVars, marts
<1>18. CASE BuildParse
  <2>1. file.by \in Nat
    BY DEF TypeOK, File
  <2>2. QED
    BY <1>16, <1>18, <2>1 DEF BuildParse, Answers, TypeOK, serverVars, marts
<1>19. CASE TransformRead
  BY <1>19 DEF TransformRead, TypeOK, serverVars, marts
<1>20. CASE TransformWrite
  BY <1>20 DEF TransformWrite, TypeOK, serverVars
<1>21. CASE TransformError
  BY <1>21 DEF TransformError, TypeOK, serverVars, marts
<1>22. ASSUME NEW b \in DOMAIN dbt, DbtStep(b) PROVE TypeOK'
  <2>1. dbt[b] \in Process /\ b \in Nat
    BY AProcess DEF TypeOK
  <2>2. CASE DbtOpens(b)
    <3>1. dbt' \in Seq(Process)
      BY <2>2, BecomesOne DEF DbtOpens, Pc, TypeOK
    <3>2. QED
      BY <2>1, <2>2, <3>1 DEF DbtOpens, TypeOK, serverVars, workerVars
  <2>3. CASE DbtBuilds(b)
    <3>1. dbt' \in Seq(Process)
      BY <2>3, BecomesOne DEF DbtBuilds, Pc, TypeOK
    <3>2. /\ lock' \in Nat
          /\ pre' \in Version /\ derived' = derived /\ post' \in [Transform -> Version]
      BY <2>3, AbandonedMarts DEF DbtBuilds, TypeOK, marts
    <3>3. QED
      BY <2>3, <3>1, <3>2 DEF DbtBuilds, TypeOK, serverVars, workerVars
  <2>4. CASE DbtGivesUp(b)
    <3>1. dbt' \in Seq(Process)
      BY <2>4, BecomesOne DEF DbtGivesUp, Pc, TypeOK
    <3>2. /\ lock' \in Nat
          /\ pre' \in Version /\ derived' = derived /\ post' \in [Transform -> Version]
      BY <2>4, AbandonedMarts DEF DbtGivesUp, TypeOK
    <3>3. QED
      BY <2>4, <3>1, <3>2 DEF DbtGivesUp, TypeOK, serverVars, workerVars
  <2>5. dbt[b].ok \in {"yes", "no"}
    BY <2>1 DEF Process
  <2>6. CASE DbtTruncates(b)
    <3>1. dbt' \in Seq(Process)
      BY <2>5, <2>6, BecomesOne DEF DbtTruncates, Pc, TypeOK
    <3>2. file' \in File
      BY <2>1, <2>6 DEF DbtTruncates, Writes, File
    <3>3. QED
      BY <2>6, <3>1, <3>2 DEF DbtTruncates, TypeOK, serverVars, workerVars, marts
  <2>7. CASE DbtRecords(b)
    <3>1. dbt' \in Seq(Process)
      BY <2>5, <2>7, BecomesOne DEF DbtRecords, Pc, TypeOK
    <3>2. file' \in File
      BY <2>1, <2>7 DEF DbtRecords, Writes, File
    <3>3. QED
      BY <2>7, <3>1, <3>2 DEF DbtRecords, TypeOK, serverVars, workerVars, marts
  <2>8. QED
    BY <1>22, <2>2, <2>3, <2>4, <2>6, <2>7 DEF DbtStep
<1>23. QED
  BY <1>1, <1>2, <1>3, <1>4, <1>5, <1>9, <1>12, <1>13, <1>14, <1>15, <1>17, <1>18, <1>19,
     <1>20, <1>21, <1>22 DEF Next, Start

-----------------------------------------------------------------------------
(* What a step does to a dbt process and to the marts.                     *)

Goes(b, pc, ok) ==
    dbt'[b] = [run |-> dbt[b].run, pass |-> dbt[b].pass, ok |-> ok, pc |-> pc]

Opened(b) ==
    /\ dbt[b].pc = "starting" /\ Goes(b, "building", "no")
    /\ dbt[b].pass = "pre_go" => pre' = run
    /\ dbt[b].pass = "post_go" => post' = derived

ProcessChange(b) ==
    \/ dbt'[b] = dbt[b]
    \/ Opened(b)
    \/ dbt[b].pc = "building" /\ Goes(b, "recording", "yes") /\ UNCHANGED marts
    \/ dbt[b].pc # "exited" /\ (Goes(b, "recording", "no") \/ Goes(b, "exited", "no"))
    \/ dbt[b].pc = "recording" /\ Goes(b, "writing", dbt[b].ok) /\ UNCHANGED marts
    \/ dbt[b].pc = "writing" /\ Goes(b, "exited", dbt[b].ok) /\ UNCHANGED marts

LEMMA Changes ==
    ASSUME TypeOK, AttemptMatches, [Next]_vars
    PROVE  /\ DOMAIN dbt \subseteq DOMAIN dbt'
           /\ \A b \in DOMAIN dbt : ProcessChange(b)
           /\ \A b \in DOMAIN dbt' \ DOMAIN dbt :
                /\ BuildStart /\ b = mine'
                /\ dbt'[b] = [run |-> run, pass |-> stage, ok |-> "no", pc |-> "starting"]
           /\ pre' \in {pre, 0, run}
           /\ derived' = derived \/ TransformWrite
           /\ post' = derived \/ \A t \in Transform : post'[t] \in {post[t], 0}
<1> DEFINE Old == /\ DOMAIN dbt' = DOMAIN dbt
                  /\ \A b \in DOMAIN dbt : ProcessChange(b)
           Marts == /\ pre' \in {pre, 0, run}
                    /\ derived' = derived
                    /\ post' = derived \/ \A t \in Transform : post'[t] \in {post[t], 0}
<1>1. ASSUME UNCHANGED dbt PROVE Old
  BY <1>1 DEF ProcessChange
<1>2. ASSUME UNCHANGED marts PROVE Marts
  BY <1>2 DEF marts
<1>3. ASSUME NEW b \in DOMAIN dbt, NEW pc \in Pc, NEW ok \in {"yes", "no"}, Becomes(b, pc, ok)
      PROVE  /\ DOMAIN dbt' = DOMAIN dbt /\ Goes(b, pc, ok)
             /\ \A c \in DOMAIN dbt : c # b => dbt'[c] = dbt[c]
  BY <1>3, BecomesOne DEF TypeOK, Goes
<1>4. ASSUME NEW b \in DOMAIN dbt, Abandons(b)
      PROVE  Marts
  BY <1>4, AbandonedMarts
<1>5. ASSUME NEW b \in DOMAIN dbt, Running(b), Killed(b)
      PROVE  Old /\ Marts
  <2>1. /\ DOMAIN dbt' = DOMAIN dbt /\ Goes(b, "exited", "no")
        /\ \A c \in DOMAIN dbt : c # b => dbt'[c] = dbt[c]
    BY <1>3, <1>5 DEF Killed, Pc
  <2>2. ProcessChange(b)
    BY <1>5, <2>1 DEF ProcessChange, Running
  <2>3. Old
    BY <2>1, <2>2 DEF ProcessChange
  <2>4. QED
    BY <1>4, <1>5, <2>3 DEF Killed
<1>6. step = "dbt" => mine \in DOMAIN dbt
  BY DEF AttemptMatches
<1>7. CASE UNCHANGED <<dbt, marts>>
  BY <1>1, <1>2, <1>7
<1>8. CASE BuildStart
  <2>1. run \in 1 .. Runs
    BY <1>8, RunsAssumption DEF BuildStart, Dispatched, TypeOK, AttemptMatches, Version
  <2>2. [run |-> run, pass |-> stage, ok |-> "no", pc |-> "starting"] \in Process
    BY <1>8, <2>1 DEF BuildStart, Process
  <2>3. /\ DOMAIN dbt' = DOMAIN dbt \cup {mine'}
        /\ dbt'[mine'] = [run |-> run, pass |-> stage, ok |-> "no", pc |-> "starting"]
        /\ \A c \in DOMAIN dbt : dbt'[c] = dbt[c]
    BY <1>8, <2>2, StartsOne DEF BuildStart, TypeOK
  <2>4. Marts
    BY <1>2, <1>8 DEF BuildStart
  <2>5. QED
    BY <1>8, <2>3, <2>4 DEF ProcessChange
<1>9. CASE Timeout
  <2>1. CASE step = "dbt" /\ Running(mine)
    BY <1>5, <1>6, <1>9, <2>1 DEF Timeout
  <2>2. CASE ~(step = "dbt" /\ Running(mine))
    BY <1>7, <1>9, <2>2 DEF Timeout
  <2>3. QED
    BY <2>1, <2>2
<1>10. CASE KillDbt
  BY <1>5, <1>6, <1>10 DEF KillDbt
<1>11. CASE TransformWrite
  BY <1>1, <1>11 DEF TransformWrite
<1>12. ASSUME NEW b \in DOMAIN dbt, DbtStep(b) PROVE Old /\ Marts
  <2>1. dbt[b].ok \in {"yes", "no"} /\ dbt[b].pass \in Pass
    BY AProcess DEF TypeOK, Process
  <2>2. CASE DbtOpens(b)
    <3>1. /\ DOMAIN dbt' = DOMAIN dbt /\ Goes(b, "building", "no")
          /\ \A c \in DOMAIN dbt : c # b => dbt'[c] = dbt[c]
      BY <1>3, <2>2 DEF DbtOpens, Pc
    <3>2. ProcessChange(b)
      BY <2>1, <2>2, <3>1 DEF DbtOpens, ProcessChange, Opened, Pass
    <3>3. Marts
      BY <2>2 DEF DbtOpens
    <3>4. QED
      BY <3>1, <3>2, <3>3 DEF ProcessChange
  <2>3. CASE DbtBuilds(b)
    <3>1. CASE Becomes(b, "recording", "yes") /\ lock' = 0 /\ UNCHANGED marts
      BY <1>2, <1>3, <2>3, <3>1 DEF DbtBuilds, ProcessChange, Pc
    <3>2. CASE Becomes(b, "recording", "no") /\ Abandons(b)
      BY <1>3, <1>4, <2>3, <3>2 DEF DbtBuilds, ProcessChange, Pc
    <3>3. QED
      BY <2>3, <3>1, <3>2 DEF DbtBuilds
  <2>4. CASE DbtGivesUp(b)
    <3>1. PICK pc \in {"recording", "exited"} : Becomes(b, pc, "no")
      BY <2>4 DEF DbtGivesUp
    <3>2. /\ DOMAIN dbt' = DOMAIN dbt /\ Goes(b, pc, "no")
          /\ \A c \in DOMAIN dbt : c # b => dbt'[c] = dbt[c]
      BY <1>3, <3>1 DEF Pc
    <3>3. ProcessChange(b)
      BY <2>4, <3>2 DEF DbtGivesUp, ProcessChange
    <3>4. Marts
      BY <1>4, <2>4 DEF DbtGivesUp
    <3>5. QED
      BY <3>2, <3>3, <3>4 DEF ProcessChange
  <2>5. CASE DbtTruncates(b)
    BY <1>2, <1>3, <2>1, <2>5 DEF DbtTruncates, ProcessChange, Pc
  <2>6. CASE DbtRecords(b)
    BY <1>2, <1>3, <2>1, <2>6 DEF DbtRecords, ProcessChange, Pc
  <2>7. QED
    BY <1>12, <2>2, <2>3, <2>4, <2>5, <2>6 DEF DbtStep
<1>13. CASE StartRun \/ BuildRefused \/ TransformStart \/ Receive \/ Lost \/ Shutdown \/ BuildStat
            \/ BuildParse \/ TransformRead \/ TransformError \/ UNCHANGED vars
  <2>1. UNCHANGED <<dbt, marts>>
    BY <1>13 DEF StartRun, BuildRefused, TransformStart, Receive, Lost, Shutdown, BuildStat,
       BuildParse, TransformRead, TransformError, vars
  <2>2. QED
    BY <1>7, <2>1
<1>14. QED
  BY <1>8, <1>9, <1>10, <1>11, <1>12, <1>13 DEF Next, Start

LEMMA Persists ==
    ASSUME TypeOK, AttemptMatches, [Next]_vars, NEW b \in DOMAIN dbt
    PROVE  /\ b \in DOMAIN dbt'
           /\ dbt'[b].run = dbt[b].run /\ dbt'[b].pass = dbt[b].pass
           /\ dbt[b].pc = "exited" => dbt'[b] = dbt[b]
<1>1. b \in DOMAIN dbt' /\ ProcessChange(b)
  BY Changes
<1>2. QED
  BY <1>1 DEF ProcessChange, Opened, Goes

(* The server's part of the actions that end an attempt.                   *)
LEMMA Outcomes ==
    /\ AttemptOver => step' = "none" /\ mine' = 0 /\ batch' = 0
    /\ RetryOrFail \/ ActivityFails =>
           /\ outcome' \in {outcome, "failed"}
           /\ UNCHANGED <<run, stage, index, result>>
    /\ Completes =>
           /\ run' = run
           /\ \/ /\ stage = "pre_go" /\ stage' = "transforms" /\ index' = 1
                 /\ outcome' = outcome /\ result' = [result EXCEPT !["pre_go"] = rr]
              \/ /\ stage = "post_go" /\ stage' = "post_go" /\ index' = index
                 /\ outcome' = "completed" /\ result' = [result EXCEPT !["post_go"] = rr]
              \/ /\ stage = "transforms" /\ index < Transforms
                 /\ stage' = "transforms" /\ index' = index + 1
                 /\ outcome' = outcome /\ result' = result
              \/ /\ stage = "transforms" /\ index = Transforms
                 /\ stage' = "post_go" /\ index' = index
                 /\ outcome' = outcome /\ result' = result
BY DEF AttemptOver, RetryOrFail, ActivityFails, End, serverVars, Completes, BuildCompletes,
   TransformCompletes, GoTo, Pass

(* What an attempt does on its worker leaves the run where it is.          *)
Working ==
    \/ BuildStat \/ BuildParse \/ TransformRead \/ TransformWrite \/ TransformError
    \/ Lost \/ Shutdown \/ KillDbt
    \/ \E b \in DOMAIN dbt : DbtStep(b)
    \/ UNCHANGED vars

LEMMA WorkingFrame == Working => UNCHANGED serverVars /\ mine' = mine
BY DEF Working, BuildStat, BuildParse, BuildFails, Answers, TransformRead, TransformWrite,
   TransformError, Lost, Shutdown, KillDbt, DbtStep, DbtOpens, DbtBuilds, DbtGivesUp,
   DbtTruncates, DbtRecords, vars, serverVars, workerVars

LEMMA Cases ==
    [Next]_vars => StartRun \/ Start \/ Receive \/ Timeout \/ Working
BY DEF Next, Working

LEMMA AttemptMatchesStep ==
    TypeOK /\ AttemptMatches /\ [Next]_vars => AttemptMatches'
<1> SUFFICES ASSUME TypeOK, AttemptMatches, [Next]_vars PROVE AttemptMatches'
  OBVIOUS
<1>1. CASE StartRun
  <2>1. step = "none" /\ mine = 0
    BY <1>1 DEF StartRun, AttemptMatches
  <2>2. run' # 0
    BY <1>1, Versions DEF StartRun, TypeOK
  <2>3. QED
    BY <1>1, <2>1, <2>2 DEF StartRun, AttemptMatches, workerVars, Reporting
<1>2. CASE BuildStart
  <2>1. run \in 1 .. Runs
    BY <1>2, RunsAssumption DEF BuildStart, Dispatched, TypeOK, AttemptMatches, Version
  <2>2. [run |-> run, pass |-> stage, ok |-> "no", pc |-> "starting"] \in Process
    BY <1>2, <2>1 DEF BuildStart, Process
  <2>3. /\ mine' \in DOMAIN dbt' /\ mine' # 0
        /\ dbt'[mine'] = [run |-> run, pass |-> stage, ok |-> "no", pc |-> "starting"]
    BY <1>2, <2>2, StartsOne DEF BuildStart, TypeOK
  <2>4. QED
    BY <1>2, <2>3 DEF BuildStart, Dispatched, AttemptMatches, Reporting
<1>3. CASE BuildRefused
  BY <1>3 DEF BuildRefused, Dispatched, AttemptMatches, Reporting
<1>4. CASE TransformStart
  BY <1>4 DEF TransformStart, Dispatched, AttemptMatches, Reporting
<1>5. CASE Receive
  <2>1. step' = "none" /\ mine' = 0 /\ outcome = "running"
    BY <1>5, Outcomes DEF Receive, AttemptMatches
  <2>2. CASE Completes
    BY <2>1, <2>2, Outcomes DEF AttemptMatches, Reporting
  <2>3. CASE RetryOrFail \/ ActivityFails
    BY <2>1, <2>3, Outcomes DEF AttemptMatches, Reporting
  <2>4. QED
    BY <1>5, <2>2, <2>3 DEF Receive
<1>6. CASE Timeout
  <2>1. step' = "none" /\ mine' = 0 /\ outcome = "running"
    BY <1>6, Outcomes DEF Timeout, AttemptMatches
  <2>2. QED
    BY <1>6, <2>1, Outcomes DEF Timeout, AttemptMatches, Reporting
<1>7. CASE Working
  <2>1. UNCHANGED serverVars /\ mine' = mine
    BY <1>7, WorkingFrame
  <2>2. mine # 0 => /\ mine' \in DOMAIN dbt' /\ dbt'[mine'].run = run' /\ dbt'[mine'].pass = stage'
                    /\ dbt[mine].pc = "exited" => dbt'[mine'] = dbt[mine]
    BY <2>1, Persists DEF AttemptMatches, serverVars
  <2>3. CASE UNCHANGED <<step, reply>>
    BY <2>1, <2>2, <2>3 DEF AttemptMatches, serverVars, Reporting
  <2>4. CASE BuildStat
    <3>1. mine # 0 /\ mine \in DOMAIN dbt /\ dbt[mine].pc = "exited"
      BY <2>4, AProcess DEF BuildStat, AttemptMatches, Running, TypeOK, Process
    <3>2. step' = "parse" \/ (step' = "answer" /\ reply' # "ok")
      BY <2>4 DEF BuildStat, BuildFails, Answers
    <3>3. stage \in Pass /\ outcome = "running"
      BY <2>4, <3>1, AProcess DEF BuildStat, AttemptMatches, TypeOK, Process
    <3>4. QED
      BY <2>1, <2>2, <3>1, <3>2, <3>3 DEF AttemptMatches, serverVars, Reporting, Pass
  <2>5. CASE BuildParse
    <3>1. mine # 0 /\ dbt[mine].pc = "exited" /\ outcome = "running"
      BY <2>5 DEF BuildParse, AttemptMatches
    <3>2. step' = "answer" /\ (reply' = "ok" => dbt[mine].ok = "yes")
      BY <2>5 DEF BuildParse, BuildFails, Answers
    <3>3. QED
      BY <2>1, <2>2, <3>1, <3>2 DEF AttemptMatches, serverVars, Reporting
  <2>6. CASE TransformRead \/ TransformWrite \/ TransformError
    <3>1. stage = "transforms" /\ outcome = "running" /\ step' \in {"write", "answer"}
      BY <2>6 DEF TransformRead, TransformWrite, TransformError, AttemptMatches
    <3>2. QED
      BY <2>1, <2>2, <3>1 DEF AttemptMatches, serverVars, Reporting, Pass
  <2>7. CASE Lost
    <3>1. step' = "lost" /\ outcome = "running"
      BY <2>7 DEF Lost, AttemptMatches
    <3>2. QED
      BY <2>1, <2>2, <3>1 DEF AttemptMatches, serverVars, Reporting
  <2>8. CASE Shutdown \/ KillDbt \/ (\E b \in DOMAIN dbt : DbtStep(b)) \/ UNCHANGED vars
    <3>1. UNCHANGED <<step, reply>>
      BY <2>8 DEF Shutdown, KillDbt, DbtStep, DbtOpens, DbtBuilds, DbtGivesUp, DbtTruncates,
         DbtRecords, vars, workerVars
    <3>2. QED
      BY <2>3, <3>1
  <2>9. QED
    BY <1>7, <2>4, <2>5, <2>6, <2>7, <2>8 DEF Working
<1>8. QED
  BY <1>1, <1>2, <1>3, <1>4, <1>5, <1>6, <1>7, Cases DEF Start

LEMMA ProcessesMatchStep ==
    TypeOK /\ AttemptMatches /\ ProcessesMatch /\ [Next]_vars => ProcessesMatch'
<1> SUFFICES ASSUME TypeOK, AttemptMatches, ProcessesMatch, [Next]_vars, NEW b \in DOMAIN dbt'
             PROVE  /\ dbt'[b].run <= run'
                    /\ dbt'[b].run = run' /\ dbt'[b].pass = "post_go" => stage' = "post_go"
                    /\ dbt'[b].pc \in {"starting", "building"} => dbt'[b].ok = "no"
  BY DEF ProcessesMatch
<1> USE Versions
<1>1. run \in Nat
  BY DEF TypeOK
<1>2. \/ run' = run /\ (stage = "post_go" => stage' = "post_go")
      \/ run' = run + 1
  <2>1. CASE StartRun
    BY <2>1 DEF StartRun
  <2>2. CASE Start
    BY <2>2 DEF Start, BuildStart, BuildRefused, TransformStart, Dispatched
  <2>3. CASE Receive
    BY <2>3, Outcomes DEF Receive
  <2>4. CASE Timeout
    BY <2>4, Outcomes DEF Timeout
  <2>5. CASE Working
    BY <2>5, WorkingFrame DEF serverVars
  <2>6. QED
    BY <2>1, <2>2, <2>3, <2>4, <2>5, Cases
<1>3. CASE b \in DOMAIN dbt
  <2>1. ProcessChange(b) /\ dbt[b] \in Process
    BY <1>3, Changes, AProcess DEF TypeOK
  <2>2. dbt'[b].run = dbt[b].run /\ dbt'[b].pass = dbt[b].pass
    BY <1>3, Persists
  <2>3. dbt'[b].pc \in {"starting", "building"} => dbt'[b].ok = "no"
    BY <1>3, <2>1 DEF ProcessChange, Opened, Goes, ProcessesMatch
  <2>4. dbt[b].run \in Nat /\ dbt[b].run <= run
    BY <1>3, <2>1, RunsAssumption DEF Process, ProcessesMatch
  <2>5. QED
    BY <1>1, <1>2, <1>3, <2>2, <2>3, <2>4 DEF ProcessesMatch
<1>4. CASE b \notin DOMAIN dbt
  <2>1. BuildStart /\ dbt'[b] = [run |-> run, pass |-> stage, ok |-> "no", pc |-> "starting"]
    BY <1>4, Changes
  <2>2. UNCHANGED <<run, stage>>
    BY <2>1 DEF BuildStart, Dispatched
  <2>3. QED
    BY <1>1, <2>1, <2>2
<1>5. QED
  BY <1>3, <1>4

-----------------------------------------------------------------------------
(* Nothing shows older bronze than the run that rebuilt it, orphans or no. *)

(* The transforms derive nothing but what they read.                       *)
LEMMA DerivesStep ==
    ASSUME TypeOK, AttemptMatches, [Next]_vars, ~StartRun,
           NEW versions, Derives(versions), TransformRead => batch' \in versions
    PROVE  Derives(versions)'
<1>0. index \in Transform /\ Transform = 1 .. Transforms /\ Transforms \in Nat
  BY TransformsAssumption DEF TypeOK, Transform
<1>1. CASE Start
  <2>1. /\ UNCHANGED <<stage, index, derived>>
        /\ step' # "write" /\ (step' = "answer" => stage # "transforms")
    BY <1>1 DEF Start, BuildStart, BuildRefused, TransformStart, Dispatched, Pass, marts
  <2>2. QED
    BY <2>1 DEF Derives
<1>2. CASE Receive
  <2>1. step' = "none" /\ derived' = derived
    BY <1>2, Outcomes DEF Receive, marts
  <2>2. CASE RetryOrFail \/ ActivityFails
    BY <2>1, <2>2, Outcomes DEF Derives
  <2>3. CASE reply = "ok" /\ Completes
    <3>1. stage = "transforms" => \A t \in Transform : t <= index => derived[t] \in versions
      BY <1>0, <1>2, <2>3 DEF Receive, Derives
    <3>2. stage' = "transforms" => \A t \in Transform : t < index' => derived[t] \in versions
      BY <1>0, <2>3, <3>1, Outcomes
    <3>3. stage' = "post_go" => \A t \in Transform : derived[t] \in versions
      BY <1>0, <2>3, <3>1, Outcomes DEF Derives
    <3>4. QED
      BY <2>1, <3>2, <3>3 DEF Derives
  <2>4. QED
    BY <1>2, <2>2, <2>3 DEF Receive
<1>3. CASE Timeout
  <2>1. step' = "none" /\ UNCHANGED <<stage, index>>
    BY <1>3, Outcomes DEF Timeout
  <2>2. derived' = derived
    BY <1>3, Changes DEF Timeout, TransformWrite, AttemptOver
  <2>3. QED
    BY <2>1, <2>2 DEF Derives
<1>4. CASE Working
  <2>1. UNCHANGED <<stage, index>>
    BY <1>4, WorkingFrame DEF serverVars
  <2>2. step' = "write" => batch' \in versions
    <3>1. CASE ~TransformRead
      BY <1>4, <3>1 DEF Working, BuildStat, BuildParse, BuildFails, Answers, TransformWrite,
         TransformError, Lost, Shutdown, KillDbt, DbtStep, DbtOpens, DbtBuilds, DbtGivesUp,
         DbtTruncates, DbtRecords, vars, workerVars, Derives
    <3>2. QED
      BY <3>1
  <2>3. CASE TransformWrite
    <3>1. /\ stage = "transforms" /\ batch \in versions /\ step' = "answer"
          /\ derived' = [derived EXCEPT ![index] = batch]
      BY <2>3 DEF TransformWrite, AttemptMatches, Derives
    <3>2. derived'[index] \in versions /\ \A t \in Transform : derived'[t] \in {derived[t], derived'[index]}
      BY <1>0, <3>1 DEF TypeOK
    <3>3. QED
      BY <2>1, <3>1, <3>2 DEF Derives
  <2>4. CASE ~TransformWrite
    <3>1. derived' = derived
      BY <2>4, Changes
    <3>2. stage = "transforms" /\ step' = "answer" /\ reply' = "ok" => step = "answer" /\ reply = "ok"
      <4>1. step \in {"dbt", "parse"} => stage \in Pass
        BY AProcess DEF AttemptMatches, TypeOK, Process
      <4>2. QED
        BY <1>4, <2>4, <4>1 DEF Working, BuildStat, BuildParse, BuildFails, Answers, TransformRead,
           TransformError, Lost, Shutdown, KillDbt, DbtStep, DbtOpens, DbtBuilds, DbtGivesUp,
           DbtTruncates, DbtRecords, vars, workerVars, Pass
    <3>3. QED
      BY <2>1, <2>2, <3>1, <3>2 DEF Derives
  <2>5. QED
    BY <2>3, <2>4
<1>5. QED
  BY <1>1, <1>2, <1>3, <1>4, Cases

(* A process that has rebuilt its marts after a step either had before it  *)
(* or opens the database in it.                                            *)
LEMMA RebuiltAfter ==
    ASSUME TypeOK, AttemptMatches, ProcessesMatch, [Next]_vars, UNCHANGED run,
           NEW b \in DOMAIN dbt', NEW p \in Pass, Rebuilt(b, p)'
    PROVE  /\ b \in DOMAIN dbt
           /\ \/ Rebuilt(b, p)
              \/ /\ dbt[b].run = run /\ dbt[b].pass = p
                 /\ p = "pre_go" => pre' = run
                 /\ p = "post_go" => post' = derived
<1>1. b \in DOMAIN dbt
  BY Changes DEF Rebuilt
<1>2. ProcessChange(b) /\ dbt'[b].run = dbt[b].run /\ dbt'[b].pass = dbt[b].pass
  BY <1>1, Changes, Persists
<1>3. QED
  BY <1>1, <1>2 DEF Rebuilt, ProcessChange, Opened, Goes, ProcessesMatch

LEMMA NothingBehindStep ==
    TypeOK /\ AttemptMatches /\ ProcessesMatch /\ NothingBehind /\ [Next]_vars => NothingBehind'
<1> SUFFICES ASSUME TypeOK, AttemptMatches, ProcessesMatch, NothingBehind, [Next]_vars
             PROVE  NothingBehind'
  OBVIOUS
<1> USE Versions
<1>0. run \in Nat /\ index \in Transform /\ Transform \subseteq Nat
  BY DEF TypeOK, Transform
<1>1. CASE StartRun
  <2>1. /\ run' = run + 1 /\ stage' = "pre_go" /\ outcome' = "running"
        /\ step = "none" /\ UNCHANGED <<dbt, step>>
    BY <1>1 DEF StartRun, AttemptMatches, workerVars
  <2>2. \A b \in DOMAIN dbt : dbt[b].run \in Nat /\ dbt[b].run <= run
    BY AProcess, RunsAssumption DEF TypeOK, Process, ProcessesMatch
  <2>3. \A b \in DOMAIN dbt' : dbt'[b].run # run'
    BY <1>0, <2>1, <2>2
  <2>4. QED
    BY <2>1, <2>3 DEF NothingBehind, Derives, Rebuilt, MartsNeverBehind
<1>2. CASE ~StartRun
  <2>1. run' = run
    BY <1>2, Cases, Outcomes, WorkingFrame DEF Start, BuildStart, BuildRefused, TransformStart, Dispatched,
       Receive, Timeout, serverVars
  <2>2. pre \in {0, run} => pre' \in {0, run}
    BY Changes
  <2>3. ASSUME NEW b \in DOMAIN dbt', Rebuilt(b, "pre_go")' PROVE pre' \in {0, run}
    BY <2>1, <2>2, <2>3, RebuiltAfter DEF NothingBehind, Pass
  <2>derives. Derives({0, run})'
    <3>1. TransformRead => batch' \in {0, run}
      BY DEF TransformRead, AttemptMatches, NothingBehind
    <3>2. QED
      BY <1>2, <2>1, <3>1, DerivesStep DEF NothingBehind
  <2>4. ASSUME \A t \in Transform : post[t] \in {0, run}, stage = "post_go"
        PROVE  \A t \in Transform : post'[t] \in {0, run}
    BY <2>4, Changes DEF NothingBehind, Derives
  <2>5. ASSUME NEW b \in DOMAIN dbt', Rebuilt(b, "post_go")'
        PROVE  \A t \in Transform : post'[t] \in {0, run}
    <3>1. b \in DOMAIN dbt /\ dbt[b].run = run /\ dbt[b].pass = "post_go"
      BY <2>1, <2>5, RebuiltAfter DEF Pass, Rebuilt
    <3>2. stage = "post_go"
      BY <3>1 DEF ProcessesMatch
    <3>3. CASE Rebuilt(b, "post_go")
      BY <2>4, <3>1, <3>2, <3>3 DEF NothingBehind
    <3>4. CASE post' = derived
      BY <3>2, <3>4 DEF NothingBehind, Derives
    <3>5. QED
      BY <2>1, <2>5, <3>3, <3>4, RebuiltAfter DEF Pass
  <2>6. ASSUME Reporting, reply = "ok"
        PROVE  /\ stage = "pre_go" => pre \in {0, run}
               /\ stage = "post_go" => \A t \in Transform : post[t] \in {0, run}
    <3>1. mine \in DOMAIN dbt /\ Rebuilt(mine, stage)
      BY <2>6 DEF AttemptMatches, Rebuilt
    <3>2. QED
      BY <3>1 DEF NothingBehind
  <2>7. CASE Start
    <3>1. UNCHANGED <<outcome, stage>> /\ outcome = "running"
      BY <2>7 DEF Start, BuildStart, BuildRefused, TransformStart, Dispatched
    <3>2. QED
      BY <2>derives, <2>1, <2>2, <2>3, <2>5, <3>1 DEF NothingBehind, MartsNeverBehind
  <2>8. CASE Receive
    <3>1. outcome = "running" /\ UNCHANGED marts
      BY <2>8 DEF Receive, AttemptMatches
    <3>2. CASE RetryOrFail \/ ActivityFails
      BY <2>derives, <2>1, <2>2, <2>3, <2>5, <3>1, <3>2, Outcomes DEF NothingBehind, MartsNeverBehind
    <3>3. CASE reply = "ok" /\ Completes
      <4>1. CASE stage \in {"pre_go", "transforms"}
        <5>1. stage = "pre_go" => pre \in {0, run}
          BY <2>6, <2>8, <3>3 DEF Reporting, Pass, Receive
        <5>2. outcome' = "running"
          BY <3>1, <3>3, <4>1, Outcomes
        <5>3. QED
          BY <2>derives, <2>1, <2>2, <2>3, <2>5, <4>1, <5>1, <5>2 DEF NothingBehind, MartsNeverBehind
      <4>2. CASE stage = "post_go"
        <5>1. (\A t \in Transform : post[t] \in {0, run}) /\ stage' = "post_go"
          BY <2>6, <2>8, <3>3, <4>2, Outcomes DEF Reporting, Pass, Receive
        <5>2. QED
          BY <2>derives, <2>1, <2>2, <2>3, <2>5, <3>1, <4>2, <5>1 DEF NothingBehind, Derives, MartsNeverBehind, marts
      <4>3. QED
        BY <4>1, <4>2 DEF TypeOK
    <3>4. QED
      BY <2>8, <3>2, <3>3 DEF Receive
  <2>9. CASE Timeout
    <3>1. outcome = "running" /\ outcome' \in {outcome, "failed"} /\ stage' = stage
      BY <2>9, Outcomes DEF Timeout, AttemptMatches
    <3>2. QED
      BY <2>derives, <2>1, <2>2, <2>3, <2>5, <3>1 DEF NothingBehind, MartsNeverBehind
  <2>10. CASE Working
    <3>1. UNCHANGED <<run, outcome, stage>>
      BY <2>10, WorkingFrame DEF serverVars
    <3>2. outcome = "completed" =>
            /\ pre' \in {0, run}
            /\ \A t \in Transform : {derived'[t], post'[t]} \subseteq {0, run}
      <4>1. outcome = "completed" => stage = "post_go"
        BY DEF AttemptMatches
      <4>2. QED
        BY <2>derives, <2>1, <2>2, <2>4, <3>1, <4>1 DEF NothingBehind, Derives, MartsNeverBehind
    <3>3. QED
      BY <2>derives, <2>1, <2>2, <2>3, <2>5, <3>1, <3>2 DEF NothingBehind, MartsNeverBehind
  <2>11. QED
    BY <1>2, <2>7, <2>8, <2>9, <2>10, Cases
<1>3. QED
  BY <1>1, <1>2

-----------------------------------------------------------------------------
(* As long as no dbt process has outlived its attempt.                     *)

Quiet == \A b \in DOMAIN dbt : ~Running(b)

LEMMA WaitedFor ==
    ASSUME TypeOK, AttemptMatches, Alone
    PROVE  /\ step \notin {"dbt", "lost"} => Quiet
           /\ mine = 0 => Quiet
           /\ ~Running(mine) => Quiet
BY AProcess DEF Alone, Quiet, TypeOK

(* Killing the process of the attempt leaves nothing running, and only the *)
(* marts of the pass under way may suffer.                                 *)
LEMMA KillingMine ==
    ASSUME TypeOK, AttemptMatches, Alone, mine # 0, Running(mine), Killed(mine)
    PROVE  /\ Quiet' /\ DOMAIN dbt' = DOMAIN dbt
           /\ dbt'[mine].ok = "no" /\ dbt'[mine].pc = "exited"
           /\ \A b \in DOMAIN dbt : b # mine => dbt'[b] = dbt[b]
           /\ stage # "pre_go" => pre' = pre
           /\ derived' = derived
<1>1. mine \in DOMAIN dbt /\ dbt[mine].pass = stage
  BY DEF AttemptMatches
<1>2. stage \in Pass
  BY <1>1, AProcess DEF TypeOK, Process
<1>3. /\ DOMAIN dbt' = DOMAIN dbt
      /\ dbt'[mine] = [run |-> dbt[mine].run, pass |-> dbt[mine].pass, ok |-> "no", pc |-> "exited"]
      /\ \A b \in DOMAIN dbt : b # mine => dbt'[b] = dbt[b]
  BY <1>1, BecomesOne DEF TypeOK, Killed, Pc
<1>4. Quiet'
  BY <1>3 DEF Quiet, Running, Alone
<1>5. QED
  BY <1>1, <1>2, <1>3, <1>4, AbandonedMarts DEF Killed, Pass

LEMMA StillNone ==
    ASSUME [Next]_vars, NoneOrphaned'
    PROVE  NoneOrphaned /\ (Timeout => ~LeftBehind)
<1>1. CASE Timeout
  BY <1>1 DEF Timeout, NoneOrphaned
<1>2. CASE ~Timeout
  <2>1. orphaned' = orphaned
    BY <1>2 DEF Next, vars, StartRun, Start, BuildStart, BuildRefused, TransformStart, Receive, Lost,
       Shutdown, KillDbt, BuildStat, BuildParse, TransformRead, TransformWrite, TransformError,
       DbtStep, DbtOpens, DbtBuilds, DbtGivesUp, DbtTruncates, DbtRecords
  <2>2. QED
    BY <1>2, <2>1 DEF NoneOrphaned
<1>3. QED
  BY <1>1, <1>2

LEMMA AloneStep ==
    ASSUME NoneOrphaned', TypeOK, AttemptMatches, ProcessesMatch, NothingBehind, Alone, [Next]_vars
    PROVE  Alone'
<1> DEFINE FirstPass == /\ pre = run
                        /\ result["pre_go"] \in DOMAIN dbt
                        /\ dbt[result["pre_go"]] =
                             [run |-> run, pass |-> "pre_go", ok |-> "yes", pc |-> "exited"]
<1>1. stage # "pre_go" => FirstPass
  BY DEF Alone
<1>derives. Derives({run})'
  <2>1. CASE StartRun
    BY <2>1 DEF StartRun, AttemptMatches, workerVars, Derives
  <2>2. CASE ~StartRun
    <3>1. run' = run
      BY <2>2, Cases, Outcomes, WorkingFrame DEF Start, BuildStart, BuildRefused, TransformStart,
         Dispatched, Receive, Timeout, serverVars
    <3>2. step = "read" => stage = "transforms" /\ ~BeingRewritten
      BY WaitedFor DEF AttemptMatches, Quiet, Running, BeingRewritten
    <3>3. TransformRead => batch' \in {run}
      BY <1>1, <3>2 DEF TransformRead
    <3>4. QED
      BY <2>2, <3>1, <3>3, DerivesStep DEF Alone
  <2>3. QED
    BY <2>1, <2>2
<1>2. mine # 0 => mine \in DOMAIN dbt /\ dbt[mine].run = run /\ dbt[mine].pass = stage
                  /\ stage \in Pass /\ dbt[mine].ok \in {"yes", "no"}
  BY AProcess DEF AttemptMatches, TypeOK, Process
<1>3. CASE StartRun
  <2>1. step = "none" /\ mine = 0 /\ rr = 0 /\ Quiet
    BY <1>3, WaitedFor DEF StartRun, AttemptMatches, Alone
  <2>2. /\ stage' = "pre_go" /\ outcome' = "running"
        /\ UNCHANGED <<dbt, step, mine, rr>>
    BY <1>3 DEF StartRun, workerVars
  <2>3. QED
    BY <1>derives, <2>1, <2>2 DEF Alone, Quiet, Running, Reporting, ResultsAreOwn, GoodBuildReported, AllUpToDate
<1>4. CASE BuildStart
  <2>1. step = "none" /\ outcome = "running" /\ Quiet
    BY <1>4, WaitedFor DEF BuildStart, Dispatched
  <2>2. run \in 1 .. Runs
    BY <1>4, RunsAssumption, Versions DEF BuildStart, Dispatched, TypeOK, AttemptMatches, Version
  <2>3. [run |-> run, pass |-> stage, ok |-> "no", pc |-> "starting"] \in Process
    BY <1>4, <2>2 DEF BuildStart, Process
  <2>4. /\ DOMAIN dbt' = DOMAIN dbt \cup {mine'} /\ mine' # 0
        /\ dbt'[mine'] = [run |-> run, pass |-> stage, ok |-> "no", pc |-> "starting"]
        /\ \A b \in DOMAIN dbt : dbt'[b] = dbt[b]
    BY <1>4, <2>3, StartsOne DEF BuildStart, TypeOK
  <2>5. \A b \in DOMAIN dbt' : Running(b)' => b = mine'
    BY <2>1, <2>4 DEF Quiet, Running
  <2>6. /\ step' = "dbt" /\ outcome' = "running" /\ UNCHANGED <<run, stage, result, pre>>
        /\ file'.fresh = "no"
    BY <1>4, <2>1 DEF BuildStart, Dispatched, marts
  <2>7. QED
    BY <1>derives, <1>1, <2>4, <2>5, <2>6 DEF Alone, Rebuilt, Reporting, ResultsAreOwn, GoodBuildReported, AllUpToDate
<1>5. CASE BuildRefused \/ TransformStart
  <2>1. /\ step = "none" /\ mine = 0 /\ rr = 0 /\ outcome = "running"
    BY <1>5 DEF BuildRefused, TransformStart, Dispatched, AttemptMatches, Alone
  <2>2. Quiet
    BY <2>1, WaitedFor
  <2>3. /\ UNCHANGED <<run, outcome, stage, result, mine, rr, dbt, pre>>
        /\ step' = "read" \/ (step' = "answer" /\ reply' = "failed")
    BY <1>5 DEF BuildRefused, TransformStart, Dispatched, marts
  <2>4. QED
    BY <1>derives, <1>1, <2>1, <2>2, <2>3
       DEF Alone, Quiet, Running, Reporting, ResultsAreOwn, GoodBuildReported, AllUpToDate
<1>6. CASE Receive
  <2>1. /\ step' = "none" /\ mine' = 0 /\ rr' = 0 /\ outcome = "running"
        /\ UNCHANGED <<dbt, pre, derived, post>>
    BY <1>6, Outcomes DEF Receive, AttemptMatches, marts, AttemptOver
  <2>2. Quiet'
    BY <1>6, <2>1, WaitedFor DEF Receive, Quiet, Running
  <2>3. CASE RetryOrFail \/ ActivityFails
    BY <1>derives, <1>1, <2>1, <2>2, <2>3, Outcomes
       DEF Alone, Quiet, Reporting, ResultsAreOwn, GoodBuildReported, AllUpToDate
  <2>4. CASE reply = "ok" /\ Completes
    <3>1. ASSUME stage \in Pass
          PROVE  /\ rr = mine /\ mine \in DOMAIN dbt /\ Rebuilt(mine, stage)
                 /\ dbt[mine] = [run |-> run, pass |-> stage, ok |-> "yes", pc |-> "exited"]
      <4>1. Reporting /\ step = "answer"
        BY <1>6, <3>1 DEF Receive, Reporting
      <4>2. mine # 0 /\ dbt[mine].pc = "exited" /\ dbt[mine].ok = "yes"
        BY <2>4, <4>1 DEF AttemptMatches
      <4>3. dbt[mine] \in Process
        BY <1>2, <4>2, AProcess DEF TypeOK
      <4>4. QED
        BY <1>2, <2>4, <4>1, <4>2, <4>3 DEF Alone, Rebuilt, Process
    <3>2. CASE stage = "pre_go"
      <4>1. /\ run' = run /\ stage' = "transforms" /\ outcome' = "running"
            /\ result' = [result EXCEPT !["pre_go"] = rr]
        BY <2>1, <2>4, <3>2, Outcomes
      <4>2. result'["pre_go"] = mine
        BY <3>1, <3>2, <4>1 DEF TypeOK, Pass
      <4>3. pre = run
        BY <1>2, <3>1, <3>2, AProcess DEF Alone, Pass, TypeOK
      <4>4. QED
        BY <1>derives, <2>1, <2>2, <3>1, <3>2, <4>1, <4>2, <4>3
           DEF Alone, Quiet, Pass, Reporting, ResultsAreOwn, GoodBuildReported, AllUpToDate
    <3>3. CASE stage = "post_go"
      <4>1. /\ run' = run /\ stage' = "post_go" /\ outcome' = "completed"
            /\ result' = [result EXCEPT !["post_go"] = rr]
        BY <2>1, <2>4, <3>3, Outcomes
      <4>2. result'["post_go"] = mine /\ result'["pre_go"] = result["pre_go"]
        BY <3>1, <3>3, <4>1 DEF TypeOK, Pass
      <4>3. \A t \in Transform : post[t] = run /\ derived[t] = run
        BY <1>2, <3>1, <3>3, AProcess DEF Alone, Derives, Pass, TypeOK
      <4>4. QED
        BY <1>derives, <1>1, <2>1, <2>2, <3>1, <3>3, <4>1, <4>2, <4>3
           DEF Alone, Quiet, Pass, Reporting, ResultsAreOwn, GoodBuildReported, AllUpToDate
    <3>4. CASE stage = "transforms"
      BY <1>derives, <1>1, <2>1, <2>2, <2>4, <3>4, Outcomes
         DEF Alone, Quiet, Reporting, ResultsAreOwn, GoodBuildReported, AllUpToDate
    <3>5. QED
      BY <3>2, <3>3, <3>4 DEF TypeOK
  <2>5. QED
    BY <1>6, <2>3, <2>4 DEF Receive
<1>7. CASE Timeout
  <2>1. /\ step' = "none" /\ mine' = 0 /\ rr' = 0 /\ outcome = "running"
        /\ outcome' \in {outcome, "failed"} /\ UNCHANGED <<run, stage, result>>
    BY <1>7, Outcomes DEF Timeout, AttemptMatches, AttemptOver
  <2>2. CASE step = "dbt" /\ Running(mine)
    <3>1. mine # 0 /\ Killed(mine)
      BY <1>7, <2>2 DEF Timeout, AttemptMatches
    <3>2. \A b \in DOMAIN dbt : dbt[b].pc = "exited" => b # mine
      BY <2>2 DEF Running
    <3>3. QED
      BY <1>derives, <1>1, <2>1, <2>2, <3>1, <3>2, KillingMine
         DEF Alone, Quiet, Reporting, ResultsAreOwn, GoodBuildReported, AllUpToDate
  <2>3. CASE ~(step = "dbt" /\ Running(mine))
    <3>1. Quiet
      BY <1>2, <1>7, <2>3, StillNone, WaitedFor DEF LeftBehind
    <3>2. UNCHANGED <<dbt, pre>>
      BY <1>7, <2>3 DEF Timeout, marts
    <3>3. QED
      BY <1>derives, <1>1, <2>1, <3>1, <3>2
         DEF Alone, Quiet, Running, Reporting, ResultsAreOwn, GoodBuildReported, AllUpToDate
  <2>4. QED
    BY <2>2, <2>3
<1>8. CASE BuildStat
  <2>1. /\ mine # 0 /\ Quiet /\ stage \in Pass /\ outcome = "running"
        /\ dbt[mine].pc = "exited"
    BY <1>2, <1>8, WaitedFor, AProcess DEF BuildStat, AttemptMatches, Running, TypeOK, Process
  <2>2. UNCHANGED <<run, outcome, stage, result, mine, dbt, file, pre, post>>
    BY <1>8, WorkingFrame DEF Working, BuildStat, serverVars, marts
  <2>3. CASE FreshResults /\ step' = "parse"
    BY <1>derives, <2>1, <2>2, <2>3 DEF FreshResults, Alone, Quiet, Running, Rebuilt, Reporting, ResultsAreOwn,
       GoodBuildReported, AllUpToDate
  <2>4. CASE ~FreshResults /\ BuildFails(0)
    <3>1. dbt[mine].ok = "no"
      BY <1>2, <2>1, <2>4 DEF Alone, FreshResults
    <3>2. step' = "answer" /\ reply' # "ok" /\ rr' = 0
      BY <2>4 DEF BuildFails, Answers
    <3>3. QED
      BY <1>derives, <2>1, <2>2, <3>1, <3>2 DEF Alone, Quiet, Running, Rebuilt, Reporting, ResultsAreOwn,
         GoodBuildReported, AllUpToDate
  <2>5. QED
    BY <1>8, <2>3, <2>4 DEF BuildStat
<1>9. CASE BuildParse
  <2>1. /\ mine # 0 /\ Quiet /\ stage \in Pass /\ outcome = "running"
        /\ dbt[mine].pc = "exited" /\ file.by = mine
    BY <1>2, <1>9, WaitedFor DEF BuildParse, AttemptMatches, Alone
  <2>2. UNCHANGED <<run, outcome, stage, result, mine, dbt, file, pre, post>>
    BY <1>9, WorkingFrame DEF Working, BuildParse, serverVars, marts
  <2>3. step' = "answer" /\ rr' \in {0, mine} /\ (reply' = "ok" => rr' = mine)
    BY <1>9, <2>1 DEF BuildParse, BuildFails, Answers
  <2>4. reply' # "ok" => dbt[mine].ok = "no"
    BY <1>2, <1>9, <2>1 DEF BuildParse, BuildFails, Answers, Alone
  <2>5. QED
    BY <1>derives, <2>1, <2>2, <2>3, <2>4 DEF Alone, Quiet, Running, Rebuilt, Reporting, ResultsAreOwn,
       GoodBuildReported, AllUpToDate
<1>10. CASE TransformRead \/ TransformWrite \/ TransformError
  <2>1. /\ stage = "transforms" /\ outcome = "running" /\ step \in {"read", "write"}
        /\ step' \in {"write", "answer"}
    BY <1>10 DEF TransformRead, TransformWrite, TransformError, AttemptMatches
  <2>2. mine = 0 /\ Quiet
    BY <1>2, <2>1, WaitedFor DEF Pass
  <2>3. UNCHANGED <<run, outcome, stage, result, mine, dbt, pre>>
    BY <1>10, WorkingFrame DEF Working, TransformRead, TransformWrite, TransformError, serverVars, marts
  <2>4. QED
    BY <1>derives, <1>1, <2>1, <2>2, <2>3 DEF Alone, Quiet, Running, Reporting, Pass, ResultsAreOwn,
       GoodBuildReported, AllUpToDate
<1>11. CASE Lost
  <2>1. /\ step' = "lost" /\ step # "none" /\ outcome = "running"
        /\ UNCHANGED <<run, outcome, stage, result, mine, dbt, file, pre, post>>
    BY <1>11 DEF Lost, AttemptMatches, serverVars, marts
  <2>2. QED
    BY <1>derives, <1>1, <2>1 DEF Alone, Running, Rebuilt, Reporting, ResultsAreOwn, GoodBuildReported, AllUpToDate
<1>12. CASE Shutdown \/ UNCHANGED vars
  <2>1. UNCHANGED <<run, outcome, stage, result, step, mine, rr, reply, dbt, file, pre, derived, post>>
    BY <1>12 DEF Shutdown, vars, serverVars, workerVars, marts
  <2>2. QED
    BY <1>derives, <2>1 DEF Alone, Running, Rebuilt, Reporting, ResultsAreOwn, GoodBuildReported, AllUpToDate
<1>13. CASE KillDbt
  <2>1. /\ mine # 0 /\ step = "dbt" /\ outcome = "running" /\ Running(mine) /\ Killed(mine)
        /\ UNCHANGED <<run, outcome, stage, result, step, mine, rr, reply, file>>
    BY <1>13 DEF KillDbt, AttemptMatches, serverVars, workerVars
  <2>2. \A b \in DOMAIN dbt : dbt[b].pc = "exited" => b # mine
    BY <2>1 DEF Running
  <2>3. QED
    BY <1>derives, <1>1, <2>1, <2>2, KillingMine
       DEF Alone, Quiet, Rebuilt, Reporting, ResultsAreOwn, GoodBuildReported, AllUpToDate
<1>14. ASSUME NEW b \in DOMAIN dbt, DbtStep(b) PROVE Alone'
  <2>1. Running(b)
    BY <1>14 DEF DbtStep, DbtOpens, DbtBuilds, DbtGivesUp, DbtTruncates, DbtRecords, Running
  <2>2. /\ b = mine /\ mine # 0 /\ step \in {"dbt", "lost"} /\ outcome = "running"
        /\ dbt[b].run = run /\ dbt[b].pass = stage /\ stage \in Pass
    BY <1>2, <2>1, AProcess DEF Alone, AttemptMatches, TypeOK
  <2>3. UNCHANGED <<run, outcome, stage, result, step, mine, rr, reply>>
    BY <1>14 DEF DbtStep, DbtOpens, DbtBuilds, DbtGivesUp, DbtTruncates, DbtRecords, serverVars, workerVars
  <2>4. \A c \in DOMAIN dbt : c # mine => ~Running(c)
    BY DEF Alone
  <2>5. ASSUME NEW pc \in Pc, NEW ok \in {"yes", "no"}, Becomes(b, pc, ok)
        PROVE  /\ DOMAIN dbt' = DOMAIN dbt /\ Goes(b, pc, ok)
               /\ \A c \in DOMAIN dbt : c # mine => dbt'[c] = dbt[c]
    BY <2>2, <2>5, BecomesOne DEF TypeOK, Goes
  <2>6. ASSUME NEW pc \in Pc, NEW ok \in {"yes", "no"}, Becomes(b, pc, ok),
               stage # "pre_go" => pre' = pre,
               stage = "pre_go" /\ (pc = "building" \/ ok = "yes") => pre' = run,
               stage = "post_go" /\ (pc = "building" \/ ok = "yes") => \A t \in Transform : post'[t] = run,
               \/ file' = file /\ ~(pc = "exited" /\ ok = "yes")
               \/ \E whole \in {"no", "yes"} :
                    Writes(b, whole) /\ (pc = "exited" => whole = "yes")
        PROVE  Alone'
    <3>1. /\ DOMAIN dbt' = DOMAIN dbt /\ Goes(b, pc, ok)
          /\ \A c \in DOMAIN dbt : c # mine => dbt'[c] = dbt[c]
      BY <2>5, <2>6
    <3>2. \A c \in DOMAIN dbt' : Running(c)' => c = mine' /\ step' \in {"dbt", "lost"}
      BY <2>2, <2>3, <2>4, <3>1 DEF Running
    <3>3. stage # "pre_go" => /\ pre' = run
                              /\ result["pre_go"] \in DOMAIN dbt'
                              /\ dbt'[result["pre_go"]] =
                                   [run |-> run, pass |-> "pre_go", ok |-> "yes", pc |-> "exited"]
      BY <1>1, <2>1, <2>2, <2>6, <3>1 DEF Running
    <3>4. /\ file'.fresh = "yes" => file'.by = mine
          /\ pc = "exited" /\ ok = "yes" => file' = [by |-> mine, whole |-> "yes", fresh |-> "yes"]
      BY <2>2, <2>6 DEF Writes, Alone
    <3>5. QED
      BY <1>derives, <2>2, <2>3, <2>6, <3>1, <3>2, <3>3, <3>4
         DEF Alone, Goes, Rebuilt, Reporting, ResultsAreOwn, GoodBuildReported, AllUpToDate
  <2>7. ASSUME Abandons(b) PROVE stage # "pre_go" => pre' = pre
    BY <2>2, <2>7, AbandonedMarts DEF Pass
  <2>8. CASE DbtOpens(b)
    BY <2>2, <2>6, <2>8 DEF DbtOpens, Pc, Alone, Derives
  <2>9. CASE DbtBuilds(b)
    <3>1. CASE Becomes(b, "recording", "yes") /\ UNCHANGED marts
      <4>1. /\ stage = "pre_go" => pre = run
            /\ stage = "post_go" => \A t \in Transform : post[t] = run
        BY <2>2, <2>9 DEF DbtBuilds, Alone, Rebuilt
      <4>2. QED
        BY <2>6, <2>9, <3>1, <4>1 DEF DbtBuilds, Pc, marts
    <3>2. CASE Becomes(b, "recording", "no") /\ Abandons(b)
      BY <2>6, <2>7, <2>9, <3>2 DEF DbtBuilds, Pc
    <3>3. QED
      BY <2>9, <3>1, <3>2 DEF DbtBuilds
  <2>10. CASE DbtGivesUp(b)
    BY <2>6, <2>7, <2>10 DEF DbtGivesUp, Pc
  <2>11. ASSUME UNCHANGED marts
         PROVE  /\ stage = "pre_go" /\ dbt[b].ok = "yes" => pre' = run
                /\ stage = "post_go" /\ dbt[b].ok = "yes" => \A t \in Transform : post'[t] = run
                /\ pre' = pre
    BY <2>2, <2>11 DEF Alone, Rebuilt, marts
  <2>12. dbt[b].ok \in {"yes", "no"}
    BY <1>2, <2>2
  <2>13. CASE DbtTruncates(b)
    BY <2>6, <2>11, <2>12, <2>13 DEF DbtTruncates, Pc
  <2>14. CASE DbtRecords(b)
    BY <2>6, <2>11, <2>12, <2>14 DEF DbtRecords, Pc
  <2>15. QED
    BY <1>14, <2>8, <2>9, <2>10, <2>13, <2>14 DEF DbtStep
<1>15. QED
  BY <1>3, <1>4, <1>5, <1>6, <1>7, <1>8, <1>9, <1>10, <1>11, <1>12, <1>13, <1>14, Cases DEF Working, Start

-----------------------------------------------------------------------------
(* The theorems.                                                           *)

LEMMA InitOK == Init => IInv
<1> SUFFICES ASSUME Init PROVE IInv
  OBVIOUS
<1>1. dbt = <<>> /\ dbt \in Seq(Process) /\ DOMAIN dbt = {}
  BY EmptySeq, LenProperties DEF Init
<1>2. 1 \in Transform
  BY TransformsAssumption DEF Transform
<1>3. TypeOK
  BY <1>1, <1>2, Versions DEF Init, TypeOK, File
<1>4. AttemptMatches /\ ProcessesMatch
  BY <1>1 DEF Init, AttemptMatches, ProcessesMatch, Reporting
<1>5. NothingBehind
  BY <1>1 DEF Init, NothingBehind, Derives, MartsNeverBehind
<1>6. Alone
  BY <1>1 DEF Init, Alone, Derives, Reporting, ResultsAreOwn, GoodBuildReported, AllUpToDate
<1>7. QED
  BY <1>3, <1>4, <1>5, <1>6 DEF IInv

(* The inductive invariant: attempts, processes, files and marts agree.    *)
THEOREM Invariant == Spec => []IInv
<1>1. IInv /\ [Next]_vars => IInv'
  <2> SUFFICES ASSUME IInv, [Next]_vars PROVE IInv'
    OBVIOUS
  <2>1. TypeOK' /\ AttemptMatches' /\ ProcessesMatch' /\ NothingBehind'
    BY TypeStep, AttemptMatchesStep, ProcessesMatchStep, NothingBehindStep DEF IInv
  <2>2. NoneOrphaned' => Alone'
    BY AloneStep, StillNone DEF IInv
  <2>3. QED
    BY <2>1, <2>2 DEF IInv
<1>2. QED
  BY InitOK, <1>1, PTL DEF Spec

(* Once a run has completed, no mart and no derived file shows bronze      *)
(* older than the run's, even if dbt processes given up on still build.    *)
(* (What these damage may show nothing at all.)                            *)
THEOREM MartsAreNeverBehind == Spec => []MartsNeverBehind
<1>1. IInv => MartsNeverBehind
  BY DEF IInv, NothingBehind
<1>2. QED
  BY Invariant, <1>1, PTL

(* As long as no dbt process has outlived its attempt, what DbtBuild       *)
(* reports are the nodes of its own process, although all processes share  *)
(* one file.                                                               *)
THEOREM ResultsAreAlwaysOwn == Spec => []OwnResultsReported
<1>1. IInv => OwnResultsReported
  BY DEF IInv, Alone, OwnResultsReported
<1>2. QED
  BY Invariant, <1>1, PTL

(* As long, a build that succeeded is never reported as a failure.         *)
THEOREM GoodBuildsAreReported == Spec => []GoodBuildIsReported
<1>1. IInv => GoodBuildIsReported
  BY DEF IInv, Alone, GoodBuildIsReported
<1>2. QED
  BY Invariant, <1>1, PTL

(* As long, a completed run leaves everything showing its bronze.          *)
THEOREM MartsAreUpToDate == Spec => []MartsUpToDate
<1>1. IInv => MartsUpToDate
  BY DEF IInv, Alone, MartsUpToDate
<1>2. QED
  BY Invariant, <1>1, PTL

(* As long, derived files are replaced only over the marts of this run,    *)
(* and post_go marts only over the derived files of this run.              *)
THEOREM AlwaysInOrder == Spec => InOrder
<1> DEFINE Ordered == /\ derived' # derived => pre = run
                      /\ post' # post => \A t \in Transform : derived[t] = run
<1>1. IInv /\ [Next]_vars => (NoneOrphaned' => Ordered)
  <2> SUFFICES ASSUME IInv, [Next]_vars, NoneOrphaned' PROVE Ordered
    OBVIOUS
  <2>1. TypeOK /\ AttemptMatches /\ NothingBehind /\ Alone
    BY StillNone DEF IInv
  <2>2. CASE TransformWrite
    BY <2>1, <2>2 DEF TransformWrite, AttemptMatches, Alone
  <2>3. CASE ~TransformWrite /\ stage = "post_go"
    BY <2>1, <2>3, Changes DEF Alone, Derives
  <2>4. CASE ~TransformWrite /\ stage # "post_go"
    <3>1. derived' = derived
      BY <2>1, <2>4, Changes
    <3>2. ASSUME NEW b \in DOMAIN dbt, Running(b) PROVE b = mine /\ dbt[b].pass = "pre_go"
      BY <2>1, <2>4, <3>2, AProcess DEF Alone, AttemptMatches, TypeOK, Process, Pass
    <3>3. ASSUME NEW b \in DOMAIN dbt, Running(b), Abandons(b) PROVE post' = post
      BY <2>1, <3>2, <3>3, AbandonedMarts
    <3>4. ASSUME NEW b \in DOMAIN dbt, DbtStep(b) PROVE post' = post
      BY <3>2, <3>3, <3>4 DEF DbtStep, DbtOpens, DbtBuilds, DbtGivesUp, DbtTruncates, DbtRecords,
         Running, marts
    <3>5. step = "dbt" /\ Running(mine) /\ Killed(mine) => post' = post
      BY <2>1, <3>3 DEF Killed, AttemptMatches
    <3>6. post' = post
      BY <2>4, <3>4, <3>5 DEF Next, Start, StartRun, BuildStart, BuildRefused, TransformStart, Receive,
         Timeout, Lost, Shutdown, KillDbt, BuildStat, BuildParse, TransformRead, TransformError,
         vars, marts
    <3>7. QED
      BY <3>1, <3>6
  <2>5. QED
    BY <2>2, <2>3, <2>4
<1>2. QED
  BY Invariant, <1>1, PTL DEF Spec, InOrder
=============================================================================
