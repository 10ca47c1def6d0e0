---------------------- MODULE MaterialiseSource_proofs ----------------------
(***************************************************************************)
(* Proofs about MaterialiseSource, for any grains, window lengths, delays  *)
(* and lookbacks. The argument for NoGap: a window whose rows were all     *)
(* committed before the last successful ingestion started either is in     *)
(* that run's lookback, and then its file was read after that, or has      *)
(* slipped out of it, and then the run before left it complete, for the    *)
(* chain has no gap.                                                       *)
(***************************************************************************)
EXTENDS MaterialiseSource, TLAPS

(* Windows are numbered by integers: an instant less a delay may lie       *)
(* before the epoch.                                                       *)
LEMMA ContainingType ==
    ASSUME NEW g \in Grain, NEW t \in Int
    PROVE  /\ Containing(t, g) \in Int
           /\ t \in Nat => Containing(t, g) \in Nat
<1>1. Duration[g] \in Nat \ {0}
  BY DurationAssumption
<1>2. QED
  BY <1>1 DEF Containing

(* A later instant lies in the same window or a later one.                 *)
LEMMA ContainingMonotone ==
    ASSUME NEW g \in Grain, NEW t \in Int, NEW u \in Int, t <= u
    PROVE  Containing(t, g) <= Containing(u, g)
<1>1. Duration[g] \in Nat \ {0}
  BY DurationAssumption
<1>2. QED
  BY <1>1 DEF Containing

LEMMA WindowType == ASSUME NEW g \in Grain PROVE Window(g) \subseteq Nat
<1>1. MaxNow \in Nat
  BY MaxNowAssumption
<1>2. QED
  BY <1>1, ContainingType DEF Window

(* What is final at t is final from then on, and its window closed by t.   *)
LEMMA FinalMonotone ==
    ASSUME NEW g \in Grain, NEW k \in Window(g), NEW t \in Nat, NEW u \in Nat, t <= u, Final(t, g, k)
    PROVE  Final(u, g, k) /\ k < Containing(t, g)
<1>1. Delay[g] \in Nat
  BY DelayAssumption
<1>2. /\ t - Delay[g] \in Int /\ u - Delay[g] \in Int
      /\ t - Delay[g] <= u - Delay[g] /\ t - Delay[g] <= t
  BY <1>1
<1>3. /\ Containing(t - Delay[g], g) <= Containing(u - Delay[g], g)
      /\ Containing(t - Delay[g], g) <= Containing(t, g)
  BY <1>2, ContainingMonotone
<1>4. /\ Containing(t - Delay[g], g) \in Int /\ Containing(u - Delay[g], g) \in Int
      /\ Containing(t, g) \in Int
  BY <1>2, ContainingType
<1>5. k \in Nat
  BY WindowType
<1>6. QED
  BY <1>3, <1>4, <1>5 DEF Final

(* A value put at one window leaves the others, and their type, alone.     *)
LEMMA UpdateType ==
    ASSUME NEW S, NEW f, DOMAIN f = Grain, \A h \in Grain : f[h] \in [Window(h) -> S],
           NEW g \in Grain, NEW k \in Window(g), NEW v \in S, NEW f2,
           f2 = [f EXCEPT ![g][k] = v]
    PROVE  /\ DOMAIN f2 = Grain
           /\ \A h \in Grain : f2[h] \in [Window(h) -> S]
           /\ \A h \in Grain : \A j \in Window(h) :
                f2[h][j] = IF h = g /\ j = k THEN v ELSE f[h][j]
OBVIOUS

LEMMA OverType ==
    ASSUME NEW S, NEW v \in S, NEW f, f = [g \in Grain |-> Over(g, v)]
    PROVE  /\ DOMAIN f = Grain
           /\ \A h \in Grain : f[h] \in [Window(h) -> S]
           /\ \A h \in Grain : \A j \in Window(h) : f[h][j] = v
BY DEF Over

Child == {"none", "started", "fetched", "ok", "failed"}

LEMMA TypeStep == TypeOK /\ [Next]_vars => TypeOK'
<1> SUFFICES ASSUME TypeOK, [Next]_vars PROVE TypeOK'
  OBVIOUS
<1> USE DEF Child
<1>0. 0 \in Instant /\ \A t \in Instant : t \in Nat
  BY MaxNowAssumption DEF Instant
<1>1. CASE UNCHANGED vars
  BY <1>1 DEF vars, TypeOK
<1>2. CASE Tick
  <2>1. now + 1 \in Instant
    BY <1>2, MaxNowAssumption DEF Tick, TypeOK, Instant
  <2>2. QED
    BY <1>2, <2>1 DEF Tick, TypeOK
<1>3. CASE StartRun
  <2>1. DOMAIN child' = Grain /\ \A g \in Grain : child'[g] \in [Window(g) -> Child]
    BY <1>3 DEF StartRun
  <2>2. QED
    BY <1>3, <2>1 DEF StartRun, TypeOK
<1>4. ASSUME NEW g \in Grain, NEW k \in Window(g), NEW s \in Child, NEW at \in Instant, ChildBecomes(g, k, s, at)
      PROVE  /\ DOMAIN child' = Grain /\ \A h \in Grain : child'[h] \in [Window(h) -> Child]
             /\ DOMAIN fetched' = Grain /\ \A h \in Grain : fetched'[h] \in [Window(h) -> Instant]
  BY <1>4, UpdateType DEF ChildBecomes, TypeOK
<1>5. ASSUME NEW g \in Grain, NEW k \in Window(g), NEW at \in Instant, NEW o \in {"run", "other"}, Replace(g, k, at, o)
      PROVE  /\ DOMAIN bronze' = Grain /\ \A h \in Grain : bronze'[h] \in [Window(h) -> Instant]
             /\ DOMAIN writer' = Grain /\ \A h \in Grain : writer'[h] \in [Window(h) -> {"run", "other"}]
  BY <1>5, UpdateType DEF Replace, TypeOK
<1>6. ASSUME NEW g \in Grain, NEW k \in Window(g), NEW at \in Instant, late' = [late EXCEPT ![g][k] = at]
      PROVE  DOMAIN late' = Grain /\ \A h \in Grain : late'[h] \in [Window(h) -> Instant]
  BY <1>6, UpdateType DEF TypeOK
<1>7. ASSUME NEW g \in Grain, NEW k \in Window(g)
      PROVE  /\ fetched[g][k] \in Instant /\ late[g][k] \in Instant /\ now \in Instant
  BY DEF TypeOK
<1>8. ASSUME NEW g \in Grain, NEW k \in Window(g), ChildFetch(g, k) PROVE TypeOK'
  BY <1>4, <1>7, <1>8 DEF ChildFetch, TypeOK
<1>9. ASSUME NEW g \in Grain, NEW k \in Window(g), ChildWrite(g, k) PROVE TypeOK'
  BY <1>0, <1>4, <1>5, <1>7, <1>9 DEF ChildWrite, TypeOK
<1>10. ASSUME NEW g \in Grain, NEW k \in Window(g), ChildFail(g, k) PROVE TypeOK'
  <2>1. /\ DOMAIN child' = Grain /\ \A h \in Grain : child'[h] \in [Window(h) -> Child]
        /\ DOMAIN fetched' = Grain /\ \A h \in Grain : fetched'[h] \in [Window(h) -> Instant]
    BY <1>0, <1>4, <1>10 DEF ChildFail
  <2>2. CASE UNCHANGED <<bronze, writer, late>>
    BY <1>10, <2>1, <2>2 DEF ChildFail, TypeOK
  <2>3. CASE Replace(g, k, fetched[g][k], "run") /\ UNCHANGED late
    BY <1>5, <1>7, <1>10, <2>1, <2>3 DEF ChildFail, TypeOK
  <2>4. CASE late' = [late EXCEPT ![g][k] = fetched[g][k]] /\ UNCHANGED <<bronze, writer>>
    BY <1>6, <1>7, <1>10, <2>1, <2>4 DEF ChildFail, TypeOK
  <2>5. QED
    BY <1>10, <2>2, <2>3, <2>4 DEF ChildFail
<1>11. ASSUME NEW g \in Grain, NEW k \in Window(g), IngestFetch(g, k) PROVE TypeOK'
  BY <1>6, <1>7, <1>11 DEF IngestFetch, TypeOK
<1>12. ASSUME NEW g \in Grain, NEW k \in Window(g), LateWrite(g, k) PROVE TypeOK'
  BY <1>0, <1>5, <1>6, <1>7, <1>12 DEF LateWrite, TypeOK
<1>13. ASSUME Forget
       PROVE  /\ DOMAIN child' = Grain /\ \A h \in Grain : child'[h] \in [Window(h) -> Child]
              /\ DOMAIN fetched' = Grain /\ \A h \in Grain : fetched'[h] \in [Window(h) -> Instant]
  BY <1>0, <1>13, OverType DEF Forget
<1>14. CASE IngestDone
  BY <1>13, <1>14 DEF IngestDone, Extend, TypeOK
<1>15. CASE IngestFailed
  BY <1>13, <1>15 DEF IngestFailed, TypeOK
<1>16. CASE MartsReturn
  BY <1>16 DEF MartsReturn, TypeOK
<1>17. QED
  BY <1>1, <1>2, <1>3, <1>8, <1>9, <1>10, <1>11, <1>12, <1>14, <1>15, <1>16 DEF Next, ChildStep

-----------------------------------------------------------------------------
(* What a step does to one window.                                         *)

Kept(g, k) == /\ bronze'[g][k] = bronze[g][k]
              /\ writer'[g][k] = writer[g][k]

Written(g, k) == /\ child[g][k] = "fetched"
                 /\ bronze'[g][k] = fetched[g][k]
                 /\ writer'[g][k] = "run"

WindowChange(g, k) ==
    \/ /\ child'[g][k] = child[g][k] /\ fetched'[g][k] = fetched[g][k]
       /\ Kept(g, k)
       /\ late'[g][k] = late[g][k] \/ g \in Overlap
    \/ /\ child[g][k] = "started" /\ child'[g][k] = "fetched" /\ fetched'[g][k] = now
       /\ Kept(g, k) /\ late'[g][k] = late[g][k]
    \/ /\ child'[g][k] = "ok"
       /\ Written(g, k) /\ late'[g][k] = late[g][k]
    \/ /\ child[g][k] \in {"started", "fetched"} /\ child'[g][k] = "failed"
       /\ Kept(g, k) \/ Written(g, k)
       /\ late'[g][k] = late[g][k] \/ g \in Overlap
    \/ /\ child'[g][k] = child[g][k] /\ fetched'[g][k] = fetched[g][k]
       /\ late[g][k] # 0 /\ late'[g][k] = 0
       /\ bronze'[g][k] = late[g][k] /\ writer'[g][k] = "other"

Elsewhere(g, k) ==
    \A h \in Grain : \A j \in Window(h) : (h # g \/ j # k) =>
        /\ child'[h][j] = child[h][j] /\ fetched'[h][j] = fetched[h][j]
        /\ Kept(h, j) /\ late'[h][j] = late[h][j]

LEMMA WindowChanges ==
    ASSUME TypeOK, [Next]_vars
    PROVE  \/ StartRun \/ IngestDone \/ IngestFailed
           \/ /\ UNCHANGED <<start, chain>>
              /\ now <= now'
              /\ phase' = phase \/ (phase = "marts" /\ phase' = "idle")
              /\ \A g \in Grain : \A k \in Window(g) : WindowChange(g, k)
<1> DEFINE Moves == /\ UNCHANGED <<start, chain>>
                    /\ now <= now'
                    /\ phase' = phase \/ (phase = "marts" /\ phase' = "idle")
                    /\ \A g \in Grain : \A k \in Window(g) : WindowChange(g, k)
<1>0. now \in Nat
  BY MaxNowAssumption DEF TypeOK, Instant
<1>1. ASSUME UNCHANGED <<child, fetched, bronze, writer, late>>
      PROVE  \A g \in Grain : \A k \in Window(g) : WindowChange(g, k)
  BY <1>1 DEF WindowChange, Kept
<1>2. ASSUME NEW g \in Grain, NEW k \in Window(g), NEW s, NEW at, ChildBecomes(g, k, s, at)
      PROVE  /\ child'[g][k] = s /\ fetched'[g][k] = at
             /\ \A h \in Grain : \A j \in Window(h) : (h # g \/ j # k) =>
                  child'[h][j] = child[h][j] /\ fetched'[h][j] = fetched[h][j]
  BY <1>2 DEF ChildBecomes, TypeOK
<1>3. ASSUME NEW g \in Grain, NEW k \in Window(g), NEW at, NEW o, Replace(g, k, at, o)
      PROVE  \A h \in Grain : \A j \in Window(h) : (h # g \/ j # k) => Kept(h, j)
  BY <1>3 DEF Replace, TypeOK, Kept
<1>3a. ASSUME NEW g \in Grain, NEW k \in Window(g), NEW at, Replace(g, k, at, "run")
       PROVE  bronze'[g][k] = at /\ writer'[g][k] = "run"
  BY <1>3a DEF Replace, TypeOK
<1>3b. ASSUME NEW g \in Grain, NEW k \in Window(g), NEW at, Replace(g, k, at, "other")
       PROVE  bronze'[g][k] = at /\ writer'[g][k] = "other"
  BY <1>3b DEF Replace, TypeOK
<1>4. ASSUME NEW g \in Grain, NEW k \in Window(g), NEW at, late' = [late EXCEPT ![g][k] = at]
      PROVE  /\ late'[g][k] = at
             /\ \A h \in Grain : \A j \in Window(h) : (h # g \/ j # k) => late'[h][j] = late[h][j]
  BY <1>4 DEF TypeOK
<1>5. ASSUME NEW g \in Grain, NEW k \in Window(g), WindowChange(g, k), Elsewhere(g, k),
             UNCHANGED <<now, phase, start, chain>>
      PROVE  Moves
  <2>1. \A h \in Grain : \A j \in Window(h) : WindowChange(h, j)
    BY <1>5 DEF WindowChange, Elsewhere
  <2>2. QED
    BY <1>0, <1>5, <2>1
<1>6. ASSUME NEW g \in Grain, NEW k \in Window(g), ChildFetch(g, k) PROVE Moves
  <2>1. ChildBecomes(g, k, "fetched", now) /\ child[g][k] = "started"
    BY <1>6 DEF ChildFetch
  <2>2. UNCHANGED <<now, phase, start, bronze, late, writer, chain>>
    BY <1>6 DEF ChildFetch
  <2>3. WindowChange(g, k) /\ Elsewhere(g, k)
    BY <1>2, <2>1, <2>2 DEF WindowChange, Elsewhere, Kept
  <2>4. QED
    BY <1>5, <2>2, <2>3
<1>7. ASSUME NEW g \in Grain, NEW k \in Window(g), ChildWrite(g, k) PROVE Moves
  <2>1. ChildBecomes(g, k, "ok", 0) /\ Replace(g, k, fetched[g][k], "run") /\ child[g][k] = "fetched"
    BY <1>7 DEF ChildWrite
  <2>2. UNCHANGED <<now, phase, start, late, chain>>
    BY <1>7 DEF ChildWrite
  <2>3. child'[g][k] = "ok" /\ Written(g, k)
    BY <1>2, <1>3a, <2>1 DEF Written
  <2>4. WindowChange(g, k) /\ Elsewhere(g, k)
    <3>1. WindowChange(g, k)
      BY <2>2, <2>3 DEF WindowChange
    <3>2. \A h \in Grain : \A j \in Window(h) : (h # g \/ j # k) => Kept(h, j)
      BY <1>3, <2>1
    <3>3. Elsewhere(g, k)
      BY <1>2, <2>1, <2>2, <3>2 DEF Elsewhere
    <3>4. QED
      BY <3>1, <3>3
  <2>5. QED
    BY <1>5, <2>2, <2>4
<1>8. ASSUME NEW g \in Grain, NEW k \in Window(g), ChildFail(g, k) PROVE Moves
  <2>1. ChildBecomes(g, k, "failed", 0) /\ child[g][k] \in {"started", "fetched"}
    BY <1>8 DEF ChildFail
  <2>2. UNCHANGED <<now, phase, start, chain>>
    BY <1>8 DEF ChildFail
  <2>3. child'[g][k] = "failed"
    BY <1>2, <2>1
  <2>4. CASE UNCHANGED <<bronze, writer, late>>
    <3>1. WindowChange(g, k) /\ Elsewhere(g, k)
      BY <1>2, <2>1, <2>3, <2>4 DEF WindowChange, Elsewhere, Kept
    <3>2. QED
      BY <1>5, <2>2, <3>1
  <2>5. CASE child[g][k] = "fetched" /\ Replace(g, k, fetched[g][k], "run") /\ UNCHANGED late
    <3>1. Written(g, k)
      BY <1>3a, <2>5 DEF Written
    <3>2. WindowChange(g, k)
      BY <2>1, <2>3, <2>5, <3>1 DEF WindowChange
    <3>3. \A h \in Grain : \A j \in Window(h) : (h # g \/ j # k) => Kept(h, j)
      BY <1>3, <2>5
    <3>4. Elsewhere(g, k)
      BY <1>2, <2>1, <2>5, <3>3 DEF Elsewhere
    <3>5. QED
      BY <1>5, <2>2, <3>2, <3>4
  <2>6. CASE g \in Overlap /\ late' = [late EXCEPT ![g][k] = fetched[g][k]] /\ UNCHANGED <<bronze, writer>>
    <3>1. WindowChange(g, k) /\ Elsewhere(g, k)
      BY <1>2, <1>4, <2>1, <2>3, <2>6 DEF WindowChange, Elsewhere, Kept
    <3>2. QED
      BY <1>5, <2>2, <3>1
  <2>7. QED
    BY <1>8, <2>4, <2>5, <2>6 DEF ChildFail
<1>9. ASSUME NEW g \in Grain, NEW k \in Window(g), IngestFetch(g, k) PROVE Moves
  <2>1. WindowChange(g, k) /\ Elsewhere(g, k)
    BY <1>4, <1>9 DEF IngestFetch, WindowChange, Elsewhere, Kept
  <2>2. UNCHANGED <<now, phase, start, chain>>
    BY <1>9 DEF IngestFetch
  <2>3. QED
    BY <1>5, <2>1, <2>2
<1>10. ASSUME NEW g \in Grain, NEW k \in Window(g), LateWrite(g, k) PROVE Moves
  <2>1. /\ late[g][k] # 0 /\ Replace(g, k, late[g][k], "other")
        /\ late' = [late EXCEPT ![g][k] = 0]
        /\ UNCHANGED <<now, phase, start, child, fetched, chain>>
    BY <1>10 DEF LateWrite
  <2>2. /\ bronze'[g][k] = late[g][k] /\ writer'[g][k] = "other"
        /\ late'[g][k] = 0
    <3>1. bronze'[g][k] = late[g][k] /\ writer'[g][k] = "other"
      BY <1>3b, <2>1
    <3>2. late'[g][k] = 0
      BY <2>1 DEF TypeOK
    <3>3. QED
      BY <3>1, <3>2
  <2>3. WindowChange(g, k)
    BY <2>1, <2>2 DEF WindowChange
  <2>4. \A h \in Grain : \A j \in Window(h) : (h # g \/ j # k) => Kept(h, j)
    BY <1>3, <2>1
  <2>5. Elsewhere(g, k)
    BY <1>4, <2>1, <2>4 DEF Elsewhere
  <2>6. QED
    BY <1>5, <2>1, <2>3, <2>5
<1>11. CASE UNCHANGED vars
  BY <1>0, <1>1, <1>11 DEF vars
<1>12. CASE Tick
  BY <1>0, <1>1, <1>12 DEF Tick
<1>13. CASE MartsReturn
  BY <1>0, <1>1, <1>13 DEF MartsReturn
<1>14. QED
  BY <1>6, <1>7, <1>8, <1>9, <1>10, <1>11, <1>12, <1>13 DEF Next, ChildStep

-----------------------------------------------------------------------------
(* The parts of the invariant, step by step.                               *)

LEMMA Numbers ==
    ASSUME TypeOK
    PROVE  /\ now \in Nat /\ start \in Nat /\ chain.first \in Nat /\ chain.last \in Nat
           /\ \A g \in Grain : \A k \in Window(g) :
                k \in Nat /\ fetched[g][k] \in Nat /\ bronze[g][k] \in Nat /\ late[g][k] \in Nat
<1>1. \A t \in Instant : t \in Nat
  BY MaxNowAssumption DEF Instant
<1>2. QED
  BY <1>1, WindowType DEF TypeOK

(* The windows run: from the start's and back, Lookback[g] of them.        *)
LEMMA InLookback ==
    ASSUME NEW g \in Grain, NEW k \in Window(g), NEW t
    PROVE  k \in LookbackWindows(t, g) <=> Containing(t, g) - Lookback[g] < k /\ k <= Containing(t, g)
BY DEF LookbackWindows

(* What StartRun leaves each window with.                                  *)
LEMMA Started ==
    ASSUME TypeOK, StartRun
    PROVE  /\ start' = now /\ now' = now /\ phase = "idle" /\ phase' = "ingest"
           /\ UNCHANGED <<bronze, late, writer, chain>>
           /\ \A g \in Grain : \A k \in Window(g) :
                child'[g][k] = IF k \in LookbackWindows(now, g) THEN "started" ELSE "none"
BY DEF StartRun

(* What the end of an ingestion leaves each window with.                   *)
LEMMA Forgotten ==
    ASSUME IngestDone \/ IngestFailed
    PROVE  /\ phase = "ingest" /\ phase' \in {"marts", "idle"}
           /\ UNCHANGED <<now, start, bronze, late, writer>>
           /\ \A g \in Grain : \A k \in Window(g) : child'[g][k] = "none"
BY DEF IngestDone, IngestFailed, Forget, Over

(* Once every child has succeeded, what the run looks back to was read     *)
(* since it started.                                                       *)
LEMMA AllWritten ==
    ASSUME IInv, IngestDone, NEW g \in Grain, NEW k \in LookbackWindows(start, g)
    PROVE  bronze[g][k] >= start \/ writer[g][k] = "other"
<1>1. k \in Window(g)
  BY DEF LookbackWindows
<1>2. child[g][k] = "ok"
  BY <1>1 DEF IngestDone, AllChildren, IInv, ChildrenOfRun
<1>3. bronze[g][k] \in Nat /\ start \in Nat
  BY <1>1, Numbers DEF IInv
<1>4. QED
  BY <1>1, <1>2, <1>3 DEF IInv, ReadInRun

LEMMA InOrderStep == IInv /\ [Next]_vars /\ TypeOK' => InOrder'
<1> SUFFICES ASSUME IInv, [Next]_vars, TypeOK' PROVE InOrder'
  OBVIOUS
<1> USE DEF InOrder
<1>1. now \in Nat /\ start \in Nat /\ chain.first \in Nat /\ chain.last \in Nat /\ now' \in Nat
  <2>1. now' \in Nat
    BY MaxNowAssumption DEF TypeOK, Instant
  <2>2. QED
    BY <2>1, Numbers DEF IInv
<1>2. CASE StartRun
  BY <1>1, <1>2, Started DEF IInv
<1>3. CASE IngestDone
  BY <1>1, <1>3 DEF IInv, IngestDone, Extend
<1>4. CASE IngestFailed
  BY <1>4 DEF IInv, IngestFailed
<1>5. CASE UNCHANGED <<start, chain>> /\ now <= now'
  BY <1>1, <1>5 DEF IInv
<1>6. QED
  BY <1>2, <1>3, <1>4, <1>5, WindowChanges DEF IInv

LEMMA ChildrenOfRunStep == IInv /\ [Next]_vars => ChildrenOfRun'
<1> SUFFICES ASSUME IInv, [Next]_vars PROVE ChildrenOfRun'
  OBVIOUS
<1>1. CASE StartRun
  <2>1. \A g \in Grain : LookbackWindows(start, g)' = LookbackWindows(now, g)
    BY <1>1, Started DEF IInv, LookbackWindows, Containing, Window
  <2>2. QED
    BY <1>1, <2>1, Started DEF IInv, ChildrenOfRun, Window
<1>2. CASE IngestDone \/ IngestFailed
  BY <1>2, Forgotten DEF ChildrenOfRun
<1>3. CASE /\ UNCHANGED <<start, chain>>
           /\ phase' = phase \/ (phase = "marts" /\ phase' = "idle")
           /\ \A g \in Grain : \A k \in Window(g) : WindowChange(g, k)
  BY <1>3 DEF IInv, ChildrenOfRun, WindowChange, Written, LookbackWindows, Containing
<1>4. QED
  BY <1>1, <1>2, <1>3, WindowChanges DEF IInv

LEMMA ReadInRunStep == IInv /\ [Next]_vars /\ TypeOK' => ReadInRun'
<1> SUFFICES ASSUME IInv, [Next]_vars, TypeOK' PROVE ReadInRun'
  OBVIOUS
<1>1. CASE StartRun
  BY <1>1, Started DEF IInv, ReadInRun
<1>2. CASE IngestDone \/ IngestFailed
  BY <1>2, Forgotten DEF ReadInRun
<1>3. CASE /\ UNCHANGED <<start, chain>>
           /\ now <= now'
           /\ \A g \in Grain : \A k \in Window(g) : WindowChange(g, k)
  <2> SUFFICES ASSUME NEW g \in Grain, NEW k \in Window(g)
               PROVE  /\ child'[g][k] = "fetched" => start <= fetched'[g][k] /\ fetched'[g][k] <= now'
                      /\ child'[g][k] = "ok" => start <= bronze'[g][k] \/ writer'[g][k] = "other"
    BY <1>3 DEF ReadInRun
  <2>1. /\ now \in Nat /\ start \in Nat /\ now' \in Nat
        /\ fetched[g][k] \in Nat /\ bronze[g][k] \in Nat
    BY Numbers, MaxNowAssumption DEF IInv, TypeOK, Instant
  <2>2. /\ start <= now
        /\ child[g][k] = "fetched" => start <= fetched[g][k] /\ fetched[g][k] <= now
        /\ child[g][k] = "ok" => start <= bronze[g][k] \/ writer[g][k] = "other"
    BY DEF IInv, InOrder, ReadInRun
  <2>3. WindowChange(g, k) /\ now <= now'
    BY <1>3
  <2>4. QED
    BY <2>1, <2>2, <2>3 DEF WindowChange, Kept, Written
<1>4. QED
  BY <1>1, <1>2, <1>3, WindowChanges DEF IInv

LEMMA NothingFromOutsideStep == IInv /\ [Next]_vars /\ TypeOK' => NothingFromOutside'
<1> SUFFICES ASSUME IInv, [Next]_vars, TypeOK' PROVE NothingFromOutside'
  OBVIOUS
<1>1. CASE StartRun
  BY <1>1, Started DEF IInv, NothingFromOutside
<1>2. CASE IngestDone \/ IngestFailed
  BY <1>2, Forgotten DEF IInv, NothingFromOutside
<1>3. CASE /\ UNCHANGED <<start, chain>>
           /\ now <= now'
           /\ \A g \in Grain : \A k \in Window(g) : WindowChange(g, k)
  <2> SUFFICES ASSUME NEW g \in Grain \ Overlap, NEW k \in Window(g)
               PROVE  /\ late'[g][k] = 0
                      /\ bronze'[g][k] <= now'
                      /\ child'[g][k] \in {"started", "fetched"} => bronze'[g][k] <= start
    BY <1>3 DEF NothingFromOutside
  <2>1. now \in Nat /\ now' \in Nat /\ fetched[g][k] \in Nat /\ bronze[g][k] \in Nat
    BY Numbers, MaxNowAssumption DEF IInv, TypeOK, Instant
  <2>2. /\ late[g][k] = 0 /\ bronze[g][k] <= now
        /\ child[g][k] \in {"started", "fetched"} => bronze[g][k] <= start
        /\ child[g][k] = "fetched" => fetched[g][k] <= now
    BY DEF IInv, NothingFromOutside, ReadInRun
  <2>3. WindowChange(g, k) /\ now <= now'
    BY <1>3
  <2>4. QED
    BY <2>1, <2>2, <2>3 DEF WindowChange, Kept, Written
<1>4. QED
  BY <1>1, <1>2, <1>3, WindowChanges DEF IInv

(* What a run has read since it started holds all of a window that was     *)
(* final when the last successful ingestion started.                       *)
LEMMA WritesAreFinal ==
    ASSUME IInv, NEW g \in Grain, NEW k \in Window(g), child[g][k] = "fetched",
           Final(chain.last, g, k)
    PROVE  Final(fetched[g][k], g, k)
<1>1. chain.last <= start /\ start <= fetched[g][k]
  BY DEF IInv, InOrder, ReadInRun
<1>2. chain.last \in Nat /\ start \in Nat /\ fetched[g][k] \in Nat /\ k \in Nat
  BY Numbers DEF IInv
<1>3. chain.last <= fetched[g][k]
  BY <1>1, <1>2
<1>4. QED
  BY <1>2, <1>3, FinalMonotone

LEMMA NoGapStep == IInv /\ [Next]_vars /\ TypeOK' => NoGap'
<1> SUFFICES ASSUME IInv, [Next]_vars, TypeOK', chain'.last # 0,
                    NEW g \in Grain, NEW k \in Window(g),
                    Containing(chain'.first, g) - Lookback[g] < k, Final(chain'.last, g, k)
             PROVE  Final(bronze'[g][k], g, k) \/ writer'[g][k] = "other"
  BY DEF NoGap, Window, Final, Containing
<1>0. /\ chain.first \in Nat /\ chain.last \in Nat /\ start \in Nat /\ k \in Nat
      /\ bronze[g][k] \in Nat /\ Lookback[g] \in Nat /\ Delay[g] \in Nat
  BY Numbers, LookbackAssumption, DelayAssumption DEF IInv
<1>1. ASSUME chain' = chain
      PROVE  Final(bronze[g][k], g, k) \/ writer[g][k] = "other"
  BY <1>1 DEF IInv, NoGap
<1>2. CASE StartRun
  <2>1. UNCHANGED <<chain, bronze, writer>>
    BY <1>2 DEF StartRun
  <2>2. QED
    BY <1>1, <2>1
<1>3. CASE IngestFailed
  <2>1. UNCHANGED <<chain, bronze, writer>>
    BY <1>3 DEF IngestFailed
  <2>2. QED
    BY <1>1, <2>1
<1>4. CASE /\ UNCHANGED <<start, chain>>
           /\ \A h \in Grain : \A j \in Window(h) : WindowChange(h, j)
  <2>1. WindowChange(g, k)
    BY <1>4
  <2>2. CASE Kept(g, k) \/ writer'[g][k] = "other"
    BY <1>1, <1>4, <2>2 DEF Kept
  <2>3. CASE Written(g, k)
    BY <1>4, <2>3, WritesAreFinal DEF Written
  <2>4. QED
    BY <2>1, <2>2, <2>3 DEF WindowChange
<1>5. CASE IngestDone
  <2>1. UNCHANGED <<start, bronze, writer>> /\ chain' = Extend(chain, start)
    BY <1>5 DEF IngestDone
  <2>2. /\ chain'.last = start
        /\ \/ chain'.first = start
           \/ chain.last # 0 /\ NoWindowBetween(chain.last, start) /\ chain'.first = chain.first
    BY <2>1 DEF Extend
  <2>3. /\ Containing(start, g) \in Int /\ Containing(chain.first, g) \in Int
        /\ Containing(chain.last - Delay[g], g) \in Int
    <3>1. chain.last - Delay[g] \in Int
      BY <1>0
    <3>2. QED
      BY <1>0, <3>1, ContainingType
  <2>3a. Final(start, g, k) /\ k < Containing(start, g)
    BY <1>0, <2>2, FinalMonotone
  <2>4. CASE Containing(start, g) - Lookback[g] < k
    <3>1. k \in LookbackWindows(start, g)
      BY <1>0, <2>3, <2>3a, <2>4, InLookback
    <3>2. bronze[g][k] >= start \/ writer[g][k] = "other"
      BY <1>5, <3>1, AllWritten
    <3>3. CASE bronze[g][k] >= start
      <4>1. Final(bronze[g][k], g, k)
        BY <1>0, <2>3a, <3>3, FinalMonotone
      <4>2. QED
        BY <2>1, <4>1
    <3>4. QED
      BY <2>1, <3>2, <3>3
  <2>5. CASE ~(Containing(start, g) - Lookback[g] < k)
    <3>1. chain'.first # start
      BY <2>5
    <3>2. chain.last # 0 /\ NoWindowBetween(chain.last, start) /\ chain'.first = chain.first
      BY <2>2, <3>1
    <3>3. Containing(start, g) - Containing(chain.last - Delay[g], g) < Lookback[g]
      BY <3>2 DEF NoWindowBetween
    <3>4. Final(chain.last, g, k)
      BY <1>0, <2>3, <2>5, <3>3 DEF Final
    <3>5. Containing(chain.first, g) - Lookback[g] < k
      BY <3>2
    <3>6. Final(bronze[g][k], g, k) \/ writer[g][k] = "other"
      BY <3>2, <3>4, <3>5 DEF IInv, NoGap
    <3>7. QED
      BY <2>1, <3>6
  <2>6. QED
    BY <2>4, <2>5
<1>6. QED
  BY <1>2, <1>3, <1>4, <1>5, WindowChanges DEF IInv

LEMMA MartsStep == IInv /\ [Next]_vars => MartsOverFreshBronze'
<1> SUFFICES ASSUME IInv, [Next]_vars, phase' = "marts"
             PROVE  \A g \in Grain : \A k \in LookbackWindows(start', g) :
                      bronze'[g][k] >= start' \/ writer'[g][k] = "other"
  BY DEF MartsOverFreshBronze, LookbackWindows, Containing, Window
<1>1. CASE IngestDone
  <2>1. UNCHANGED <<start, bronze, writer>>
    BY <1>1 DEF IngestDone
  <2>2. QED
    BY <1>1, <2>1, AllWritten
<1>2. CASE StartRun \/ IngestFailed
  BY <1>2 DEF StartRun, IngestFailed
<1>3. CASE /\ UNCHANGED <<start, chain>>
           /\ phase' = phase \/ (phase = "marts" /\ phase' = "idle")
           /\ \A g \in Grain : \A k \in Window(g) : WindowChange(g, k)
  <2> SUFFICES ASSUME NEW g \in Grain, NEW k \in LookbackWindows(start, g)
               PROVE  bronze'[g][k] >= start \/ writer'[g][k] = "other"
    BY <1>3
  <2>1. k \in Window(g) /\ phase = "marts"
    BY <1>3 DEF LookbackWindows
  <2>2. child[g][k] = "none" /\ (bronze[g][k] >= start \/ writer[g][k] = "other")
    BY <2>1 DEF IInv, ChildrenOfRun, MartsOverFreshBronze
  <2>3. Kept(g, k) \/ writer'[g][k] = "other"
    BY <1>3, <2>1, <2>2 DEF WindowChange, Written
  <2>4. QED
    BY <2>2, <2>3 DEF Kept
<1>4. QED
  BY <1>1, <1>2, <1>3, WindowChanges DEF IInv

-----------------------------------------------------------------------------
(* The theorems.                                                           *)

LEMMA InitOK == Init => IInv
<1> SUFFICES ASSUME Init PROVE IInv
  OBVIOUS
<1>1. 0 \in Instant /\ 1 \in Instant
  BY MaxNowAssumption DEF Instant
<1>2. \A g \in Grain : \A k \in Window(g) :
        /\ child[g][k] = "none" /\ fetched[g][k] = 0 /\ bronze[g][k] = 0
        /\ late[g][k] = 0 /\ writer[g][k] = "run"
  BY DEF Init, Over
<1>3. TypeOK
  BY <1>1 DEF Init, TypeOK, Over
<1>4. QED
  BY <1>2, <1>3 DEF Init, IInv, InOrder, ChildrenOfRun, ReadInRun, NothingFromOutside, NoGap,
                    MartsOverFreshBronze

(* What the theorems rest on holds in every state: a run has a child for   *)
(* every window it looks back to, children live only while it waits for    *)
(* them, and what they read and write is no older than its start.          *)
THEOREM Invariant == Spec => []IInv
<1>1. IInv /\ [Next]_vars => IInv'
  <2> SUFFICES ASSUME IInv, [Next]_vars PROVE IInv'
    OBVIOUS
  <2>1. TypeOK'
    BY TypeStep DEF IInv
  <2>2. QED
    BY <2>1, InOrderStep, ChildrenOfRunStep, ReadInRunStep, NothingFromOutsideStep, NoGapStep,
       MartsStep DEF IInv
<1>2. QED
  BY InitOK, <1>1, PTL DEF Spec

(* After any stretch of successful ingestions none of which came too late, *)
(* bronze holds all the rows of every window that closed in it, whatever   *)
(* the grains, the window lengths and the lookbacks.                       *)
THEOREM NoGapEver == Spec => []NoGap
<1>1. IInv => NoGap
  BY DEF IInv
<1>2. QED
  BY Invariant, <1>1, PTL

(* The marts are built only over windows re-extracted since the run began. *)
THEOREM MartsAlwaysOverFreshBronze == Spec => []MartsOverFreshBronze
<1>1. IInv => MartsOverFreshBronze
  BY DEF IInv
<1>2. QED
  BY Invariant, <1>1, PTL

(* Where only runs write bronze, a run never sets a complete window back   *)
(* to an incomplete one: the re-extraction converges.                      *)
THEOREM FinalIsKept == Spec => FinalStaysFinal
<1>1. IInv /\ [Next]_vars => KeepsFinal(Grain \ Overlap)
  <2> SUFFICES ASSUME IInv, [Next]_vars, NEW g \in Grain \ Overlap, NEW k \in Window(g),
                      Final(bronze[g][k], g, k)
               PROVE  Final(bronze'[g][k], g, k)
    BY DEF KeepsFinal
  <2>1. CASE StartRun \/ IngestDone \/ IngestFailed
    BY <2>1 DEF StartRun, IngestDone, IngestFailed
  <2>2. CASE \A h \in Grain : \A j \in Window(h) : WindowChange(h, j)
    <3>1. late[g][k] = 0
      BY DEF IInv, NothingFromOutside
    <3>2. Kept(g, k) \/ Written(g, k)
      BY <2>2, <3>1 DEF WindowChange
    <3>3. CASE Written(g, k)
      <4>1. bronze[g][k] <= start /\ start <= fetched[g][k] /\ bronze'[g][k] = fetched[g][k]
        BY <3>3 DEF Written, IInv, NothingFromOutside, ReadInRun
      <4>2. bronze[g][k] \in Nat /\ start \in Nat /\ fetched[g][k] \in Nat
        BY Numbers DEF IInv
      <4>3. bronze[g][k] <= fetched[g][k]
        BY <4>1, <4>2
      <4>4. QED
        BY <4>1, <4>2, <4>3, FinalMonotone
    <3>4. QED
      BY <3>2, <3>3 DEF Kept
  <2>3. QED
    BY <2>1, <2>2, WindowChanges DEF IInv
<1>2. QED
  BY Invariant, <1>1, PTL DEF Spec, FinalStaysFinal
=============================================================================
