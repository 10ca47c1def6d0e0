----------------------- MODULE EventExtraction_proofs -----------------------
(***************************************************************************)
(* Proofs about EventExtraction, for any change of offset at a full hour   *)
(* of UTC that falls back by no more than a window. The bounds of the      *)
(* windows, in wall time, then never go back from one window to the next,  *)
(* and from the end of a window on no wall time lies below that end.       *)
(***************************************************************************)
EXTENDS EventExtraction, TLAPS

(* Windows in instants: the next one starts where this one ends.           *)
LEMMA Hours ==
    ASSUME NEW k \in Nat
    PROVE  /\ k * Hour \in Nat
           /\ (k + 1) * Hour = k * Hour + Hour
           /\ \A m \in Nat : m > k => m * Hour >= k * Hour + Hour
BY HourAssumption

LEMMA ContainingHours ==
    ASSUME NEW t \in Nat
    PROVE  /\ Containing(t) \in Nat
           /\ Containing(t) * Hour <= t
           /\ t < Containing(t) * Hour + Hour
BY HourAssumption DEF Containing

LEMMA WindowType == Window \subseteq Nat
<1>1. Containing(MaxNow) \in Nat
  BY ContainingHours, BoundsAssumption
<1>2. QED
  BY <1>1 DEF Window

LEMMA ZoneType ==
    ASSUME zone \in Zone
    PROVE  /\ zone.at \in Nat /\ zone.before \in Nat /\ zone.after \in Nat
           /\ zone.before - zone.after <= Hour
           /\ \E m \in Nat : zone.at = m * Hour
<1>1. zone.at \in Nat /\ zone.at % Hour = 0
  BY ZoneAssumption
<1>2. zone.at = (zone.at \div Hour) * Hour /\ zone.at \div Hour \in Nat
  BY <1>1, HourAssumption
<1>3. QED
  BY <1>1, <1>2, ZoneAssumption

(* From the end of a window on, wall time is not below that end.           *)
LEMMA NothingFromBehind ==
    ASSUME zone \in Zone, NEW k \in Nat, NEW e \in Nat, e >= k * Hour
    PROVE  CreatedAt(e) >= WallClock(k * Hour)
<1> DEFINE h == k * Hour
<1>1. h \in Nat
  BY Hours
<1>2. CASE h < zone.at /\ zone.at <= e
  <2>1. PICK m \in Nat : zone.at = m * Hour
    BY ZoneType
  <2>2. m > k
    BY <1>1, <1>2, <2>1, HourAssumption
  <2>3. zone.at >= h + Hour
    BY <2>1, <2>2, Hours
  <2>4. CreatedAt(e) = e + zone.after /\ WallClock(h) = h + zone.before
    BY <1>2, <1>1, ZoneType DEF CreatedAt, WallClock
  <2>5. QED
    BY <1>1, <1>2, <2>3, <2>4, ZoneType, HourAssumption
<1>3. CASE ~(h < zone.at /\ zone.at <= e)
  BY <1>1, <1>3, ZoneType DEF CreatedAt, WallClock
<1>4. QED
  BY <1>2, <1>3

(* Bounds do not go back.                                                  *)
LEMMA BoundsInOrder ==
    ASSUME zone \in Zone, NEW j \in Nat, NEW k \in Nat, j <= k
    PROVE  /\ WallClock(j * Hour) <= WallClock(k * Hour)
           /\ WallClock(j * Hour) \in Nat /\ WallClock(k * Hour) \in Nat
<1>1. j * Hour \in Nat /\ k * Hour \in Nat
  BY Hours
<1>2. k * Hour >= j * Hour
  <2>1. CASE j = k
    BY <1>1, <2>1
  <2>2. CASE j < k
    <3>1. k * Hour >= j * Hour + Hour
      BY <2>2, Hours
    <3>2. QED
      BY <1>1, <3>1, HourAssumption
  <2>3. QED
    BY <2>1, <2>2
<1>3. CreatedAt(k * Hour) >= WallClock(j * Hour)
  BY <1>1, <1>2, NothingFromBehind
<1>4. CreatedAt(k * Hour) = WallClock(k * Hour)
  BY DEF CreatedAt, WallClock
<1>5. QED
  BY <1>1, <1>3, <1>4, ZoneType DEF WallClock

(* At most one window selects an event.                                    *)
LEMMA SelectedByOne ==
    ASSUME zone \in Zone, NEW e \in Nat, NEW j \in Nat, NEW k \in Nat, j # k
    PROVE  ~(Selected(e, j) /\ Selected(e, k))
<1>1. ASSUME NEW i \in Nat, NEW l \in Nat, i < l, Selected(e, i), Selected(e, l)
      PROVE  FALSE
  <2>1. WallClock((i + 1) * Hour) <= WallClock(l * Hour)
        /\ WallClock((i + 1) * Hour) \in Nat /\ WallClock(l * Hour) \in Nat
    <3>1. i + 1 \in Nat /\ i + 1 <= l
      BY <1>1
    <3>2. QED
      BY <3>1, BoundsInOrder
  <2>2. CreatedAt(e) \in Nat
    BY ZoneType DEF CreatedAt
  <2>3. QED
    BY <1>1, <2>1, <2>2 DEF Selected
<1>2. QED
  BY <1>1

(* The window an event happened in, or the next one, selects it.           *)
LEMMA SelectedByThisOrNext ==
    ASSUME zone \in Zone, NEW e \in Nat
    PROVE  Selected(e, Containing(e)) \/ Selected(e, Containing(e) + 1)
<1> DEFINE k == Containing(e)
           h == k * Hour
<1>1. k \in Nat /\ h \in Nat /\ h <= e /\ e < h + Hour
  BY ContainingHours, Hours
<1>2. (k + 1) * Hour = h + Hour /\ (k + 2) * Hour = h + Hour + Hour
  BY <1>1, HourAssumption
<1>3. WallClock(h) <= CreatedAt(e)
  BY <1>1, NothingFromBehind
<1>4. CreatedAt(e) < WallClock(h + Hour + Hour)
  <2> HIDE DEF h
  <2>1. e < h + Hour + Hour /\ e + Hour < h + Hour + Hour
    BY <1>1, HourAssumption
  <2>2. QED
    BY <1>1, <2>1, ZoneType, HourAssumption DEF CreatedAt, WallClock
<1>5. CreatedAt(e) \in Nat /\ WallClock(h + Hour) \in Nat
  <2> HIDE DEF h
  <2>1. QED
    BY <1>1, ZoneType, HourAssumption DEF CreatedAt, WallClock
<1>6. k + 1 + 1 = k + 2
  BY <1>1
<1>7. QED
  BY <1>2, <1>3, <1>4, <1>5, <1>6 DEF Selected

-----------------------------------------------------------------------------

LEMMA InitIInv == Init => IInv
<1> SUFFICES ASSUME Init PROVE IInv
  OBVIOUS
<1>1. 0 \in Instant
  BY BoundsAssumption DEF Instant
<1>2. TypeOK
  BY <1>1 DEF Init, TypeOK
<1>3. QED
  BY <1>1, <1>2 DEF Init, IInv, SettledIsComplete

LEMMA IInvStep == IInv /\ [Next]_vars => IInv'
<1> SUFFICES ASSUME IInv, [Next]_vars PROVE IInv'
  OBVIOUS
<1>0. TypeOK /\ Instant \subseteq Nat /\ now \in Nat /\ Window \subseteq Nat
  BY BoundsAssumption, WindowType DEF IInv, TypeOK, Instant
<1>1. CASE UNCHANGED vars
  BY <1>1 DEF vars, IInv, TypeOK, SettledIsComplete, Settled, Selected, WallClock, CreatedAt
<1>2. CASE Tick
  <2>1. now + 1 \in Instant
    BY <1>0, <1>2, BoundsAssumption DEF Tick, Instant, TypeOK
  <2>2. TypeOK'
    BY <1>0, <1>2, <2>1 DEF Tick, TypeOK
  <2>3. (\A e \in logged : e <= now + 1) /\ \A k \in Window : read[k] <= now + 1
    <3>1. ASSUME NEW e \in logged PROVE e <= now + 1
      <4>1. e \in Nat /\ e <= now
        BY <1>0 DEF IInv, TypeOK
      <4>2. QED
        BY <1>0, <4>1
    <3>2. ASSUME NEW k \in Window PROVE read[k] <= now + 1
      <4>1. read[k] \in Nat /\ read[k] <= now
        BY <1>0 DEF IInv, TypeOK
      <4>2. QED
        BY <1>0, <4>1
    <3>3. QED
      BY <3>1, <3>2
  <2>4. QED
    BY <1>2, <2>2, <2>3 DEF Tick, IInv, SettledIsComplete, Settled, Selected, WallClock, CreatedAt
<1>3. ASSUME NEW e \in Instant, Log(e)
      PROVE  IInv'
  <2>1. TypeOK'
    BY <1>0, <1>3 DEF Log, TypeOK
  <2>2. ASSUME NEW k \in Window, Settled(k), Selected(e, k)
        PROVE  FALSE
    <3>1. e >= (k + 1) * Hour
      <4>0. k + 1 \in Nat
        BY <1>0
      <4>1. (k + 1) * Hour \in Nat /\ read[k] \in Nat /\ e \in Nat
        BY <1>0, <4>0, Hours DEF TypeOK
      <4>2. read[k] <= now /\ now - e <= Delay
        BY <1>3 DEF IInv, Log
      <4>3. QED
        BY <1>0, <2>2, <4>1, <4>2, BoundsAssumption DEF Settled
    <3>2. CreatedAt(e) >= WallClock((k + 1) * Hour)
      <4>1. k + 1 \in Nat /\ e \in Nat
        BY <1>0
      <4>2. QED
        BY <1>0, <3>1, <4>1, NothingFromBehind DEF TypeOK
    <3>3. CreatedAt(e) \in Nat /\ WallClock((k + 1) * Hour) \in Nat
      <4>1. k + 1 \in Nat /\ e \in Nat
        BY <1>0
      <4>2. QED
        BY <1>0, <4>1, BoundsInOrder, ZoneType DEF TypeOK, CreatedAt
    <3>4. QED
      BY <2>2, <3>2, <3>3 DEF Selected
  <2>3. SettledIsComplete'
    BY <1>3, <2>2 DEF Log, IInv, SettledIsComplete, Settled, Selected, WallClock, CreatedAt
  <2>4. QED
    BY <1>3, <2>1, <2>3 DEF Log, IInv, Selected, WallClock, CreatedAt
<1>4. ASSUME NEW k \in Window, Extract(k)
      PROVE  IInv'
  <2>1. TypeOK'
    BY <1>0, <1>4 DEF Extract, TypeOK
  <2>2. \A j \in Window : /\ read'[j] = IF j = k THEN now ELSE read[j]
                          /\ rows'[j] = IF j = k THEN {e \in logged : Selected(e, k)} ELSE rows[j]
    BY <1>0, <1>4 DEF Extract, TypeOK
  <2>3. UNCHANGED <<zone, now, logged>>
    BY <1>4 DEF Extract
  <2>4. \A f, j : Selected(f, j)' <=> Selected(f, j)
    BY <2>3 DEF Selected, WallClock, CreatedAt
  <2>5. SettledIsComplete'
    <3>1. ASSUME NEW j \in Window, Settled(j)', NEW f \in logged, Selected(f, j)
          PROVE  f \in rows'[j]
      <4>1. CASE j = k
        BY <2>2, <3>1, <4>1
      <4>2. CASE j # k
        BY <2>2, <3>1, <4>2 DEF IInv, SettledIsComplete, Settled
      <4>3. QED
        BY <4>1, <4>2
    <3>2. QED
      BY <2>3, <2>4, <3>1 DEF SettledIsComplete
  <2>6. ASSUME NEW j \in Window
        PROVE  read'[j] <= now /\ \A f \in rows'[j] : Selected(f, j)
    <3>1. CASE j = k
      <4>1. read'[j] = now /\ rows'[j] = {e \in logged : Selected(e, j)}
        BY <2>2, <3>1
      <4>2. QED
        BY <1>0, <4>1
    <3>2. CASE j # k
      BY <2>2, <3>2 DEF IInv
    <3>3. QED
      BY <3>1, <3>2
  <2>7. QED
    BY <2>1, <2>3, <2>4, <2>5, <2>6 DEF IInv
<1>5. QED
  BY <1>1, <1>2, <1>3, <1>4 DEF Next

(* Whatever is logged and read when: files hold what their window selects, *)
(* and what is settled is complete.                                        *)
THEOREM Invariant == Spec => []IInv
BY InitIInv, IInvStep, PTL DEF Spec

(* A window read once it has closed, and the delay has passed, never lacks *)
(* an event later (query.go:62: bounds [w.Start, w.End) in the zone of     *)
(* created_at), at either change of offset.                                *)
THEOREM SettledStaysComplete == Spec => []SettledIsComplete
<1>1. IInv => SettledIsComplete
  BY DEF IInv
<1>2. QED
  BY <1>1, Invariant, PTL

(* No event is read by two windows (decode_internal_test.go: "Every event  *)
(* is therefore fetched exactly once").                                    *)
THEOREM EventsAreReadOnce == Spec => []ReadOnce
<1>1. IInv => ReadOnce
  <2> SUFFICES ASSUME IInv, NEW j \in Window, NEW k \in Window, j # k, NEW e \in rows[j], e \in rows[k]
               PROVE  FALSE
    BY DEF ReadOnce
  <2>1. zone \in Zone /\ e \in Nat /\ j \in Nat /\ k \in Nat
    BY WindowType, BoundsAssumption DEF IInv, TypeOK, Instant
  <2>2. Selected(e, j) /\ Selected(e, k)
    BY DEF IInv
  <2>3. QED
    BY <2>1, <2>2, SelectedByOne
<1>2. QED
  BY <1>1, Invariant, PTL

(* No event falls between two windows: the one it happened in or the next  *)
(* has it, once both are settled.                                          *)
THEOREM EventsAlwaysArrive == Spec => []EventsArrive
<1>1. IInv => EventsArrive
  <2> SUFFICES ASSUME IInv, NEW e \in logged, Containing(e) + 1 \in Window,
                      Settled(Containing(e)), Settled(Containing(e) + 1)
               PROVE  e \in rows[Containing(e)] \cup rows[Containing(e) + 1]
    BY DEF EventsArrive
  <2>1. zone \in Zone /\ e \in Nat
    BY BoundsAssumption DEF IInv, TypeOK, Instant
  <2>2. Containing(e) \in Window
    <3>1. Containing(e) \in Nat /\ Containing(MaxNow) \in Nat
      BY <2>1, ContainingHours, BoundsAssumption
    <3>2. QED
      BY <3>1 DEF Window
  <2>3. Selected(e, Containing(e)) \/ Selected(e, Containing(e) + 1)
    BY <2>1, SelectedByThisOrNext
  <2>4. QED
    BY <2>2, <2>3 DEF IInv, SettledIsComplete
<1>2. QED
  BY <1>1, Invariant, PTL
=============================================================================
