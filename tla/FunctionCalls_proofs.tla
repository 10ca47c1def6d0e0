------------------------ MODULE FunctionCalls_proofs ------------------------
(***************************************************************************)
(* Proofs about the pure functions, for every input they may be called     *)
(* with: windows of hours and days of any length, any lists of tables, ids *)
(* and texts of any characters, batches of any columns, and histories of   *)
(* any issues over any number of days. The last section says so of the     *)
(* states of FunctionCalls.                                                *)
(* Inductions, where there are any, take the least number for which a fact *)
(* would fail: there is one, as < is well-founded on the naturals.         *)
(***************************************************************************)
EXTENDS FunctionCalls, WellFoundedInduction, FiniteSetTheorems, SequenceTheorems, TLAPS

-----------------------------------------------------------------------------
(* Numbers                                                                 *)

(* A non-empty set of numbers has a least one.                             *)
LEMMA Least ==
    ASSUME NEW S \in SUBSET Nat, S # {}
    PROVE  \E n \in S : \A m \in S : n <= m
<1> DEFINE R == OpToRel(<, Nat)
<1>1. IsWellFoundedOn(R, Nat)
  BY NatLessThanWellFounded
<1>2. \A m, n \in Nat : m < n => <<m, n>> \in R
  BY DEF OpToRel
<1> HIDE DEF R
<1>3. PICK n \in S : \A m \in S : ~(<<m, n>> \in R)
  BY <1>1, WFMin, Zenon
<1>4. ASSUME NEW m \in S PROVE n <= m
  <2>1. m \in Nat /\ n \in Nat
    OBVIOUS
  <2>2. ~(m < n)
    BY <1>2, <1>3, <2>1, Zenon
  <2>3. QED
    BY <2>1, <2>2
<1>5. QED
  BY <1>4

(* What Min is, of a set of numbers.                                       *)
LEMMA MinIsLeast ==
    ASSUME NEW S \in SUBSET Nat, S # {}
    PROVE  Min(S) \in S /\ \A m \in S : Min(S) <= m
BY Least DEF Min

(* A member that none is below is the least.                               *)
LEMMA MinIs ==
    ASSUME NEW S \in SUBSET Nat, NEW n \in S, \A m \in S : n <= m
    PROVE  Min(S) = n
<1>1. Min(S) \in S /\ Min(S) <= n
  BY MinIsLeast
<1>2. n <= Min(S) /\ Min(S) \in Nat /\ n \in Nat
  BY <1>1
<1>3. QED
  BY <1>1, <1>2

(* A set of numbers with a bound has a greatest one.                       *)
LEMMA Greatest ==
    ASSUME NEW S \in SUBSET Nat, NEW b \in Nat, \A n \in S : n <= b, S # {}
    PROVE  \E n \in S : \A m \in S : m <= n
<1> DEFINE T == {b - n : n \in S}
<1>1. PICK t \in T : \A m \in T : t <= m
  <2>1. T \in SUBSET Nat /\ T # {}
    <3>1. \A n \in S : b - n \in Nat
      OBVIOUS
    <3>2. QED
      BY <3>1
  <2>2. QED
    BY <2>1, Least
<1>2. PICK n \in S : t = b - n
  OBVIOUS
<1>3. \A m \in S : t <= b - m
  BY <1>1
<1>4. QED
  BY <1>2, <1>3

-----------------------------------------------------------------------------
(* Windows: those of a grain are [q * d, (q + 1) * d) for its duration d,  *)
(* and all facts come from which multiples of d lie where.                 *)

(* Multiples of d: the last one not after t, and how far apart two are.    *)
LEMMA Multiples ==
    ASSUME NEW d \in Nat \ {0}, NEW q \in Int
    PROVE  /\ q * d \in Int
           /\ (q + 1) * d = q * d + d
           /\ (q - 1) * d = q * d - d
           /\ \A r \in Int : r > q => r * d >= q * d + d
OBVIOUS

(* The division of t by d, from the multiple of d that it lies after.      *)
LEMMA Quotient ==
    ASSUME NEW d \in Nat \ {0}, NEW t \in Int
    PROVE  /\ t \div d \in Int
           /\ (t \div d) * d \in Int
           /\ (t \div d) * d <= t
           /\ t < (t \div d) * d + d
OBVIOUS

(* The quotient is the only one.                                           *)
LEMMA OneQuotient ==
    ASSUME NEW d \in Nat \ {0}, NEW t \in Int, NEW q \in Int, q * d <= t, t < q * d + d
    PROVE  t \div d = q
<1> DEFINE p == t \div d
<1>1. p \in Int /\ p * d \in Int /\ q * d \in Int /\ p * d <= t /\ t < p * d + d
  BY Quotient, Multiples
<1> HIDE DEF p
<1>2. ~(p > q)
  <2>1. ASSUME p > q PROVE p * d >= q * d + d
    BY <1>1, <2>1, Multiples
  <2>2. QED
    BY <1>1, <2>1
<1>3. ~(q > p)
  <2>1. ASSUME q > p PROVE q * d >= p * d + d
    BY <1>1, <2>1, Multiples
  <2>2. QED
    BY <1>1, <2>1
<1>4. p = q
  BY <1>1, <1>2, <1>3
<1>5. QED
  BY <1>4 DEF p

(* A day has a length.                                                     *)
LEMMA DayLengthType == DayLength \in Nat \ {0}
BY LengthAssumption DEF DayLength

(* A window has a length.                                                  *)
LEMMA DurationType ==
    ASSUME NEW g \in Grain
    PROVE  Duration(g) \in Nat \ {0}
BY LengthAssumption, DayLengthType DEF Grain, Duration

(* Truncate is the last multiple of the duration that is not after t.      *)
LEMMA TruncateIs ==
    ASSUME NEW d \in Nat \ {0}, NEW t \in Int
    PROVE  /\ Truncate(t, d) = (t \div d) * d
           /\ Truncate(t, d) \in Int
           /\ Truncate(t, d) <= t
           /\ t < Truncate(t, d) + d
BY Quotient DEF Truncate

(* A multiple of d is where its window starts.                             *)
LEMMA MultipleIsAligned ==
    ASSUME NEW d \in Nat \ {0}, NEW q \in Int
    PROVE  Truncate(q * d, d) = q * d
<1>1. q * d \in Int
  BY Multiples
<1>2. (q * d) \div d = q
  BY <1>1, OneQuotient
<1>3. QED
  BY <1>1, <1>2, TruncateIs

(* The window of an instant, by the number of the multiple it starts at.   *)
LEMMA ContainingIs ==
    ASSUME NEW g \in Grain, NEW t \in Int
    PROVE  /\ Containing(t, g) = WindowAt((t \div Duration(g)) * Duration(g), g)
           /\ Containing(t, g).start = (t \div Duration(g)) * Duration(g)
           /\ Containing(t, g).start <= t
           /\ t < Containing(t, g).start + Duration(g)
BY DurationType, TruncateIs DEF Containing, WindowAt

(* The fields of a window.                                                 *)
LEMMA WindowAtIs ==
    ASSUME NEW g \in Grain, NEW q \in Int
    PROVE  /\ Valid(WindowAt(q * Duration(g), g))
           /\ WindowAt(q * Duration(g), g).start = q * Duration(g)
           /\ WindowAt(q * Duration(g), g).end = q * Duration(g) + Duration(g)
BY DurationType, MultipleIsAligned DEF Valid, WindowAt

(* An hour starts where a multiple of the hour is, and a day has a whole   *)
(* number of them.                                                         *)
LEMMA DayIsMultiple ==
    ASSUME NEW g \in Grain
    PROVE  \E m \in Nat \ {0} : DayLength = m * Duration(g)
<1>1. CASE g = "hour"
  BY <1>1, LengthAssumption DEF DayLength, Duration
<1>2. CASE g = "day"
  <2>1. DayLength = 1 * Duration(g)
    BY <1>2, DayLengthType DEF Duration
  <2>2. QED
    BY <2>1
<1>3. QED
  BY <1>1, <1>2 DEF Grain

-----------------------------------------------------------------------------

(* The i-th window of a lookback.                                          *)
LEMMA LookbackWindow ==
    ASSUME NEW now \in Int, NEW g \in Grain, NEW n \in Nat \ {0}, NEW i \in 1 .. n
    PROVE  Lookback(now, g, n)[i] =
              WindowAt((now \div Duration(g) - (n - i)) * Duration(g), g)
<1> DEFINE d == Duration(g)
           q == now \div d
<1>1. d \in Nat \ {0} /\ q \in Int /\ n - i \in Int
  BY DurationType, Quotient
<1>2. Containing(now, g).start = q * d
  BY ContainingIs
<1> HIDE DEF d, q
<1>3. q * d - (n - i) * d = (q - (n - i)) * d
  <2>1. \A k \in Int : q * d - k * d = (q - k) * d
    BY <1>1
  <2>2. QED
    BY <1>1, <2>1
<1>4. QED
  BY <1>2, <1>3 DEF Lookback, d, q

(* A lookback of any length ends with the window of now, and has neither   *)
(* hole nor overlap (window.go:57-59).                                     *)
THEOREM LookbackAlwaysReachesNow ==
    ASSUME NEW now \in Int, NEW g \in Grain, NEW n \in Int, ~LookbackRefused(n)
    PROVE  LookbackReachesNow(now, g, n)
<1> DEFINE d == Duration(g)
           q == now \div d
           ws == Lookback(now, g, n)
<1>1. d \in Nat \ {0} /\ q \in Int /\ n \in Nat \ {0}
  BY DurationType, Quotient DEF LookbackRefused
<1>2. Len(ws) = n
  BY <1>1 DEF Lookback
<1>3. ASSUME NEW i \in 1 .. n
      PROVE  /\ ws[i] = WindowAt((q - (n - i)) * d, g)
             /\ q - (n - i) \in Int
  BY <1>1, <1>3, LookbackWindow
<1>4. ASSUME NEW i \in 1 .. n PROVE Valid(ws[i])
  BY <1>3, <1>4, WindowAtIs
<1>5. ASSUME NEW i \in 1 .. n - 1 PROVE ws[i].end = ws[i + 1].start
  <2>1. i \in 1 .. n /\ i + 1 \in 1 .. n /\ (q - (n - i)) + 1 = q - (n - (i + 1))
    BY <1>1, <1>5
  <2>2. ws[i].end = (q - (n - i)) * d + d
    BY <1>3, <2>1, WindowAtIs
  <2>3. ws[i + 1].start = (q - (n - (i + 1))) * d
    BY <1>3, <2>1, WindowAtIs
  <2>4. (q - (n - i)) * d + d = ((q - (n - i)) + 1) * d
    <3>1. q - (n - i) \in Int
      BY <1>3, <2>1
    <3>2. QED
      BY <1>1, <3>1, Multiples
  <2>5. QED
    BY <2>1, <2>2, <2>3, <2>4
<1>6. ws[n].start <= now /\ now < ws[n].end
  <2>1. n \in 1 .. n /\ q - (n - n) = q
    BY <1>1
  <2>2. ws[n] = WindowAt(q * d, g)
    BY <1>3, <2>1
  <2>3. q * d <= now /\ now < q * d + d
    BY <1>1, Quotient
  <2>4. QED
    BY <1>1, <2>2, <2>3, WindowAtIs
<1>7. QED
  BY <1>2, <1>4, <1>5, <1>6 DEF LookbackReachesNow

-----------------------------------------------------------------------------

(* The windows between two multiples of the duration.                      *)
LEMMA WindowsBetweenAre ==
    ASSUME NEW g \in Grain, NEW first \in Int, NEW last \in Int, first <= last
    PROVE  LET ws == WindowsBetween(first * Duration(g), last * Duration(g), g) IN
           /\ DOMAIN ws = 1 .. (last - first)
           /\ \A i \in 1 .. (last - first) : ws[i] = WindowAt((first + i - 1) * Duration(g), g)
<1> DEFINE d == Duration(g)
           n == last - first
<1>1. d \in Nat \ {0} /\ n \in Nat
  BY DurationType
<1> HIDE DEF d
<1>2. \A k \in Int : last * d - k * d = (last - k) * d
  BY <1>1
<1>3. last * d - first * d = n * d /\ n * d \in Int
  BY <1>1, <1>2, Multiples
<1>4. (last * d - first * d + d - 1) \div d = n
  <2>1. n * d + d - 1 \in Int /\ n * d <= n * d + d - 1 /\ n * d + d - 1 < n * d + d
    BY <1>1, <1>3
  <2>2. (n * d + d - 1) \div d = n
    BY <1>1, <2>1, OneQuotient
  <2>3. QED
    BY <1>3, <2>2
<1>5. ASSUME NEW i \in 1 .. n PROVE first * d + (i - 1) * d = (first + i - 1) * d
  <2>1. \A k \in Int : first * d + k * d = (first + k) * d
    BY <1>1
  <2>2. i - 1 \in Int /\ first + (i - 1) = first + i - 1
    BY <1>5
  <2>3. QED
    BY <2>1, <2>2
<1>6. QED
  BY <1>4, <1>5 DEF WindowsBetween, d

(* Dates are multiples of the duration of either grain.                    *)
LEMMA DateIsMultiple ==
    ASSUME NEW g \in Grain, NEW from \in Int, NEW to \in Int, Date(from) <= Date(to)
    PROVE  \E first, last \in Int : /\ first <= last
                                    /\ Date(from) = first * Duration(g)
                                    /\ Date(to) + DayLength = last * Duration(g)
<1> DEFINE d == Duration(g)
           a == from \div DayLength
           b == to \div DayLength
<1>1. PICK m \in Nat \ {0} : DayLength = m * d
  BY DayIsMultiple
<1>2. d \in Nat \ {0} /\ a \in Int /\ b \in Int
  BY DurationType, DayLengthType, Quotient
<1>3. Date(from) = a * DayLength /\ Date(to) = b * DayLength
  BY DayLengthType, TruncateIs DEF Date
<1> HIDE DEF d, a, b
<1>4. Date(to) + DayLength = (b + 1) * DayLength
  BY <1>2, <1>3, DayLengthType, Multiples
<1>5. \A k \in Int : k * DayLength = (k * m) * d /\ k * m \in Int
  BY <1>1, <1>2
<1>6. a <= b
  <2>1. ASSUME a > b PROVE FALSE
    <3>1. a * DayLength >= b * DayLength + DayLength /\ a * DayLength \in Int /\ b * DayLength \in Int
      BY <1>2, <2>1, DayLengthType, Multiples
    <3>2. QED
      BY <1>3, <3>1, DayLengthType
  <2>2. QED
    BY <1>2, <2>1
<1>7. a * m <= (b + 1) * m
  <2>1. b + 1 > a /\ b + 1 \in Int
    BY <1>2, <1>6
  <2>2. (b + 1) * m >= a * m + m /\ a * m \in Int /\ (b + 1) * m \in Int
    BY <1>2, <2>1, Multiples
  <2>3. QED
    BY <2>2
<1>8. /\ Date(from) = (a * m) * d /\ a * m \in Int
      /\ Date(to) + DayLength = ((b + 1) * m) * d /\ (b + 1) * m \in Int
  <2>1. b + 1 \in Int
    BY <1>2
  <2>2. QED
    BY <1>2, <1>3, <1>4, <1>5, <2>1
<1>9. QED
  BY <1>7, <1>8 DEF d

(* A backfill partitions its dates (window.go:73-75: "every window of      *)
(* Grain g with Start in [from's UTC calendar date 00:00Z, (to's UTC       *)
(* calendar date + 1 day) 00:00Z)").                                       *)
THEOREM RangeAlwaysCoversDates ==
    ASSUME NEW from \in Int, NEW to \in Int, NEW g, ~RangeRefused(from, to, g), NEW t \in Int
    PROVE  RangeCoversDates(from, to, g, t)
<1> DEFINE d == Duration(g)
           q == t \div d
           ws == DateRange(from, to, g)
           holds(i) == ws[i].start <= t /\ t < ws[i].end
<1>0. g \in Grain /\ d \in Nat \ {0} /\ q \in Int /\ q * d \in Int /\ q * d <= t /\ t < q * d + d
  <2>1. g \in Grain
    BY DEF RangeRefused
  <2>2. QED
    BY <2>1, DurationType, Quotient
<1>1. PICK first, last \in Int : first <= last /\ Date(from) = first * d /\ Date(to) + DayLength = last * d
  <2>1. Date(from) <= Date(to)
    <3>1. Date(from) \in Int /\ Date(to) \in Int
      BY DayLengthType, TruncateIs DEF Date
    <3>2. QED
      BY <3>1 DEF RangeRefused
  <2>2. QED
    BY <1>0, <2>1, DateIsMultiple
<1>2. /\ DOMAIN ws = 1 .. (last - first)
      /\ \A i \in DOMAIN ws : ws[i] = WindowAt((first + i - 1) * d, g)
  <2> DEFINE between == WindowsBetween(first * d, last * d, g)
  <2>1. ws = between
    BY <1>1 DEF DateRange
  <2>2. /\ DOMAIN between = 1 .. (last - first)
        /\ \A i \in 1 .. (last - first) : between[i] = WindowAt((first + i - 1) * d, g)
    BY <1>0, <1>1, WindowsBetweenAre
  <2> HIDE DEF ws, between, d
  <2>3. QED
    BY <2>1, <2>2
<1>3. \A i \in DOMAIN ws : /\ ws[i].start = (first + i - 1) * d
                           /\ ws[i].end = (first + i - 1) * d + d
                           /\ first + i - 1 \in Int
  <2> TAKE i \in DOMAIN ws
  <2>1. first + i - 1 \in Int
    BY <1>1, <1>2
  <2>2. ws[i] = WindowAt((first + i - 1) * d, g)
    BY <1>2
  <2> HIDE DEF ws
  <2>3. QED
    BY <1>0, <2>1, <2>2, WindowAtIs
<1>4. first * d \in Int /\ last * d \in Int
  BY <1>0, <1>1, Multiples
<1> HIDE DEF d, q, ws
<1>5. \A i \in DOMAIN ws : holds(i) <=> first + i - 1 = q
  <2> TAKE i \in DOMAIN ws
  <2>1. holds(i) => first + i - 1 = q
    BY <1>0, <1>3, OneQuotient DEF q
  <2>2. first + i - 1 = q => holds(i)
    BY <1>0, <1>3
  <2>3. QED
    BY <2>1, <2>2
<1>6. first * d <= t /\ t < last * d <=> first <= q /\ q < last
  <2>1. ASSUME first > q PROVE first * d >= q * d + d
    BY <1>0, <1>1, <2>1, Multiples
  <2>2. ASSUME first <= q PROVE first * d <= q * d
    <3>1. CASE first = q
      BY <1>0, <3>1
    <3>2. CASE q > first
      <4>1. q * d >= first * d + d
        BY <1>0, <1>1, <3>2, Multiples
      <4>2. QED
        BY <1>0, <1>4, <4>1
    <3>3. QED
      BY <1>0, <1>1, <2>2, <3>1, <3>2
  <2>3. ASSUME last > q PROVE last * d >= q * d + d
    BY <1>0, <1>1, <2>3, Multiples
  <2>4. ASSUME last <= q PROVE last * d <= q * d
    <3>1. CASE last = q
      BY <1>0, <3>1
    <3>2. CASE q > last
      <4>1. q * d >= last * d + d
        BY <1>0, <1>1, <3>2, Multiples
      <4>2. QED
        BY <1>0, <1>4, <4>1
    <3>3. QED
      BY <1>0, <1>1, <2>4, <3>1, <3>2
  <2>5. QED
    BY <1>0, <1>1, <1>4, <2>1, <2>2, <2>3, <2>4
<1>7. CASE first <= q /\ q < last
  <2>1. q - first + 1 \in DOMAIN ws /\ first + (q - first + 1) - 1 = q
    BY <1>0, <1>1, <1>2, <1>7
  <2>2. ws[q - first + 1] = Containing(t, g)
    <3>1. Containing(t, g) = WindowAt(q * d, g)
      BY <1>0, ContainingIs DEF q, d
    <3>2. QED
      BY <1>2, <2>1, <3>1
  <2>3. \A j \in DOMAIN ws : holds(j) => j = q - first + 1
    <3> TAKE j \in DOMAIN ws
    <3>1. holds(j) => first + j - 1 = q
      BY <1>5
    <3>2. j \in Int
      BY <1>2
    <3> HIDE DEF holds
    <3>3. QED
      BY <1>0, <1>1, <3>1, <3>2
  <2>4. holds(q - first + 1)
    BY <1>5, <2>1
  <2>5. Date(from) <= t /\ t < Date(to) + DayLength
    BY <1>1, <1>6, <1>7
  <2> HIDE DEF holds
  <2>6. \E i \in DOMAIN ws :
           ws[i] = Containing(t, g) /\ holds(i) /\ \A j \in DOMAIN ws : holds(j) => j = i
    BY <2>1, <2>2, <2>3, <2>4
  <2>7. QED
    BY <2>5, <2>6 DEF RangeCoversDates, ws, holds
<1>8. CASE ~(first <= q /\ q < last)
  <2>1. ASSUME NEW i \in DOMAIN ws PROVE ~holds(i)
    <3>1. i \in Int /\ 1 <= i /\ i <= last - first
      BY <1>1, <1>2
    <3>2. first + i - 1 # q
      BY <1>0, <1>1, <1>8, <3>1
    <3> HIDE DEF holds
    <3>3. QED
      BY <1>5, <3>2
  <2>2. ~(Date(from) <= t /\ t < Date(to) + DayLength)
    BY <1>1, <1>6, <1>8
  <2>3. QED
    BY <2>1, <2>2 DEF RangeCoversDates, ws
<1>9. QED
  BY <1>7, <1>8

-----------------------------------------------------------------------------

(* The date and the hour of day tell where an hour starts.                 *)
LEMMA DateAndHour ==
    ASSUME NEW s \in Int, s = Truncate(s, HourLength)
    PROVE  s = Date(s) + HourOfDay(s) * HourLength
<1> DEFINE h == HourLength
           a == s \div DayLength
           q == s \div h
<1>1. h \in Nat \ {0} /\ HoursPerDay \in Nat \ {0} /\ DayLength = HoursPerDay * h
  BY LengthAssumption DEF DayLength
<1>2. a \in Int /\ q \in Int /\ s = q * h /\ Date(s) = a * DayLength
  BY <1>1, DayLengthType, Quotient, TruncateIs DEF Date
<1>3. s % DayLength = s - a * DayLength
  BY DayLengthType
<1> HIDE DEF h, a, q
<1>4. a * DayLength = (a * HoursPerDay) * h /\ a * HoursPerDay \in Int
  BY <1>1, <1>2
<1>5. s - a * DayLength = (q - a * HoursPerDay) * h
  <2>1. \A k \in Int : q * h - k * h = (q - k) * h
    BY <1>1, <1>2
  <2>2. QED
    BY <1>2, <1>4, <2>1
<1>6. HourOfDay(s) = q - a * HoursPerDay
  <2>1. q - a * HoursPerDay \in Int
    BY <1>2, <1>4
  <2>2. ((q - a * HoursPerDay) * h) \div h = q - a * HoursPerDay
    <3>1. (q - a * HoursPerDay) * h \in Int
      BY <1>1, <2>1, Multiples
    <3>2. QED
      BY <1>1, <2>1, <3>1, OneQuotient
  <2>3. QED
    BY <1>3, <1>5, <2>2 DEF HourOfDay, h
<1>7. a * DayLength \in Int
  BY <1>2, DayLengthType, Multiples
<1>8. QED
  BY <1>2, <1>5, <1>6, <1>7 DEF h

(* What the writer and the workflows call a window tells it from every     *)
(* other one of its source, of either grain (bronze/path.go:27,            *)
(* workflow_materialise.go:203).                                           *)
THEOREM NamesAlwaysTellWindowsApart ==
    ASSUME NEW v \in [start : Int, end : Int, grain : Grain], Valid(v),
           NEW w \in [start : Int, end : Int, grain : Grain], Valid(w)
    PROVE  NamesTellWindowsApart(v, w)
<1>1. ASSUME v.grain = w.grain, Date(v.start) = Date(w.start),
             v.grain = "hour" => HourOfDay(v.start) = HourOfDay(w.start)
      PROVE  v = w
  <2>1. v.start = w.start
    <3>1. CASE v.grain = "hour"
      <4>1. v.start = Truncate(v.start, HourLength) /\ w.start = Truncate(w.start, HourLength)
        BY <1>1, <3>1 DEF Valid, Duration
      <4>2. v.start = Date(v.start) + HourOfDay(v.start) * HourLength
        BY <4>1, DateAndHour
      <4>3. w.start = Date(w.start) + HourOfDay(w.start) * HourLength
        BY <4>1, DateAndHour
      <4>4. QED
        BY <1>1, <3>1, <4>2, <4>3
    <3>2. CASE v.grain = "day"
      BY <1>1, <3>2 DEF Valid, Duration, Date
    <3>3. QED
      BY <3>1, <3>2 DEF Grain
  <2>2. v.end = w.end
    BY <1>1, <2>1 DEF Valid
  <2>3. QED
    BY <1>1, <2>1, <2>2
<1>2. ASSUME Path("raw", "events", v) = Path("raw", "events", w)
      PROVE  v = w
  <2>1. Date(v.start) = Date(w.start)
    BY <1>2 DEF Path
  <2>2. /\ v.grain = w.grain
        /\ v.grain = "hour" => HourOfDay(v.start) = HourOfDay(w.start)
    <3>1. Path("raw", "events", v).file = Path("raw", "events", w).file
      BY <1>2
    <3>2. \A x, y : <<"hh", x>> # <<"part-0">> /\ (<<"hh", x>> = <<"hh", y>> => x = y)
      OBVIOUS
    <3>3. QED
      BY <3>1, <3>2 DEF Path, Grain
  <2>3. QED
    BY <1>1, <2>1, <2>2
<1>3. ASSUME childWorkflowID("beads", v) = childWorkflowID("beads", w)
      PROVE  v = w
  <2>1. v.grain = w.grain /\ Name(v) = Name(w)
    BY <1>3 DEF childWorkflowID
  <2>2. Date(v.start) = Date(w.start) /\ (v.grain = "hour" => HourOfDay(v.start) = HourOfDay(w.start))
    BY <2>1 DEF Name
  <2>3. QED
    BY <1>1, <2>1, <2>2
<1>4. Path("raw", "events", v).dt = Containing(v.start, "day").start
  BY DEF Path, Containing, WindowAt, Date, Duration
<1>5. QED
  BY <1>2, <1>3, <1>4 DEF NamesTellWindowsApart

-----------------------------------------------------------------------------

Step(tables, s, h) == IF s = {} THEN <<>> ELSE AddTable(h[s \ {Max(s)}], tables[Max(s)])

IsFold(tables, D, h) == h = [s \in D |-> Step(tables, s, h)]

(* grainLookbacks is the value of its recursive function for all tables.   *)
LEMMA FoldIs ==
    ASSUME NEW tables
    PROVE  grainLookbacks(tables) =
             (CHOOSE h : IsFold(tables, SUBSET DOMAIN tables, h))[DOMAIN tables]
BY DEF grainLookbacks, FoldLeft, MapThenFoldSet, IsFold, Step

(* What Max is, of a bounded set of numbers.                               *)
LEMMA MaxIsGreatest ==
    ASSUME NEW n \in Nat, NEW s \in SUBSET (1 .. n), s # {}
    PROVE  /\ Max(s) \in s
           /\ \A m \in s : m <= Max(s)
<1>1. s \in SUBSET Nat /\ \A m \in s : m <= n
  OBVIOUS
<1>2. PICK k \in s : \A m \in s : m <= k
  BY <1>1, Greatest
<1>3. \A m \in s : k >= m
  BY <1>1, <1>2
<1>4. Max(s) \in s /\ \A m \in s : Max(s) >= m
  BY <1>3, Zenon DEF Max
<1>5. QED
  BY <1>1, <1>4

(* The subsets of the first n numbers that have at most k members.         *)
UpToSize(n, k) == {s \in SUBSET (1 .. n) : Cardinality(s) <= k}

(* The fold takes its indices away one at a time, the last one first.      *)
LEMMA SmallerWithoutMax ==
    ASSUME NEW n \in Nat, NEW k \in Nat, NEW s \in UpToSize(n, k + 1), s # {}
    PROVE  s \ {Max(s)} \in UpToSize(n, k)
<1>1. s \in SUBSET (1 .. n) /\ Cardinality(s) <= k + 1
  BY DEF UpToSize
<1>2. IsFiniteSet(s)
  <2>1. IsFiniteSet(1 .. n)
    BY FS_Interval
  <2>2. QED
    BY <1>1, <2>1, FS_Subset
<1>3. Max(s) \in s
  BY <1>1, MaxIsGreatest
<1>4. Cardinality(s \ {Max(s)}) = Cardinality(s) - 1 /\ Cardinality(s) \in Nat
  BY <1>2, <1>3, FS_RemoveElement, FS_CardinalityType
<1>5. s \ {Max(s)} \in SUBSET (1 .. n)
  BY <1>1
<1>6. Cardinality(s \ {Max(s)}) <= k
  BY <1>1, <1>4
<1>7. QED
  BY <1>5, <1>6, Zenon DEF UpToSize

(* The recursive function of the fold exists: by induction on the size of  *)
(* the sets it is defined for.                                             *)
LEMMA FoldExists ==
    ASSUME NEW n \in Nat, NEW tables, DOMAIN tables = 1 .. n
    PROVE  \E h : IsFold(tables, SUBSET (1 .. n), h)
<1> DEFINE Fails == {k \in Nat : ~\E h : IsFold(tables, UpToSize(n, k), h)}
<1>1. Fails = {}
  <2> SUFFICES ASSUME Fails # {} PROVE FALSE
    OBVIOUS
  <2>1. PICK k \in Fails : \A m \in Fails : k <= m
    <3>1. Fails \in SUBSET Nat
      OBVIOUS
    <3>2. QED
      BY <3>1, Least
  <2>2. CASE k = 0
    <3> DEFINE h == [s \in UpToSize(n, 0) |-> <<>>]
    <3>1. ASSUME NEW s \in UpToSize(n, 0) PROVE s = {}
      <4>1. s \in SUBSET (1 .. n) /\ Cardinality(s) <= 0
        BY DEF UpToSize
      <4>2. IsFiniteSet(s)
        <5>1. IsFiniteSet(1 .. n)
          BY FS_Interval
        <5>2. QED
          BY <4>1, <5>1, FS_Subset
      <4>3. Cardinality(s) = 0
        BY <4>1, <4>2, FS_CardinalityType
      <4>4. QED
        BY <4>2, <4>3, FS_EmptySet
    <3>2. IsFold(tables, UpToSize(n, 0), h)
      BY <3>1, Zenon DEF IsFold, Step
    <3>3. QED
      BY <2>2, <3>2
  <2>3. CASE k # 0
    <3>1. k - 1 \in Nat /\ (k - 1) + 1 = k /\ k - 1 \notin Fails
      BY <2>1, <2>3
    <3>2. PICK g : IsFold(tables, UpToSize(n, k - 1), g)
      BY <3>1
    <3> DEFINE h == [s \in UpToSize(n, k) |-> Step(tables, s, g)]
    <3>3. \A s \in UpToSize(n, k - 1) : s \in UpToSize(n, k)
      <4>1. ASSUME NEW s \in UpToSize(n, k - 1) PROVE s \in UpToSize(n, k)
        <5>1. s \in SUBSET (1 .. n) /\ Cardinality(s) <= k - 1
          BY DEF UpToSize
        <5>2. IsFiniteSet(1 .. n)
          BY FS_Interval
        <5>3. Cardinality(s) \in Nat
          BY <5>1, <5>2, FS_Subset, FS_CardinalityType
        <5>4. QED
          BY <3>1, <5>1, <5>3 DEF UpToSize
      <4>2. QED
        BY <4>1
    <3>4. \A s \in UpToSize(n, k - 1) : h[s] = g[s]
      BY <3>2, <3>3, Zenon DEF IsFold
    <3>5. ASSUME NEW s \in UpToSize(n, k)
          PROVE  Step(tables, s, g) = Step(tables, s, h)
      <4>1. CASE s = {}
        BY <4>1 DEF Step
      <4>2. CASE s # {}
        <5>1. s \ {Max(s)} \in UpToSize(n, k - 1)
          BY <3>1, <3>5, <4>2, SmallerWithoutMax
        <5>2. h[s \ {Max(s)}] = g[s \ {Max(s)}]
          BY <3>4, <5>1
        <5> HIDE DEF h
        <5>3. QED
          BY <5>2 DEF Step
      <4>3. QED
        BY <4>1, <4>2
    <3>6. h = [s \in UpToSize(n, k) |-> Step(tables, s, h)]
      BY <3>5, Zenon
    <3>7. IsFold(tables, UpToSize(n, k), h)
      BY <3>6 DEF IsFold
    <3>8. QED
      BY <2>1, <3>7
  <2>4. QED
    BY <2>2, <2>3
<1>2. UpToSize(n, n) = SUBSET (1 .. n)
  <2>1. ASSUME NEW s \in SUBSET (1 .. n) PROVE Cardinality(s) <= n
    <3>1. IsFiniteSet(1 .. n) /\ Cardinality(1 .. n) = n
      BY FS_Interval
    <3>2. Cardinality(s) <= Cardinality(1 .. n)
      BY <3>1, FS_Subset, Zenon
    <3>3. QED
      BY <3>1, <3>2
  <2>2. QED
    BY <2>1 DEF UpToSize
<1>3. n \notin Fails
  BY <1>1
<1>4. QED
  BY <1>2, <1>3

(* The list after the first k tables.                                      *)
ListAfter(tables, k) == (CHOOSE h : IsFold(tables, SUBSET DOMAIN tables, h))[1 .. k]

(* The fold adds the tables one after the other.                           *)
LEMMA ListGrows ==
    ASSUME NEW n \in Nat, NEW tables, DOMAIN tables = 1 .. n
    PROVE  /\ grainLookbacks(tables) = ListAfter(tables, n)
           /\ ListAfter(tables, 0) = <<>>
           /\ \A k \in 0 .. n - 1 : ListAfter(tables, k + 1) = AddTable(ListAfter(tables, k), tables[k + 1])
<1> DEFINE fold == CHOOSE h : IsFold(tables, SUBSET (1 .. n), h)
<1>1. IsFold(tables, SUBSET (1 .. n), fold)
  BY FoldExists, Zenon
<1>2. \A k : ListAfter(tables, k) = fold[1 .. k]
  BY DEF ListAfter
<1>3. grainLookbacks(tables) = fold[1 .. n]
  BY FoldIs
<1> HIDE DEF fold
<1>4. \A s \in SUBSET (1 .. n) : fold[s] = Step(tables, s, fold)
  BY <1>1, Zenon DEF IsFold
<1>5. fold[1 .. 0] = <<>>
  <2>1. 1 .. 0 = {} /\ {} \in SUBSET (1 .. n)
    OBVIOUS
  <2>2. QED
    BY <1>4, <2>1 DEF Step
<1>6. ASSUME NEW k \in 0 .. n - 1
      PROVE  fold[1 .. k + 1] = AddTable(fold[1 .. k], tables[k + 1])
  <2>1. /\ 1 .. k + 1 \in SUBSET (1 .. n) /\ 1 .. k + 1 # {}
        /\ k + 1 \in 1 .. k + 1 /\ (1 .. k + 1) \ {k + 1} = 1 .. k
    OBVIOUS
  <2>2. Max(1 .. k + 1) = k + 1
    <3>1. Max(1 .. k + 1) \in 1 .. k + 1 /\ k + 1 <= Max(1 .. k + 1)
      BY <2>1, MaxIsGreatest
    <3>2. QED
      BY <3>1
  <2>3. QED
    BY <1>4, <2>1, <2>2 DEF Step
<1>7. QED
  BY <1>2, <1>3, <1>5, <1>6

(* What the list says of the first k tables.                               *)
Collected(tables, k, out) ==
    /\ out \in Seq(Declared)
    /\ \A j \in 1 .. k : \E i \in 1 .. Len(out) :
          out[i].grain = tables[j].grain /\ out[i].lookback >= tables[j].lookback
    /\ \A i \in 1 .. Len(out) : \E j \in 1 .. k : out[i] = tables[j]
    /\ \A i, j \in 1 .. Len(out) : out[i].grain = out[j].grain => i = j

(* The table that is added has its grain, and all of its lookback.         *)
LEMMA TableIsAdded ==
    ASSUME NEW tables \in Seq(Declared), NEW k \in 0 .. Len(tables) - 1, NEW out, Collected(tables, k, out)
    PROVE  Collected(tables, k + 1, AddTable(out, tables[k + 1]))
<1> DEFINE t == tables[k + 1]
           new == AddTable(out, t)
<1>1. t \in Declared /\ k + 1 \in Nat /\ k \in Nat
  <2>1. Len(tables) \in Nat /\ k + 1 \in 1 .. Len(tables)
    BY LenProperties
  <2>2. QED
    BY <2>1, ElementOfSeq
<1>2. /\ out \in Seq(Declared) /\ Len(out) \in Nat /\ DOMAIN out = 1 .. Len(out)
      /\ \A i \in 1 .. Len(out) : out[i] \in Declared
  BY LenProperties, ElementOfSeq DEF Collected
<1>3. \A j \in 1 .. k + 1 : j \in 1 .. k \/ j = k + 1
  BY <1>1
<1>4. 1 .. k \subseteq 1 .. k + 1 /\ k + 1 \in 1 .. k + 1
  BY <1>1
<1>5. CASE \E i \in DOMAIN out : out[i].grain = t.grain
  <2>1. PICK p \in 1 .. Len(out) : out[p].grain = t.grain
    BY <1>2, <1>5
  <2>2. \A i \in 1 .. Len(out) : out[i].grain = t.grain => i = p
    BY <2>1 DEF Collected
  <2> DEFINE larger == LargerOf(out[p].lookback, t.lookback)
             changed == [out[p] EXCEPT !.lookback = larger]
  <2>3. /\ larger \in Nat \ {0} /\ larger >= t.lookback /\ larger >= out[p].lookback
        /\ larger = t.lookback \/ larger = out[p].lookback
    BY <1>1, <1>2 DEF LargerOf, Declared
  <2>4. changed = t \/ changed = out[p]
    BY <1>1, <1>2, <2>1, <2>3 DEF Declared
  <2>5. changed \in Declared /\ changed.grain = t.grain /\ changed.lookback = larger
    BY <1>1, <1>2, <2>1, <2>3, <2>4 DEF Declared
  <2>6. new = [i \in 1 .. Len(out) |-> IF i = p THEN changed ELSE out[i]]
    <3>1. new = [i \in 1 .. Len(out) |-> IF out[i].grain = t.grain
                  THEN [out[i] EXCEPT !.lookback = LargerOf(out[i].lookback, t.lookback)] ELSE out[i]]
      BY <1>2, <1>5 DEF AddTable
    <3>2. \A i \in 1 .. Len(out) : (out[i].grain = t.grain) = (i = p)
      BY <2>1, <2>2
    <3> HIDE DEF t, new
    <3>3. QED
      BY <3>1, <3>2
  <2> HIDE DEF new, t, changed, larger
  <2>7. Len(new) = Len(out) /\ \A i \in 1 .. Len(out) : new[i] = IF i = p THEN changed ELSE out[i]
    BY <1>2, <2>6
  <2>8. new \in Seq(Declared)
    BY <1>2, <2>5, <2>6
  <2>9. ASSUME NEW j \in 1 .. k + 1
        PROVE  \E i \in 1 .. Len(new) : new[i].grain = tables[j].grain /\ new[i].lookback >= tables[j].lookback
    <3>1. CASE j \in 1 .. k
      <4>1. PICK i \in 1 .. Len(out) : out[i].grain = tables[j].grain /\ out[i].lookback >= tables[j].lookback
        BY <3>1 DEF Collected
      <4>2. CASE i = p
        <5>1. tables[j].lookback \in Nat
          <6>1. j \in 1 .. Len(tables)
            BY <3>1, LenProperties
          <6>2. tables[j] \in Declared
            BY <6>1, ElementOfSeq
          <6>3. QED
            BY <6>2 DEF Declared
        <5>2. out[p].lookback \in Nat
          BY <1>2 DEF Declared
        <5>3. larger >= tables[j].lookback
          BY <2>3, <4>1, <4>2, <5>1, <5>2
        <5>4. QED
          BY <2>1, <2>5, <2>7, <4>1, <4>2, <5>3
      <4>3. CASE i # p
        BY <2>7, <4>1, <4>3
      <4>4. QED
        BY <4>2, <4>3
    <3>2. CASE j = k + 1
      BY <2>3, <2>5, <2>7, <3>2 DEF t
    <3>3. QED
      BY <1>3, <3>1, <3>2
  <2>10. ASSUME NEW i \in 1 .. Len(new) PROVE \E j \in 1 .. k + 1 : new[i] = tables[j]
    <3>1. \A q \in 1 .. Len(out) : \E j \in 1 .. k + 1 : out[q] = tables[j]
      BY <1>4 DEF Collected
    <3>2. QED
      BY <1>4, <2>4, <2>7, <3>1 DEF t
  <2>11. ASSUME NEW i \in 1 .. Len(new), NEW j \in 1 .. Len(new), new[i].grain = new[j].grain
         PROVE  i = j
    <3>1. new[i].grain = out[i].grain /\ new[j].grain = out[j].grain
      BY <2>1, <2>5, <2>7
    <3>2. QED
      BY <2>7, <2>11, <3>1 DEF Collected
  <2>12. QED
    BY <2>8, <2>9, <2>10, <2>11 DEF Collected, new, t
<1>6. CASE ~\E i \in DOMAIN out : out[i].grain = t.grain
  <2>1. new = Append(out, t)
    BY <1>6 DEF AddTable
  <2> HIDE DEF new, t
  <2>2. new \in Seq(Declared) /\ Len(new) = Len(out) + 1
    BY <1>1, <1>2, <2>1, AppendProperties
  <2>3. (\A i \in 1 .. Len(out) : new[i] = out[i]) /\ new[Len(out) + 1] = t
    BY <1>1, <1>2, <2>1, AppendProperties
  <2>4. \A i \in 1 .. Len(new) : i \in 1 .. Len(out) \/ i = Len(out) + 1
    BY <1>2, <2>2
  <2>5. 1 .. Len(out) \subseteq 1 .. Len(new) /\ Len(out) + 1 \in 1 .. Len(new)
    BY <1>2, <2>2
  <2>6. ASSUME NEW j \in 1 .. k + 1
        PROVE  \E i \in 1 .. Len(new) : new[i].grain = tables[j].grain /\ new[i].lookback >= tables[j].lookback
    <3>1. CASE j \in 1 .. k
      <4>1. PICK i \in 1 .. Len(out) : out[i].grain = tables[j].grain /\ out[i].lookback >= tables[j].lookback
        BY <3>1 DEF Collected
      <4>2. QED
        BY <2>3, <2>5, <4>1
    <3>2. CASE j = k + 1
      <4>1. tables[j].lookback >= tables[j].lookback
        BY <1>1, <3>2 DEF Declared, t
      <4>2. QED
        BY <2>3, <2>5, <3>2, <4>1 DEF t
    <3>3. QED
      BY <1>3, <3>1, <3>2
  <2>7. ASSUME NEW i \in 1 .. Len(new) PROVE \E j \in 1 .. k + 1 : new[i] = tables[j]
    <3>1. \A q \in 1 .. Len(out) : \E j \in 1 .. k + 1 : out[q] = tables[j]
      BY <1>4 DEF Collected
    <3>2. QED
      BY <1>4, <2>3, <2>4, <3>1 DEF t
  <2>8. ASSUME NEW i \in 1 .. Len(new), NEW j \in 1 .. Len(new), new[i].grain = new[j].grain
        PROVE  i = j
    <3>1. \A q \in 1 .. Len(out) : out[q].grain # t.grain
      BY <1>2, <1>6
    <3>2. CASE i \in 1 .. Len(out) /\ j \in 1 .. Len(out)
      BY <2>3, <2>8, <3>2 DEF Collected
    <3>3. QED
      BY <2>3, <2>4, <2>8, <3>1, <3>2
  <2>9. QED
    BY <2>2, <2>6, <2>7, <2>8 DEF Collected, new, t
<1>7. QED
  BY <1>5, <1>6

(* Whatever tables a source declares, no one of them reads fewer windows   *)
(* than it asks for (workflow_materialise.go:184: "no table re-extracts    *)
(* fewer windows than it declares").                                       *)
THEOREM NoTableEverReadsLess ==
    ASSUME NEW tables \in Seq(Declared)
    PROVE  NoTableReadsLess(tables)
<1> DEFINE n == Len(tables)
           Fails == {k \in Nat : k <= n /\ ~Collected(tables, k, ListAfter(tables, k))}
<1>1. n \in Nat /\ DOMAIN tables = 1 .. n
  BY LenProperties
<1>2. Fails = {}
  <2> SUFFICES ASSUME Fails # {} PROVE FALSE
    OBVIOUS
  <2>1. PICK k \in Fails : \A m \in Fails : k <= m
    <3>1. Fails \in SUBSET Nat
      OBVIOUS
    <3>2. QED
      BY <3>1, Least
  <2>2. CASE k = 0
    <3>1. ListAfter(tables, 0) = <<>> /\ 1 .. 0 = {}
      BY <1>1, ListGrows
    <3>2. <<>> \in Seq(Declared) /\ Len(<<>>) = 0
      BY EmptySeq
    <3>3. Collected(tables, 0, <<>>)
      BY <3>1, <3>2 DEF Collected
    <3>4. QED
      BY <2>1, <2>2, <3>1, <3>3
  <2>3. CASE k # 0
    <3>1. k - 1 \in 0 .. n - 1 /\ (k - 1) + 1 = k /\ k - 1 \notin Fails
      BY <1>1, <2>1, <2>3
    <3>2. Collected(tables, k - 1, ListAfter(tables, k - 1))
      BY <1>1, <3>1
    <3>3. ListAfter(tables, k) = AddTable(ListAfter(tables, k - 1), tables[k])
      BY <1>1, <3>1, ListGrows
    <3>4. Collected(tables, k, AddTable(ListAfter(tables, k - 1), tables[k]))
      BY <3>1, <3>2, TableIsAdded
    <3>5. QED
      BY <2>1, <3>3, <3>4
  <2>4. QED
    BY <2>2, <2>3
<1>3. Collected(tables, n, grainLookbacks(tables))
  <2>1. n \notin Fails
    BY <1>2
  <2>2. grainLookbacks(tables) = ListAfter(tables, n)
    BY <1>1, ListGrows
  <2>3. QED
    BY <1>1, <2>1, <2>2
<1> DEFINE out == grainLookbacks(tables)
<1> HIDE DEF out, n
<1>4. Collected(tables, n, out)
  BY <1>3 DEF out
<1>5. DOMAIN out = 1 .. Len(out)
  BY <1>4, LenProperties DEF Collected
<1>6. \A t \in ToSet(tables) : \E i \in DOMAIN out : out[i].grain = t.grain /\ out[i].lookback >= t.lookback
  <2> TAKE t \in ToSet(tables)
  <2>1. PICK j \in 1 .. n : t = tables[j]
    BY <1>1, Zenon DEF ToSet
  <2>2. PICK i \in 1 .. Len(out) : out[i].grain = tables[j].grain /\ out[i].lookback >= tables[j].lookback
    BY <1>4, Zenon DEF Collected
  <2>3. QED
    BY <1>5, <2>1, <2>2
<1>7. ToSet(out) \subseteq ToSet(tables)
  <2>1. ASSUME NEW i \in 1 .. Len(out) PROVE out[i] \in ToSet(tables)
    <3>1. PICK j \in 1 .. n : out[i] = tables[j]
      BY <1>4, Zenon DEF Collected
    <3>2. QED
      BY <1>1, <3>1, Zenon DEF ToSet
  <2>2. \A t \in ToSet(out) : \E i \in 1 .. Len(out) : t = out[i]
    BY <1>5, Zenon DEF ToSet
  <2>3. QED
    BY <2>1, <2>2
<1>8. \A i, j \in DOMAIN out : out[i].grain = out[j].grain => i = j
  BY <1>4, <1>5 DEF Collected
<1>9. QED
  BY <1>6, <1>7, <1>8 DEF NoTableReadsLess, out

-----------------------------------------------------------------------------

(* The windows of a lookback are those of a backfill of its dates, so what *)
(* the schedule wrote a backfill replaces, and the other way round.        *)
THEOREM BackfillAlwaysHasLookback ==
    ASSUME NEW now \in Int, NEW g \in Grain, NEW n \in Int, ~LookbackRefused(n)
    PROVE  BackfillHasLookback(now, g, n)
<1> DEFINE d == Duration(g)
           q == now \div d
           ws == Lookback(now, g, n)
           range == DateRange(ws[1].start, now, g)
<1>1. d \in Nat \ {0} /\ q \in Int /\ n \in Nat \ {0} /\ q * d \in Int /\ q * d <= now
  BY DurationType, Quotient DEF LookbackRefused
<1>2. ASSUME NEW i \in 1 .. n
      PROVE  /\ q - (n - i) \in Int /\ q - (n - i) <= q
             /\ ws[i] = WindowAt((q - (n - i)) * d, g)
             /\ ws[i].start = (q - (n - i)) * d
  <2>1. q - (n - i) \in Int /\ q - (n - i) <= q
    BY <1>1
  <2>2. ws[i] = WindowAt((q - (n - i)) * d, g)
    BY <1>1, <1>2, LookbackWindow
  <2>3. QED
    BY <2>1, <2>2 DEF WindowAt
<1> HIDE DEF d, q, ws
<1>3. \A a, b \in Int : a <= b => a * d \in Int /\ b * d \in Int /\ a * d <= b * d
  <2> TAKE a, b \in Int
  <2>1. a * d \in Int /\ b * d \in Int /\ (b > a => b * d >= a * d + d)
    BY <1>1, Multiples
  <2>2. QED
    BY <1>1, <2>1
<1> DEFINE s == ws[1].start
<1>4. 1 \in 1 .. n /\ s \in Int /\ s <= now
  <2>1. 1 \in 1 .. n
    BY <1>1
  <2>2. s = (q - (n - 1)) * d /\ q - (n - 1) \in Int /\ q - (n - 1) <= q
    BY <1>2, <2>1
  <2>3. s \in Int /\ s <= q * d
    BY <1>1, <1>3, <2>2
  <2>4. QED
    BY <1>1, <2>1, <2>3
<1> HIDE DEF s
<1>5. /\ Date(s) \in Int /\ Date(now) \in Int /\ Date(s) <= s /\ Date(s) <= Date(now)
      /\ now < Date(now) + DayLength
  <2> DEFINE a == s \div DayLength
             b == now \div DayLength
  <2>1. a \in Int /\ b \in Int /\ Date(s) = a * DayLength /\ Date(now) = b * DayLength
    BY <1>1, <1>4, DayLengthType, Quotient, TruncateIs DEF Date
  <2>2. a * DayLength \in Int /\ b * DayLength \in Int /\ a * DayLength <= s /\ now < b * DayLength + DayLength
    BY <1>1, <1>4, DayLengthType, Quotient
  <2> HIDE DEF a, b
  <2>3. ~(a > b)
    <3>1. ASSUME a > b PROVE a * DayLength >= b * DayLength + DayLength
      BY <2>1, <3>1, DayLengthType, Multiples
    <3>2. QED
      BY <1>4, <2>2, <3>1, DayLengthType
  <2>4. a * DayLength <= b * DayLength
    <3>1. ASSUME b > a PROVE b * DayLength >= a * DayLength + DayLength
      BY <2>1, <3>1, DayLengthType, Multiples
    <3>2. QED
      BY <2>1, <2>2, <2>3, <3>1, DayLengthType
  <2>5. QED
    BY <2>1, <2>2, <2>4
<1>6. ~RangeRefused(s, now, g)
  BY <1>5 DEF RangeRefused
<1>7. ASSUME NEW i \in 1 .. n
      PROVE  \E j \in DOMAIN range : ws[i] = range[j]
  <2> DEFINE p == q - (n - i)
             t == p * d
  <2>1. p \in Int /\ p <= q /\ t \in Int /\ t <= q * d
    BY <1>1, <1>2, <1>3
  <2>2. s <= t
    <3>1. q - (n - 1) <= q - (n - i) /\ q - (n - 1) \in Int
      BY <1>1
    <3>2. s = (q - (n - 1)) * d
      BY <1>2, <1>4 DEF s
    <3>3. QED
      BY <1>2, <1>3, <3>1, <3>2
  <2>3. Date(s) <= t /\ t < Date(now) + DayLength
    <3> HIDE DEF t
    <3>1. QED
      BY <1>1, <1>4, <1>5, <2>1, <2>2, DayLengthType
  <2>4. Containing(t, g) = ws[i]
    <3>1. t \div d = p
      BY <1>1, <2>1, OneQuotient
    <3>2. Containing(t, g) = WindowAt((t \div d) * d, g)
      BY <2>1, ContainingIs DEF d
    <3>3. QED
      BY <1>2, <3>1, <3>2
  <2> HIDE DEF t, p
  <2>5. RangeCoversDates(s, now, g, t)
    BY <1>1, <1>4, <1>6, <2>1, RangeAlwaysCoversDates
  <2>6. \E j \in DOMAIN range : range[j] = Containing(t, g)
    BY <2>3, <2>5 DEF RangeCoversDates, s
  <2>7. QED
    BY <2>4, <2>6
<1>8. QED
  BY <1>7 DEF BackfillHasLookback, ws

-----------------------------------------------------------------------------
(* Mentions: what the search of a text finds.                              *)

(* What is no word character ends a run of them.                           *)
LEMMA NoCharacterIsEnd ==
    /\ "end" \notin Lower \cup Digit /\ "end" \notin Digit /\ "end" \notin Word
    /\ "." \notin Lower \cup Digit /\ "." \notin Digit /\ "." \notin Word
    /\ Digit \subseteq Word /\ Lower \cup Digit \subseteq Word
BY CharactersAssumption DEF Word

(* The characters of a text, and its end.                                  *)
LEMMA AtIs ==
    ASSUME NEW C, NEW text \in Seq(C)
    PROVE  /\ Len(text) \in Nat /\ DOMAIN text = 1 .. Len(text)
           /\ \A i \in 1 .. Len(text) : At(text, i) = text[i]
           /\ \A i \in Int : i \notin 1 .. Len(text) => At(text, i) = "end"
BY LenProperties DEF At

(* A run of characters ends where the first other one is.                  *)
LEMMA RunFromIs ==
    ASSUME NEW C, NEW text \in Seq(C), NEW chars, "end" \notin chars, NEW i \in 1 .. Len(text) + 1
    PROVE  LET e == RunFrom(text, i, chars) IN
           /\ e \in i .. Len(text) + 1
           /\ At(text, e) \notin chars
           /\ \A j \in i .. e - 1 : text[j] \in chars
<1> DEFINE L == Len(text)
           S == {e \in i .. L + 1 : At(text, e) \notin chars}
<1>1. L \in Nat /\ \A j \in 1 .. L : At(text, j) = text[j]
  BY AtIs
<1>2. L + 1 \in S /\ S \in SUBSET Nat
  <2>1. L + 1 \notin 1 .. L /\ L + 1 \in Int /\ L + 1 \in i .. L + 1
    BY <1>1
  <2>2. At(text, L + 1) = "end"
    BY <2>1, AtIs
  <2>3. QED
    BY <1>1, <2>1, <2>2
<1>3. PICK e \in S : \A m \in S : e <= m
  BY <1>2, Least
<1>4. \A j \in i .. e - 1 : text[j] \in chars
  <2> TAKE j \in i .. e - 1
  <2>1. j \in 1 .. L /\ j \in i .. L + 1 /\ ~(e <= j)
    BY <1>1, <1>3
  <2>2. QED
    BY <1>1, <1>3, <2>1
<1>5. \E x \in i .. L + 1 : At(text, x) \notin chars /\ \A j \in i .. x - 1 : text[j] \in chars
  BY <1>3, <1>4
<1>6. QED
  BY <1>5, Zenon DEF RunFrom

(* ... and the only place like that.                                       *)
LEMMA RunFromIsOnly ==
    ASSUME NEW C, NEW text \in Seq(C), NEW chars, "end" \notin chars, NEW i \in 1 .. Len(text) + 1,
           NEW e \in i .. Len(text) + 1, At(text, e) \notin chars, \A j \in i .. e - 1 : text[j] \in chars
    PROVE  RunFrom(text, i, chars) = e
<1> DEFINE r == RunFrom(text, i, chars)
<1>1. r \in i .. Len(text) + 1 /\ At(text, r) \notin chars /\ \A j \in i .. r - 1 : text[j] \in chars
  BY RunFromIs
<1>2. Len(text) \in Nat /\ \A j \in 1 .. Len(text) : At(text, j) = text[j]
  BY AtIs
<1> HIDE DEF r
<1>3. ~(e < r)
  BY <1>1, <1>2
<1>4. ~(r < e)
  BY <1>1, <1>2
<1>5. r = e
  BY <1>1, <1>2, <1>3, <1>4
<1>6. QED
  BY <1>5 DEF r

-----------------------------------------------------------------------------
(* Both recursive functions are chains: what is found at a place, and what *)
(* the next place it goes to finds, if it goes anywhere.                   *)

Link(found, next, i, h) == found[i] \cup (IF next[i] = 0 THEN {} ELSE h[next[i]])

(* A chain that only goes on has a function: what TLA+ defines recursively *)
(* exists.                                                                 *)
LEMMA ChainExists ==
    ASSUME NEW N \in Nat, NEW found, NEW next \in [1 .. N -> 0 .. N],
           \A i \in 1 .. N : next[i] = 0 \/ next[i] > i
    PROVE  \E h : h = [i \in 1 .. N |-> Link(found, next, i, h)]
<1> DEFINE Fails == {m \in 1 .. N + 1 : ~\E h : h = [i \in m .. N |-> Link(found, next, i, h)]}
<1>1. Fails = {}
  <2> SUFFICES ASSUME Fails # {} PROVE FALSE
    OBVIOUS
  <2>1. PICK m \in Fails : \A x \in Fails : x <= m
    <3>1. Fails \in SUBSET Nat /\ N + 1 \in Nat /\ \A x \in Fails : x <= N + 1
      OBVIOUS
    <3>2. QED
      BY <3>1, Greatest
  <2>2. CASE m = N + 1
    <3>1. m .. N = {}
      BY <2>2
    <3> DEFINE h == [i \in m .. N |-> {}]
    <3>2. h = [i \in m .. N |-> Link(found, next, i, h)]
      BY <3>1, Zenon
    <3>3. QED
      BY <2>1, <3>2
  <2>3. CASE m # N + 1
    <3>1. m + 1 \in 1 .. N + 1 /\ m + 1 \notin Fails
      <4>1. m \in 1 .. N + 1 /\ m + 1 \in 1 .. N + 1 /\ ~(m + 1 <= m)
        BY <2>1, <2>3
      <4> HIDE DEF Fails
      <4>2. QED
        BY <2>1, <4>1
    <3>2. PICK g : g = [i \in m + 1 .. N |-> Link(found, next, i, g)]
      BY <3>1
    <3> DEFINE h == [i \in m .. N |-> Link(found, next, i, g)]
    <3>3. \A i \in m + 1 .. N : i \in m .. N
      BY <2>1
    <3>4. \A i \in m + 1 .. N : h[i] = g[i]
      BY <3>2, <3>3, Zenon
    <3>5. ASSUME NEW i \in m .. N PROVE Link(found, next, i, g) = Link(found, next, i, h)
      <4>1. next[i] = 0 \/ next[i] \in m + 1 .. N
        BY <2>1
      <4> HIDE DEF h
      <4>2. QED
        BY <3>4, <4>1 DEF Link
    <3>6. h = [i \in m .. N |-> Link(found, next, i, h)]
      BY <3>5, Zenon
    <3>7. QED
      BY <2>1, <3>6
  <2>4. QED
    BY <2>2, <2>3
<1>2. 1 \notin Fails /\ 1 \in 1 .. N + 1
  BY <1>1
<1>3. QED
  BY <1>2

-----------------------------------------------------------------------------

(* A group of the id starts at e.                                          *)
GroupAt(text, e) == At(text, e) = "." /\ At(text, e + 1) \in Digit

(* The recursive function of GroupEnds.                                    *)
IsGroupEnds(text, h) ==
    h = [e \in 1 .. Len(text) + 1 |-> {e} \cup IF At(text, e) = "." /\ At(text, e + 1) \in Digit
                                                 THEN h[RunFrom(text, e + 1, Digit)] ELSE {}]

(* GroupEnds is the value of its recursive function at i.                  *)
LEMMA GroupEndsIs ==
    ASSUME NEW text, NEW i
    PROVE  GroupEnds(text, i) = (CHOOSE h : IsGroupEnds(text, h))[i]
BY DEF GroupEnds, IsGroupEnds

(* After a group is another place of the text, or its end.                 *)
LEMMA AfterGroup ==
    ASSUME NEW C, NEW text \in Seq(C), NEW e \in 1 .. Len(text) + 1, GroupAt(text, e)
    PROVE  /\ e + 1 \in 1 .. Len(text)
           /\ RunFrom(text, e + 1, Digit) \in e + 2 .. Len(text) + 1
<1> DEFINE L == Len(text)
           r == RunFrom(text, e + 1, Digit)
<1>1. L \in Nat /\ (\A j \in 1 .. L : At(text, j) = text[j]) /\ e + 1 \in Int
  BY AtIs
<1>2. e + 1 \in 1 .. L
  <2>1. At(text, e + 1) # "end"
    BY NoCharacterIsEnd DEF GroupAt
  <2>2. QED
    BY <1>1, <2>1, AtIs
<1>3. r \in e + 1 .. L + 1 /\ At(text, r) \notin Digit
  <2>1. e + 1 \in 1 .. L + 1
    BY <1>1, <1>2
  <2>2. QED
    BY <2>1, NoCharacterIsEnd, RunFromIs
<1>4. r # e + 1
  BY <1>3 DEF GroupAt
<1>5. QED
  BY <1>1, <1>2, <1>3, <1>4

(* The recursion of GroupEnds.                                             *)
LEMMA GroupEndsUnfold ==
    ASSUME NEW C, NEW text \in Seq(C), NEW e \in 1 .. Len(text) + 1
    PROVE  GroupEnds(text, e) =
             {e} \cup IF GroupAt(text, e) THEN GroupEnds(text, RunFrom(text, e + 1, Digit)) ELSE {}
<1> DEFINE N == Len(text) + 1
           found == [i \in 1 .. N |-> {i}]
           next == [i \in 1 .. N |-> IF GroupAt(text, i) THEN RunFrom(text, i + 1, Digit) ELSE 0]
           h == CHOOSE h : IsGroupEnds(text, h)
<1>1. N \in Nat /\ 0 \in 0 .. N
  BY AtIs
<1>2. ASSUME NEW i \in 1 .. N
      PROVE  next[i] \in 0 .. N /\ (next[i] = 0 \/ next[i] > i)
  <2>1. CASE GroupAt(text, i)
    <3>1. next[i] = RunFrom(text, i + 1, Digit) /\ next[i] \in i + 2 .. N
      BY <1>2, <2>1, AfterGroup
    <3>2. QED
      BY <1>1, <3>1
  <2>2. CASE ~GroupAt(text, i)
    BY <1>1, <2>2
  <2>3. QED
    BY <2>1, <2>2
<1>3. next \in [1 .. N -> 0 .. N]
  BY <1>2
<1> HIDE DEF N
<1>4. PICK g : g = [i \in 1 .. N |-> Link(found, next, i, g)]
  BY <1>1, <1>2, <1>3, ChainExists
<1>5. ASSUME NEW i \in 1 .. N
      PROVE  Link(found, next, i, g) = {i} \cup IF At(text, i) = "." /\ At(text, i + 1) \in Digit
                                                 THEN g[RunFrom(text, i + 1, Digit)] ELSE {}
  <2>1. found[i] = {i}
    OBVIOUS
  <2>2. CASE GroupAt(text, i)
    <3>1. next[i] = RunFrom(text, i + 1, Digit) /\ next[i] # 0
      BY <1>2, <2>2, AfterGroup DEF N
    <3> HIDE DEF found, next
    <3>2. QED
      BY <2>1, <2>2, <3>1 DEF Link, GroupAt
  <2>3. CASE ~GroupAt(text, i)
    <3>1. next[i] = 0
      BY <2>3
    <3> HIDE DEF found, next
    <3>2. QED
      BY <2>1, <2>3, <3>1 DEF Link, GroupAt
  <2>4. QED
    BY <2>2, <2>3
<1>6. IsGroupEnds(text, g)
  <2> HIDE DEF found, next
  <2>1. QED
    BY <1>4, <1>5, Zenon DEF IsGroupEnds, N
<1>7. IsGroupEnds(text, h)
  BY <1>6, Zenon
<1> HIDE DEF h
<1>8. h[e] = {e} \cup IF GroupAt(text, e) THEN h[RunFrom(text, e + 1, Digit)] ELSE {}
  BY <1>7, Zenon DEF IsGroupEnds, GroupAt
<1>9. QED
  BY <1>8, GroupEndsIs DEF h

(* Dotted numbers from b to e.                                             *)
Groups(text, b, e) ==
    /\ e \in b .. Len(text) + 1
    /\ \A j \in b .. e - 1 : text[j] \in Digit \cup {"."}
    /\ \A j \in b .. e - 1 : text[j] = "." => j + 1 <= e - 1 /\ text[j + 1] \in Digit
    /\ b < e => text[b] = "."

(* Every end that is found ends dotted numbers ...                         *)
LEMMA GroupEndsAreGroups ==
    ASSUME NEW C, NEW text \in Seq(C)
    PROVE  \A b \in 1 .. Len(text) + 1 : \A e \in GroupEnds(text, b) : Groups(text, b, e)
<1> DEFINE N == Len(text) + 1
           Fails == {b \in 1 .. N : ~\A e \in GroupEnds(text, b) : Groups(text, b, e)}
<1>1. N \in Nat /\ \A j \in 1 .. Len(text) : At(text, j) = text[j]
  BY AtIs
<1>2. SUFFICES ASSUME Fails # {} PROVE FALSE
  OBVIOUS
<1>3. PICK b \in Fails : \A x \in Fails : x <= b
  <2>1. Fails \in SUBSET Nat /\ \A x \in Fails : x <= N
    BY <1>1
  <2>2. QED
    BY <1>1, <1>2, <2>1, Greatest
<1>4. PICK e \in GroupEnds(text, b) : ~Groups(text, b, e)
  BY <1>3
<1>5. e = b \/ (GroupAt(text, b) /\ e \in GroupEnds(text, RunFrom(text, b + 1, Digit)))
  <2>1. GroupEnds(text, b) = {b} \cup IF GroupAt(text, b) THEN GroupEnds(text, RunFrom(text, b + 1, Digit)) ELSE {}
    BY <1>3, GroupEndsUnfold
  <2>2. QED
    BY <1>4, <2>1
<1>6. CASE e = b
  <2>1. b \in b .. Len(text) + 1 /\ b .. b - 1 = {} /\ ~(b < b)
    BY <1>1, <1>3
  <2>2. QED
    BY <1>4, <1>6, <2>1 DEF Groups
<1>7. CASE GroupAt(text, b) /\ e \in GroupEnds(text, RunFrom(text, b + 1, Digit))
  <2> DEFINE r == RunFrom(text, b + 1, Digit)
  <2>1. b + 1 \in 1 .. Len(text) /\ r \in b + 2 .. N
    BY <1>3, <1>7, AfterGroup
  <2>2. \A j \in b + 1 .. r - 1 : text[j] \in Digit
    <3>1. b + 1 \in 1 .. Len(text) + 1
      BY <1>1, <2>1
    <3>2. QED
      BY <3>1, NoCharacterIsEnd, RunFromIs
  <2> HIDE DEF r
  <2>3. Groups(text, r, e)
    <3>1. r \in 1 .. N /\ ~(r <= b)
      BY <1>1, <1>3, <2>1
    <3>2. r \notin Fails
      BY <1>3, <3>1
    <3>3. QED
      BY <1>7, <3>1, <3>2 DEF r
  <2>4. b \in 1 .. Len(text) /\ text[b] = "." /\ text[b + 1] \in Digit
    <3>1. b \in 1 .. Len(text)
      BY <1>1, <1>3, <2>1
    <3>2. QED
      BY <1>1, <1>7, <2>1, <3>1 DEF GroupAt
  <2>5. e \in r .. N /\ e \in b .. N
    BY <1>1, <2>1, <2>3, <2>4 DEF Groups
  <2>6. \A j \in b .. e - 1 : j = b \/ j \in b + 1 .. r - 1 \/ j \in r .. e - 1
    BY <1>1, <2>1, <2>4, <2>5
  <2>7. \A j \in b .. e - 1 : text[j] \in Digit \cup {"."}
    BY <2>2, <2>3, <2>4, <2>6 DEF Groups
  <2>8. \A j \in b .. e - 1 : text[j] = "." => j + 1 <= e - 1 /\ text[j + 1] \in Digit
    <3> TAKE j \in b .. e - 1
    <3>1. CASE j = b
      BY <1>1, <2>1, <2>4, <2>5, <3>1
    <3>2. CASE j \in b + 1 .. r - 1
      BY <2>2, <3>2, NoCharacterIsEnd
    <3>3. CASE j \in r .. e - 1
      BY <2>3, <3>3 DEF Groups
    <3>4. QED
      BY <2>6, <3>1, <3>2, <3>3
  <2>9. QED
    BY <1>4, <2>4, <2>5, <2>7, <2>8 DEF Groups
<1>8. QED
  BY <1>5, <1>6, <1>7

(* ... and where dotted numbers end is found.                              *)
LEMMA GroupsAreGroupEnds ==
    ASSUME NEW C, NEW text \in Seq(C)
    PROVE  \A b \in 1 .. Len(text) + 1 : \A e :
              Groups(text, b, e) /\ At(text, e) \notin Digit => e \in GroupEnds(text, b)
<1> DEFINE N == Len(text) + 1
           Fails == {b \in 1 .. N : ~\A e : Groups(text, b, e) /\ At(text, e) \notin Digit => e \in GroupEnds(text, b)}
<1>1. N \in Nat /\ \A j \in 1 .. Len(text) : At(text, j) = text[j]
  BY AtIs
<1>2. SUFFICES ASSUME Fails # {} PROVE FALSE
  OBVIOUS
<1>3. PICK b \in Fails : \A x \in Fails : x <= b
  <2>1. Fails \in SUBSET Nat /\ \A x \in Fails : x <= N
    BY <1>1
  <2>2. QED
    BY <1>1, <1>2, <2>1, Greatest
<1>4. PICK e : Groups(text, b, e) /\ At(text, e) \notin Digit /\ e \notin GroupEnds(text, b)
  BY <1>3
<1>5. GroupEnds(text, b) = {b} \cup IF GroupAt(text, b) THEN GroupEnds(text, RunFrom(text, b + 1, Digit)) ELSE {}
  BY <1>3, GroupEndsUnfold
<1>6. b \in 1 .. N /\ e \in b .. N /\ b < e
  <2>1. b \in 1 .. N /\ e \in b .. N /\ e # b
    BY <1>3, <1>4, <1>5 DEF Groups
  <2>2. QED
    BY <1>1, <2>1
<1>7. /\ b \in 1 .. Len(text) /\ b + 1 \in 1 .. Len(text) /\ b + 1 <= e - 1
      /\ text[b] = "." /\ text[b + 1] \in Digit /\ GroupAt(text, b)
  <2>1. b \in b .. e - 1 /\ b \in 1 .. Len(text)
    BY <1>1, <1>6
  <2>2. text[b] = "." /\ b + 1 <= e - 1 /\ text[b + 1] \in Digit
    BY <1>4, <1>6, <2>1 DEF Groups
  <2>3. b + 1 \in 1 .. Len(text)
    BY <1>1, <1>6, <2>2
  <2>4. QED
    BY <1>1, <2>1, <2>2, <2>3 DEF GroupAt
<1> DEFINE r == RunFrom(text, b + 1, Digit)
<1>8. r \in b + 2 .. N /\ At(text, r) \notin Digit /\ \A j \in b + 1 .. r - 1 : text[j] \in Digit
  <2>1. b + 1 \in 1 .. Len(text) + 1
    BY <1>1, <1>7
  <2>2. QED
    BY <1>6, <1>7, <2>1, NoCharacterIsEnd, RunFromIs, AfterGroup
<1> HIDE DEF r
<1>9. r <= e
  <2>1. ASSUME e < r PROVE FALSE
    <3>1. e \in b + 1 .. r - 1 /\ e \in 1 .. Len(text)
      BY <1>1, <1>6, <1>7, <1>8, <2>1
    <3>2. QED
      BY <1>1, <1>4, <1>8, <3>1
  <2>2. QED
    BY <1>1, <1>6, <1>8, <2>1
<1>10. Groups(text, r, e)
  <2>1. e \in r .. N /\ \A j \in r .. e - 1 : j \in b .. e - 1
    BY <1>1, <1>6, <1>8, <1>9
  <2>2. ASSUME r < e PROVE text[r] = "."
    <3>1. r \in b .. e - 1 /\ r \in 1 .. Len(text)
      BY <1>1, <1>6, <1>8, <2>2
    <3>2. QED
      BY <1>1, <1>4, <1>8, <3>1 DEF Groups
  <2>3. QED
    BY <1>4, <2>1, <2>2 DEF Groups
<1>11. r \notin Fails /\ r \in 1 .. N
  <2>1. r \in 1 .. N /\ ~(r <= b)
    BY <1>1, <1>6, <1>8
  <2> HIDE DEF Fails
  <2>2. QED
    BY <1>3, <2>1
<1>12. e \in GroupEnds(text, r)
  BY <1>4, <1>10, <1>11
<1>13. QED
  BY <1>4, <1>5, <1>7, <1>12 DEF r

-----------------------------------------------------------------------------
(* The matches of the pattern are the ids between two boundaries.          *)

(* An id of one of the prefixes, from i to e, with its "-" at k and its    *)
(* letters and digits up to b.                                             *)
IDParts(text, prefixes, i, e, k, b) ==
    /\ k \in i .. e - 2 /\ b \in k + 2 .. e
    /\ text[k] = "-" /\ SubSeq(text, i, k - 1) \in prefixes
    /\ \A j \in k + 1 .. b - 1 : text[j] \in Lower \cup Digit
    /\ Groups(text, b, e)

IDAt(text, prefixes, i, e) == \E k, b : IDParts(text, prefixes, i, e, k, b)

(* A part of a text, character by character.                               *)
LEMMA SubSeqIs ==
    ASSUME NEW C, NEW text \in Seq(C), NEW i \in 1 .. Len(text) + 1, NEW e \in i .. Len(text) + 1
    PROVE  LET s == SubSeq(text, i, e - 1) IN
           /\ s \in Seq(C) /\ Len(s) = e - i /\ DOMAIN s = 1 .. e - i
           /\ \A j \in 1 .. e - i : s[j] = text[i + j - 1]
           /\ \A j \in i .. e - 1 : text[j] = s[j - i + 1]
<1> DEFINE s == SubSeq(text, i, e - 1)
<1>1. Len(text) \in Nat /\ i \in Int /\ e - 1 \in Int /\ i <= e
  BY LenProperties
<1>2. \A j \in i .. e - 1 : text[j] \in C
  <2> TAKE j \in i .. e - 1
  <2>1. j \in 1 .. Len(text)
    BY <1>1
  <2>2. QED
    BY <2>1, ElementOfSeq
<1>3. /\ s \in Seq(C)
      /\ Len(s) = IF i <= e - 1 THEN (e - 1) - i + 1 ELSE 0
      /\ \A j \in 1 .. (e - 1) - i + 1 : s[j] = text[i + j - 1]
  <2> DEFINE z == e - 1
  <2>1. i \in Int /\ z \in Int /\ \A j \in i .. z : text[j] \in C
    BY <1>1, <1>2
  <2> HIDE DEF z
  <2>2. SubSeq(text, i, z) \in Seq(C)
    BY <2>1, SubSeqProperties, Zenon
  <2>3. Len(SubSeq(text, i, z)) = IF i <= z THEN z - i + 1 ELSE 0
    BY <2>1, SubSeqProperties, Zenon
  <2>4. \A j \in 1 .. z - i + 1 : SubSeq(text, i, z)[j] = text[i + j - 1]
    BY <2>1, SubSeqProperties
  <2>5. QED
    BY <2>2, <2>3, <2>4 DEF z
<1> HIDE DEF s
<1>4. Len(s) = e - i /\ (e - 1) - i + 1 = e - i
  BY <1>1, <1>3
<1>5. DOMAIN s = 1 .. e - i
  BY <1>3, <1>4, LenProperties
<1>6. \A j \in 1 .. e - i : s[j] = text[i + j - 1]
  BY <1>3, <1>4
<1>7. \A j \in i .. e - 1 : text[j] = s[j - i + 1]
  <2> TAKE j \in i .. e - 1
  <2>1. j - i + 1 \in 1 .. e - i /\ i + (j - i + 1) - 1 = j
    BY <1>1
  <2>2. QED
    BY <1>6, <2>1
<1>8. QED
  BY <1>3, <1>4, <1>5, <1>6, <1>7 DEF s

(* A part of a part.                                                       *)
LEMMA SubSeqOfSubSeqIs ==
    ASSUME NEW C, NEW text \in Seq(C), NEW i \in 1 .. Len(text) + 1, NEW e \in i .. Len(text) + 1,
           NEW k \in 1 .. e - i
    PROVE  SubSeq(SubSeq(text, i, e - 1), 1, k - 1) = SubSeq(text, i, i + k - 2)
<1> DEFINE s == SubSeq(text, i, e - 1)
           p == SubSeq(s, 1, k - 1)
           q == SubSeq(text, i, i + k - 2)
<1>1. Len(text) \in Nat /\ i \in Nat /\ e \in Nat /\ k \in Nat
  BY LenProperties
<1>2. /\ s \in Seq(C) /\ Len(s) = e - i
      /\ \A j \in 1 .. e - i : s[j] = text[i + j - 1]
  BY SubSeqIs
<1>3. /\ q \in Seq(C) /\ Len(q) = k - 1
      /\ \A j \in 1 .. k - 1 : q[j] = text[i + j - 1]
  <2>1. i + k - 1 \in i .. Len(text) + 1 /\ (i + k - 1) - 1 = i + k - 2 /\ (i + k - 1) - i = k - 1
    BY <1>1
  <2> DEFINE y == i + k - 1
  <2>2. y \in i .. Len(text) + 1 /\ y - 1 = i + k - 2 /\ y - i = k - 1
    BY <2>1
  <2> HIDE DEF y
  <2>3. /\ SubSeq(text, i, y - 1) \in Seq(C)
        /\ Len(SubSeq(text, i, y - 1)) = y - i
        /\ \A j \in 1 .. y - i : SubSeq(text, i, y - 1)[j] = text[i + j - 1]
    BY <2>2, SubSeqIs
  <2>4. QED
    BY <2>2, <2>3
<1> HIDE DEF s
<1>4. /\ p \in Seq(C) /\ Len(p) = k - 1
      /\ \A j \in 1 .. k - 1 : p[j] = s[j]
  <2>1. k \in 1 .. Len(s) + 1 /\ 1 \in 1 .. Len(s) + 1
    BY <1>1, <1>2
  <2>2. /\ p \in Seq(C) /\ Len(p) = k - 1
        /\ \A j \in 1 .. k - 1 : p[j] = s[1 + j - 1]
    BY <1>2, <2>1, SubSeqIs
  <2>3. \A j \in 1 .. k - 1 : 1 + j - 1 = j
    BY <1>1
  <2>4. QED
    BY <2>2, <2>3
<1> HIDE DEF p, q
<1>5. \A j \in 1 .. k - 1 : p[j] = q[j]
  BY <1>1, <1>2, <1>3, <1>4
<1>6. p = q
  BY <1>3, <1>4, <1>5, SeqEqual
<1>7. QED
  BY <1>6 DEF p, q, s

(* A part of a text that is an id, in terms of the places in the text.     *)
LEMMA IsIDIs ==
    ASSUME NEW C, NEW text \in Seq(C), NEW prefixes,
           NEW i \in 1 .. Len(text), NEW e \in 2 .. Len(text) + 1, i < e
    PROVE  IsID(SubSeq(text, i, e - 1), prefixes) <=> IDAt(text, prefixes, i, e)
<1> DEFINE s == SubSeq(text, i, e - 1)
<1>1. Len(text) \in Nat /\ i \in Nat /\ e \in Nat /\ i \in 1 .. Len(text) + 1 /\ e \in i .. Len(text) + 1
  BY LenProperties
<1>2. /\ s \in Seq(C) /\ Len(s) = e - i /\ DOMAIN s = 1 .. e - i
      /\ \A j \in 1 .. e - i : s[j] = text[i + j - 1]
      /\ \A j \in i .. e - 1 : text[j] = s[j - i + 1]
  BY <1>1, SubSeqIs
<1>3. \A k \in 1 .. e - i : SubSeq(s, 1, k - 1) = SubSeq(text, i, i + k - 2)
  BY <1>1, SubSeqOfSubSeqIs
<1> HIDE DEF s
<1>4. ASSUME IsID(s, prefixes) PROVE IDAt(text, prefixes, i, e)
  <2>1. PICK x \in 1 .. e - i :
           /\ s[x] = "-" /\ SubSeq(s, 1, x - 1) \in prefixes
           /\ \E n \in x + 1 .. Len(s) :
                 /\ \A j \in x + 1 .. n : s[j] \in Lower \cup Digit
                 /\ \A j \in n + 1 .. Len(s) : s[j] \in Digit \cup {"."}
                 /\ \A j \in n + 1 .. Len(s) : s[j] = "." => At(s, j + 1) \in Digit
                 /\ n < Len(s) => s[n + 1] = "."
    BY <1>2, <1>4 DEF IsID
  <2>2. PICK n \in x + 1 .. e - i :
           /\ \A j \in x + 1 .. n : s[j] \in Lower \cup Digit
           /\ \A j \in n + 1 .. e - i : s[j] \in Digit \cup {"."}
           /\ \A j \in n + 1 .. e - i : s[j] = "." => At(s, j + 1) \in Digit
           /\ n < e - i => s[n + 1] = "."
    BY <1>2, <2>1
  <2> DEFINE k == i + x - 1
             b == i + n
  <2>3. /\ k \in i .. e - 2 /\ b \in k + 2 .. e /\ b \in Nat /\ k \in Nat
        /\ k - i + 1 = x /\ b - i + 1 = n + 1 /\ k - 1 = i + x - 2
    BY <1>1, <2>1, <2>2
  <2>4. text[k] = "-" /\ SubSeq(text, i, k - 1) \in prefixes
    <3>1. text[k] = s[x]
      BY <1>2, <2>1
    <3>2. SubSeq(text, i, i + x - 2) = SubSeq(s, 1, x - 1)
      BY <1>3, <2>1
    <3>3. QED
      BY <2>1, <2>3, <3>1, <3>2
  <2>5. \A j \in k + 1 .. b - 1 : text[j] \in Lower \cup Digit
    <3> TAKE j \in k + 1 .. b - 1
    <3>1. j \in i .. e - 1 /\ j - i + 1 \in x + 1 .. n
      BY <1>1, <2>1, <2>2
    <3>2. QED
      BY <1>2, <2>2, <3>1
  <2> HIDE DEF k, b
  <2>6. \A j \in b .. e - 1 : j \in i .. e - 1 /\ j - i + 1 \in n + 1 .. e - i
    BY <1>1, <2>1, <2>2, <2>3
  <2>7. \A j \in b .. e - 1 : text[j] \in Digit \cup {"."}
    BY <1>2, <2>2, <2>6
  <2>8. \A j \in b .. e - 1 : text[j] = "." => j + 1 <= e - 1 /\ text[j + 1] \in Digit
    <3> TAKE j \in b .. e - 1
    <3> DEFINE y == j - i + 1
    <3>1. y \in n + 1 .. e - i /\ j \in i .. e - 1
      BY <2>6
    <3> HIDE DEF y
    <3>2. SUFFICES ASSUME text[j] = "." PROVE j + 1 <= e - 1 /\ text[j + 1] \in Digit
      OBVIOUS
    <3>3. At(s, y + 1) \in Digit
      <4>1. s[y] = "."
        BY <1>2, <3>1, <3>2 DEF y
      <4>2. QED
        BY <2>2, <3>1, <4>1
    <3>4. y + 1 \in 1 .. e - i
      <4>1. At(s, y + 1) # "end"
        BY <3>3, NoCharacterIsEnd
      <4>2. QED
        BY <1>2, <4>1 DEF At
    <3>5. s[y + 1] \in Digit
      BY <1>2, <3>3, <3>4 DEF At
    <3>6. j + 1 \in i .. e - 1 /\ (j + 1) - i + 1 = y + 1
      BY <1>1, <3>1, <3>4 DEF y
    <3>7. text[j + 1] = s[y + 1]
      BY <1>2, <3>6
    <3>8. QED
      BY <1>1, <3>5, <3>6, <3>7
  <2>9. b < e => text[b] = "."
    <3>1. ASSUME b < e PROVE text[b] = "."
      <4>1. b \in i .. e - 1 /\ n < e - i
        BY <1>1, <2>3, <3>1
      <4>2. text[b] = s[b - i + 1]
        BY <1>2, <4>1
      <4>3. QED
        BY <2>2, <2>3, <4>1, <4>2
    <3>2. QED
      BY <3>1
  <2>10. e \in b .. Len(text) + 1
    BY <1>1, <2>3
  <2>11. QED
    BY <2>3, <2>4, <2>5, <2>7, <2>8, <2>9, <2>10 DEF IDAt, IDParts, Groups
<1>5. ASSUME IDAt(text, prefixes, i, e) PROVE IsID(s, prefixes)
  <2>1. PICK k, b : IDParts(text, prefixes, i, e, k, b)
    BY <1>5 DEF IDAt
  <2> DEFINE x == k - i + 1
             n == b - i
  <2>2. /\ k \in i .. e - 2 /\ b \in k + 2 .. e /\ k \in Nat /\ b \in Nat
        /\ x \in 1 .. e - i /\ n \in x + 1 .. e - i /\ i + x - 2 = k - 1
    BY <1>1, <2>1 DEF IDParts
  <2>3. s[x] = "-" /\ SubSeq(s, 1, x - 1) \in prefixes
    <3>1. k \in i .. e - 1
      BY <1>1, <2>2
    <3>2. text[k] = s[x]
      BY <1>2, <3>1
    <3>3. SubSeq(s, 1, x - 1) = SubSeq(text, i, k - 1)
      BY <1>3, <2>2
    <3>4. QED
      BY <2>1, <3>2, <3>3 DEF IDParts
  <2>4. \A j \in x + 1 .. n : s[j] \in Lower \cup Digit
    <3> TAKE j \in x + 1 .. n
    <3>1. j \in 1 .. e - i /\ i + j - 1 \in k + 1 .. b - 1
      BY <1>1, <2>2
    <3>2. QED
      BY <1>2, <2>1, <3>1 DEF IDParts
  <2>5. \A j \in n + 1 .. e - i : j \in 1 .. e - i /\ i + j - 1 \in b .. e - 1
    BY <1>1, <2>2
  <2> HIDE DEF x
  <2>6. \A j \in n + 1 .. e - i : s[j] \in Digit \cup {"."}
    BY <1>2, <2>1, <2>5 DEF IDParts, Groups
  <2>7. \A j \in n + 1 .. e - i : s[j] = "." => At(s, j + 1) \in Digit
    <3> TAKE j \in n + 1 .. e - i
    <3>1. SUFFICES ASSUME s[j] = "." PROVE At(s, j + 1) \in Digit
      OBVIOUS
    <3> DEFINE y == i + j - 1
    <3>2. j \in 1 .. e - i /\ y \in b .. e - 1 /\ text[y] = "."
      BY <1>2, <2>5, <3>1
    <3>3. y + 1 <= e - 1 /\ text[y + 1] \in Digit
      BY <2>1, <3>2 DEF IDParts, Groups
    <3>4. j + 1 \in 1 .. e - i /\ i + (j + 1) - 1 = y + 1
      BY <1>1, <3>2, <3>3
    <3>5. s[j + 1] = text[y + 1]
      BY <1>2, <3>4
    <3>6. QED
      BY <1>2, <3>3, <3>4, <3>5 DEF At
  <2>8. n < e - i => s[n + 1] = "."
    <3>1. ASSUME n < e - i PROVE s[n + 1] = "."
      <4>1. n + 1 \in 1 .. e - i /\ i + (n + 1) - 1 = b /\ b < e
        BY <1>1, <2>2, <3>1
      <4>2. QED
        BY <1>2, <2>1, <4>1 DEF IDParts, Groups
    <3>2. QED
      BY <3>1
  <2> HIDE DEF n
  <2>9. QED
    BY <1>2, <2>2, <2>3, <2>4, <2>6, <2>7, <2>8 DEF IsID
<1>6. QED
  BY <1>4, <1>5 DEF s

(* A prefix and a dash are at i when the part up to the dash is the        *)
(* prefix.                                                                 *)
LEMMA PrefixIs ==
    ASSUME NEW C, NEW text \in Seq(C), NEW i \in 1 .. Len(text), NEW q \in Seq(C)
    PROVE  IsPrefix(Append(q, "-"), SubSeq(text, i, Len(text))) <=>
             /\ i + Len(q) <= Len(text) /\ text[i + Len(q)] = "-"
             /\ SubSeq(text, i, i + Len(q) - 1) = q
<1> DEFINE D == C \cup {"-"}
           L == Len(text)
           n == Len(q)
           a == Append(q, "-")
           t == SubSeq(text, i, L)
<1>1. L \in Nat /\ n \in Nat /\ i \in Nat /\ L + 1 \in i .. L + 1 /\ i \in 1 .. L + 1 /\ (L + 1) - 1 = L
  BY LenProperties
<1>2. text \in Seq(D) /\ q \in Seq(D)
  BY SeqMonotonic
<1>3. /\ a \in Seq(D) /\ Len(a) = n + 1 /\ a[n + 1] = "-"
      /\ \A j \in 1 .. n : a[j] = q[j]
  BY <1>2, AppendProperties
<1>4. /\ t \in Seq(D) /\ Len(t) = L + 1 - i
      /\ \A j \in 1 .. L + 1 - i : t[j] = text[i + j - 1]
  <2>1. \A m : m = L + 1 => /\ SubSeq(text, i, m - 1) \in Seq(D) /\ Len(SubSeq(text, i, m - 1)) = m - i
                            /\ \A j \in 1 .. m - i : SubSeq(text, i, m - 1)[j] = text[i + j - 1]
    BY <1>1, <1>2, SubSeqIs
  <2>2. QED
    BY <1>1, <2>1
<1> HIDE DEF D, L, n, a, t
<1>5. SubSeq(a, 1, Len(a)) = a
  BY <1>3, SubSeqFull
<1>6. ASSUME n + 1 <= L + 1 - i
      PROVE  /\ SubSeq(t, 1, n + 1) \in Seq(D) /\ Len(SubSeq(t, 1, n + 1)) = n + 1
             /\ \A j \in 1 .. n + 1 : SubSeq(t, 1, n + 1)[j] = text[i + j - 1]
  <2>1. 1 \in 1 .. Len(t) + 1 /\ n + 2 \in 1 .. Len(t) + 1 /\ (n + 2) - 1 = n + 1
    BY <1>1, <1>4, <1>6
  <2>2. \A m : m = n + 2 => /\ SubSeq(t, 1, m - 1) \in Seq(D) /\ Len(SubSeq(t, 1, m - 1)) = m - 1
                            /\ \A j \in 1 .. m - 1 : SubSeq(t, 1, m - 1)[j] = t[1 + j - 1]
    BY <1>4, <2>1, SubSeqIs
  <2>3. /\ SubSeq(t, 1, n + 1) \in Seq(D) /\ Len(SubSeq(t, 1, n + 1)) = n + 1
        /\ \A j \in 1 .. n + 1 : SubSeq(t, 1, n + 1)[j] = t[1 + j - 1]
    BY <2>1, <2>2
  <2>4. \A j \in 1 .. n + 1 : 1 + j - 1 = j /\ j \in 1 .. L + 1 - i
    BY <1>1, <1>6
  <2>5. QED
    BY <1>4, <2>3, <2>4
<1>7. ASSUME n + 1 <= L + 1 - i
      PROVE  /\ SubSeq(text, i, i + n - 1) \in Seq(D) /\ Len(SubSeq(text, i, i + n - 1)) = n
             /\ \A j \in 1 .. n : SubSeq(text, i, i + n - 1)[j] = text[i + j - 1]
  <2>1. i + n \in i .. L + 1 /\ (i + n) - i = n
    BY <1>1, <1>7
  <2>2. \A m : m = i + n => /\ SubSeq(text, i, m - 1) \in Seq(D) /\ Len(SubSeq(text, i, m - 1)) = m - i
                            /\ \A j \in 1 .. m - i : SubSeq(text, i, m - 1)[j] = text[i + j - 1]
    BY <1>1, <1>2, <2>1, SubSeqIs DEF L
  <2>3. QED
    BY <2>1, <2>2
<1>8. ASSUME IsPrefix(a, t)
      PROVE  i + n <= L /\ text[i + n] = "-" /\ SubSeq(text, i, i + n - 1) = q
  <2>1. n + 1 <= L + 1 - i /\ a = SubSeq(t, 1, n + 1)
    BY <1>3, <1>4, <1>5, <1>8 DEF IsPrefix
  <2>2. \A j \in 1 .. n + 1 : a[j] = text[i + j - 1]
    BY <1>6, <2>1
  <2>3. i + n <= L /\ text[i + n] = "-"
    <3>1. n + 1 \in 1 .. n + 1 /\ i + (n + 1) - 1 = i + n
      BY <1>1
    <3>2. QED
      BY <1>1, <1>3, <2>1, <2>2, <3>1
  <2>4. \A j \in 1 .. n : SubSeq(text, i, i + n - 1)[j] = q[j]
    <3>1. \A j \in 1 .. n : j \in 1 .. n + 1
      BY <1>1
    <3>2. QED
      BY <1>3, <1>7, <2>1, <2>2, <3>1
  <2>5. SubSeq(text, i, i + n - 1) = q
    BY <1>2, <1>7, <2>1, <2>4, SeqEqual DEF n
  <2>6. QED
    BY <2>3, <2>5
<1>9. ASSUME i + n <= L, text[i + n] = "-", SubSeq(text, i, i + n - 1) = q
      PROVE  IsPrefix(a, t)
  <2>1. n + 1 <= L + 1 - i
    BY <1>1, <1>9
  <2>2. \A j \in 1 .. n + 1 : a[j] = SubSeq(t, 1, n + 1)[j]
    <3> TAKE j \in 1 .. n + 1
    <3>1. CASE j \in 1 .. n
      BY <1>3, <1>6, <1>7, <1>9, <2>1, <3>1
    <3>2. CASE j = n + 1
      <4>1. i + j - 1 = i + n
        BY <1>1, <3>2
      <4>2. QED
        BY <1>3, <1>6, <1>9, <2>1, <3>2, <4>1
    <3>3. QED
      BY <1>1, <3>1, <3>2
  <2>3. a = SubSeq(t, 1, n + 1)
    BY <1>3, <1>6, <2>1, <2>2, SeqEqual
  <2>4. QED
    BY <1>3, <1>4, <1>5, <2>1, <2>3 DEF IsPrefix
<1>10. QED
  BY <1>8, <1>9 DEF a, t, n, L

(* After the last character of an id a boundary is a character that no     *)
(* word has.                                                               *)
LEMMA AfterID ==
    ASSUME NEW C, NEW text \in Seq(C), NEW prefixes, NEW i \in 1 .. Len(text), NEW e \in 2 .. Len(text) + 1,
           NEW k, NEW b, IDParts(text, prefixes, i, e, k, b), Boundary(text, e)
    PROVE  At(text, e) \notin Word
<1>1. /\ Len(text) \in Nat /\ e - 1 \in 1 .. Len(text) /\ At(text, e - 1) = text[e - 1]
  BY AtIs
<1>2. k \in i .. e - 2 /\ b \in k + 2 .. e /\ Groups(text, b, e)
  BY DEF IDParts
<1>3. text[e - 1] \in Word
  <2>1. CASE b = e
    <3>1. e - 1 \in k + 1 .. b - 1
      BY <1>1, <1>2, <2>1
    <3>2. text[e - 1] \in Lower \cup Digit
      BY <3>1 DEF IDParts
    <3>3. QED
      BY <3>2, NoCharacterIsEnd
  <2>2. CASE b # e
    <3>1. e - 1 \in b .. e - 1 /\ ~((e - 1) + 1 <= e - 1)
      BY <1>1, <1>2, <2>2
    <3>2. text[e - 1] \in Digit
      BY <1>2, <3>1 DEF Groups
    <3>3. QED
      BY <3>2, NoCharacterIsEnd
  <2>3. QED
    BY <2>1, <2>2
<1>4. QED
  BY <1>1, <1>3 DEF Boundary

(* A match from i to e: what the pattern finds is what an id looks like.   *)
LEMMA MatchEndsAre ==
    ASSUME NEW C, NEW text \in Seq(C), NEW prefixes \in SUBSET Seq(C), NEW i \in 1 .. Len(text), NEW e
    PROVE  e \in MatchEnds(text, i, prefixes) <=>
             /\ e \in 2 .. Len(text) + 1 /\ i < e
             /\ Boundary(text, i) /\ Boundary(text, e)
             /\ IsID(SubSeq(text, i, e - 1), prefixes)
<1> DEFINE LD == Lower \cup Digit
<1>1. /\ Len(text) \in Nat /\ i \in Nat
      /\ \A j \in 1 .. Len(text) : At(text, j) = text[j]
  BY AtIs
<1>2. "end" \notin LD /\ "." \notin LD /\ LD \subseteq Word
  BY NoCharacterIsEnd
<1> HIDE DEF LD
<1>3. ASSUME e \in MatchEnds(text, i, prefixes)
      PROVE  /\ e \in 2 .. Len(text) + 1 /\ i < e
             /\ Boundary(text, i) /\ Boundary(text, e)
             /\ IsID(SubSeq(text, i, e - 1), prefixes)
  <2>1. e \in MatchEndsAnywhere(text, i, prefixes) /\ Boundary(text, e)
    BY <1>3 DEF MatchEnds
  <2>2. PICK q \in prefixes :
           /\ Boundary(text, i) /\ IsPrefix(Append(q, "-"), SubSeq(text, i, Len(text)))
           /\ At(text, i + Len(q) + 1) \in LD
           /\ e \in GroupEnds(text, RunFrom(text, i + Len(q) + 1, LD))
    BY <2>1 DEF MatchEndsAnywhere, LD
  <2> DEFINE k == i + Len(q)
             b == RunFrom(text, k + 1, LD)
  <2>3. q \in Seq(C) /\ Len(q) \in Nat
    BY LenProperties
  <2>4. k \in Nat /\ i <= k /\ k <= Len(text) /\ text[k] = "-" /\ SubSeq(text, i, k - 1) = q
    BY <1>1, <2>2, <2>3, PrefixIs
  <2> HIDE DEF k
  <2>5. k + 1 \in 1 .. Len(text)
    <3>1. At(text, k + 1) # "end"
      BY <1>2, <2>2 DEF k
    <3>2. QED
      BY <1>1, <2>4, <3>1, AtIs
  <2>6. b \in k + 1 .. Len(text) + 1 /\ At(text, b) \notin LD /\ \A j \in k + 1 .. b - 1 : text[j] \in LD
    <3>1. k + 1 \in 1 .. Len(text) + 1
      BY <1>1, <2>5
    <3>2. QED
      BY <1>2, <3>1, RunFromIs
  <2>7. b # k + 1
    BY <2>2, <2>6 DEF k
  <2> HIDE DEF b
  <2>8. b \in k + 2 .. Len(text) + 1 /\ b \in 1 .. Len(text) + 1
    BY <1>1, <2>4, <2>6, <2>7
  <2>9. e \in GroupEnds(text, b)
    BY <2>2 DEF b, k
  <2>10. Groups(text, b, e)
    BY <2>8, <2>9, GroupEndsAreGroups
  <2>11. e \in b .. Len(text) + 1
    BY <2>10 DEF Groups
  <2>12. e \in 2 .. Len(text) + 1 /\ i < e /\ k \in i .. e - 2 /\ b \in k + 2 .. e
    BY <1>1, <2>4, <2>8, <2>11
  <2>13. IDParts(text, prefixes, i, e, k, b)
    BY <2>4, <2>6, <2>10, <2>12 DEF IDParts, LD
  <2>14. IDAt(text, prefixes, i, e)
    BY <2>13 DEF IDAt
  <2>15. QED
    BY <2>1, <2>2, <2>12, <2>14, IsIDIs
<1>4. ASSUME e \in 2 .. Len(text) + 1, i < e, Boundary(text, i), Boundary(text, e),
             IsID(SubSeq(text, i, e - 1), prefixes)
      PROVE  e \in MatchEnds(text, i, prefixes)
  <2>1. PICK k, b : IDParts(text, prefixes, i, e, k, b)
    BY <1>4, IsIDIs DEF IDAt
  <2> DEFINE q == SubSeq(text, i, k - 1)
  <2>2. /\ k \in i .. e - 2 /\ b \in k + 2 .. e /\ text[k] = "-" /\ q \in prefixes
        /\ \A j \in k + 1 .. b - 1 : text[j] \in LD
        /\ Groups(text, b, e)
    BY <2>1 DEF IDParts, LD
  <2>3. /\ k \in Nat /\ b \in Nat /\ k \in i .. Len(text) + 1 /\ i \in 1 .. Len(text) + 1
        /\ k + 1 \in 1 .. Len(text) /\ k + 1 \in 1 .. Len(text) + 1
        /\ b \in k + 1 .. Len(text) + 1 /\ b \in 1 .. Len(text) + 1
    BY <1>1, <1>4, <2>2
  <2>4. q \in Seq(C) /\ Len(q) = k - i
    BY <2>3, SubSeqIs
  <2>5. IsPrefix(Append(q, "-"), SubSeq(text, i, Len(text)))
    <3>1. i + Len(q) = k /\ i + Len(q) - 1 = k - 1 /\ k <= Len(text)
      BY <1>1, <2>3, <2>4
    <3>2. SubSeq(text, i, i + Len(q) - 1) = q
      BY <3>1
    <3> HIDE DEF q
    <3>3. QED
      BY <2>2, <2>4, <3>1, <3>2, PrefixIs
  <2> HIDE DEF q
  <2>6. i + Len(q) + 1 = k + 1
    BY <1>1, <2>3, <2>4
  <2>7. At(text, k + 1) \in LD
    <3>1. k + 1 \in k + 1 .. b - 1
      BY <2>2, <2>3
    <3>2. QED
      BY <1>1, <2>2, <2>3, <3>1
  <2>8. At(text, e) \notin Word
    BY <1>4, <2>1, AfterID
  <2>9. At(text, b) \notin LD
    <3>1. CASE b = e
      BY <1>2, <2>8, <3>1
    <3>2. CASE b # e
      <4>1. b < e /\ b \in 1 .. Len(text)
        BY <1>1, <1>4, <2>2, <2>3, <3>2
      <4>2. text[b] = "."
        BY <2>2, <4>1 DEF Groups
      <4>3. QED
        BY <1>1, <1>2, <4>1, <4>2
    <3>3. QED
      BY <3>1, <3>2
  <2>10. RunFrom(text, k + 1, LD) = b
    BY <1>2, <2>2, <2>3, <2>9, RunFromIsOnly
  <2>11. e \in GroupEnds(text, b)
    <3>1. At(text, e) \notin Digit
      BY <2>8, NoCharacterIsEnd
    <3>2. QED
      BY <2>2, <2>3, <3>1, GroupsAreGroupEnds
  <2>12. e \in MatchEndsAnywhere(text, i, prefixes)
    <3>1. q \in {p \in prefixes : /\ Boundary(text, i)
                                  /\ IsPrefix(Append(p, "-"), SubSeq(text, i, Len(text)))
                                  /\ At(text, i + Len(p) + 1) \in Lower \cup Digit}
      BY <1>4, <2>2, <2>5, <2>6, <2>7 DEF LD
    <3>2. e \in GroupEnds(text, RunFrom(text, i + Len(q) + 1, Lower \cup Digit))
      BY <2>6, <2>10, <2>11 DEF LD
    <3>3. QED
      BY <3>1, <3>2, Zenon DEF MatchEndsAnywhere
  <2>13. QED
    BY <1>4, <2>12 DEF MatchEnds
<1>5. QED
  BY <1>3, <1>4

-----------------------------------------------------------------------------
(* The search from left to right.                                          *)

(* The longest match at i is one, and goes on from i.                      *)
LEMMA MatchEndsMax ==
    ASSUME NEW C, NEW text \in Seq(C), NEW prefixes \in SUBSET Seq(C), NEW i \in 1 .. Len(text),
           MatchEnds(text, i, prefixes) # {}
    PROVE  LET e == Max(MatchEnds(text, i, prefixes)) IN
           /\ e \in MatchEnds(text, i, prefixes) /\ e \in i + 1 .. Len(text) + 1
           /\ \A x \in MatchEnds(text, i, prefixes) : x <= e
<1> DEFINE S == MatchEnds(text, i, prefixes)
<1>1. Len(text) + 1 \in Nat
  BY LenProperties
<1>2. S \in SUBSET (1 .. Len(text) + 1) /\ S \subseteq i + 1 .. Len(text) + 1
  <2>1. ASSUME NEW e \in S PROVE e \in 1 .. Len(text) + 1 /\ e \in i + 1 .. Len(text) + 1
    <3>1. e \in 2 .. Len(text) + 1 /\ i < e
      BY <2>1, MatchEndsAre
    <3>2. QED
      BY <1>1, <3>1
  <2>2. QED
    BY <2>1
<1> HIDE DEF S
<1>3. S # {}
  BY DEF S
<1>4. Max(S) \in S /\ \A m \in S : m <= Max(S)
  BY <1>1, <1>2, <1>3, MaxIsGreatest
<1>5. QED
  BY <1>2, <1>4 DEF S

(* A candidate is where matches start, and the longest of them.            *)
LEMMA CandidatesAre ==
    ASSUME NEW C, NEW text \in Seq(C), NEW prefixes \in SUBSET Seq(C), NEW c
    PROVE  c \in Candidates(text, prefixes) <=>
             /\ c \in (1 .. Len(text)) \X (2 .. Len(text) + 1)
             /\ c[2] \in MatchEnds(text, c[1], prefixes)
             /\ \A x \in MatchEnds(text, c[1], prefixes) : x <= c[2]
<1> DEFINE places == (1 .. Len(text)) \X (2 .. Len(text) + 1)
           isID(d) == /\ d[1] < d[2] /\ Boundary(text, d[1]) /\ Boundary(text, d[2])
                      /\ IsID(MatchText(text, d), prefixes)
           ids == {d \in places : isID(d)}
<1>1. \A d \in places : d[1] \in 1 .. Len(text) /\ d[2] \in 2 .. Len(text) + 1 /\ d = <<d[1], d[2]>>
  OBVIOUS
<1>2. ASSUME NEW d \in places PROVE isID(d) <=> d[2] \in MatchEnds(text, d[1], prefixes)
  <2>1. d[1] \in 1 .. Len(text) /\ d[2] \in 2 .. Len(text) + 1
    BY <1>1, <1>2
  <2>2. MatchText(text, d) = SubSeq(text, d[1], d[2] - 1)
    BY DEF MatchText
  <2>3. QED
    BY <2>1, <2>2, MatchEndsAre
<1>3. Candidates(text, prefixes) = {d \in ids : \A x \in ids : x[1] = d[1] => x[2] <= d[2]}
  BY Zenon DEF Candidates
<1> HIDE DEF isID
<1>4. \A d : d \in ids <=> d \in places /\ d[2] \in MatchEnds(text, d[1], prefixes)
  BY <1>2
<1> HIDE DEF ids
<1>5. ASSUME NEW d \in ids, NEW x \in MatchEnds(text, d[1], prefixes)
      PROVE  <<d[1], x>> \in ids
  <2>1. d[1] \in 1 .. Len(text)
    BY <1>1, <1>4
  <2>2. x \in 2 .. Len(text) + 1
    BY <1>5, <2>1, MatchEndsAre
  <2>3. <<d[1], x>> \in places /\ <<d[1], x>>[1] = d[1] /\ <<d[1], x>>[2] = x
    BY <2>1, <2>2
  <2>4. QED
    BY <1>4, <1>5, <2>3
<1>6. ASSUME c \in Candidates(text, prefixes)
      PROVE  /\ c \in places /\ c[2] \in MatchEnds(text, c[1], prefixes)
             /\ \A x \in MatchEnds(text, c[1], prefixes) : x <= c[2]
  <2>1. c \in ids /\ \A x \in ids : x[1] = c[1] => x[2] <= c[2]
    BY <1>3, <1>6
  <2>2. \A x \in MatchEnds(text, c[1], prefixes) : <<c[1], x>> \in ids
    BY <1>5, <2>1
  <2>3. \A x \in MatchEnds(text, c[1], prefixes) : x <= c[2]
    <3> TAKE x \in MatchEnds(text, c[1], prefixes)
    <3>1. <<c[1], x>> \in ids /\ <<c[1], x>>[1] = c[1] /\ <<c[1], x>>[2] = x
      BY <2>2
    <3>2. QED
      BY <2>1, <3>1
  <2>4. QED
    BY <1>4, <2>1, <2>3
<1>7. ASSUME c \in places, c[2] \in MatchEnds(text, c[1], prefixes),
             \A x \in MatchEnds(text, c[1], prefixes) : x <= c[2]
      PROVE  c \in Candidates(text, prefixes)
  <2>1. c \in ids
    BY <1>4, <1>7
  <2>2. \A x \in ids : x[1] = c[1] => x[2] <= c[2]
    BY <1>4, <1>7
  <2>3. QED
    BY <1>3, <2>1, <2>2
<1>8. QED
  BY <1>6, <1>7

(* The recursive function of Matches.                                      *)
IsMatches(text, prefixes, h) ==
    h = [i \in 1 .. Len(text) + 1 |->
           IF i > Len(text) THEN {}
           ELSE LET ends == MatchEnds(text, i, prefixes) IN
                IF ends = {} THEN h[i + 1] ELSE {<<i, Max(ends)>>} \cup h[Max(ends)]]

MatchesFrom(text, prefixes, i) == (CHOOSE h : IsMatches(text, prefixes, h))[i]

(* Matches is the value of its recursive function at the start.            *)
LEMMA MatchesAreFrom ==
    ASSUME NEW text, NEW prefixes
    PROVE  Matches(text, prefixes) = MatchesFrom(text, prefixes, 1)
BY DEF Matches, MatchesFrom, IsMatches

(* The recursion of Matches.                                               *)
LEMMA MatchesUnfold ==
    ASSUME NEW C, NEW text \in Seq(C), NEW prefixes \in SUBSET Seq(C), NEW i \in 1 .. Len(text) + 1
    PROVE  /\ i > Len(text) => MatchesFrom(text, prefixes, i) = {}
           /\ ~(i > Len(text)) /\ MatchEnds(text, i, prefixes) = {}
                => MatchesFrom(text, prefixes, i) = MatchesFrom(text, prefixes, i + 1)
           /\ ~(i > Len(text)) /\ MatchEnds(text, i, prefixes) # {}
                => MatchesFrom(text, prefixes, i)
                     = {<<i, Max(MatchEnds(text, i, prefixes))>>}
                         \cup MatchesFrom(text, prefixes, Max(MatchEnds(text, i, prefixes)))
<1> DEFINE L == Len(text)
           N == L + 1
           ends(j) == MatchEnds(text, j, prefixes)
           found == [j \in 1 .. N |-> IF j > L \/ ends(j) = {} THEN {} ELSE {<<j, Max(ends(j))>>}]
           next == [j \in 1 .. N |-> IF j > L THEN 0 ELSE IF ends(j) = {} THEN j + 1 ELSE Max(ends(j))]
           body(j, h) == IF j > L THEN {} ELSE IF ends(j) = {} THEN h[j + 1] ELSE {<<j, Max(ends(j))>>} \cup h[Max(ends(j))]
           h == CHOOSE h : IsMatches(text, prefixes, h)
<1>1. L \in Nat /\ N \in Nat /\ 0 \in 0 .. N
  BY LenProperties
<1>2. ASSUME NEW j \in 1 .. N, ~(j > L), ends(j) # {}
      PROVE  Max(ends(j)) \in j + 1 .. N
  <2>1. j \in 1 .. Len(text)
    BY <1>1, <1>2
  <2>2. QED
    BY <1>2, <2>1, MatchEndsMax
<1> HIDE DEF L, N, ends
<1>3. ASSUME NEW j \in 1 .. N
      PROVE  next[j] \in 0 .. N /\ (next[j] = 0 \/ next[j] > j)
  <2>1. CASE j > L
    BY <1>1, <2>1
  <2>2. CASE ~(j > L) /\ ends(j) = {}
    BY <1>1, <2>2 DEF N
  <2>3. CASE ~(j > L) /\ ends(j) # {}
    <3>1. next[j] = Max(ends(j))
      BY <2>3
    <3>2. QED
      BY <1>1, <1>2, <2>3, <3>1
  <2>4. QED
    BY <2>1, <2>2, <2>3
<1>4. next \in [1 .. N -> 0 .. N]
  BY <1>3
<1> HIDE DEF found, next
<1>5. PICK g : g = [j \in 1 .. N |-> Link(found, next, j, g)]
  BY <1>1, <1>3, <1>4, ChainExists
<1> USE DEF found, next
<1>6. ASSUME NEW j \in 1 .. N
      PROVE  Link(found, next, j, g) = body(j, g)
  <2>1. CASE j > L
    <3>1. found[j] = {} /\ next[j] = 0
      BY <2>1
    <3> HIDE DEF found, next
    <3>2. QED
      BY <2>1, <3>1 DEF Link
  <2>2. CASE ~(j > L) /\ ends(j) = {}
    <3>1. found[j] = {} /\ next[j] = j + 1 /\ j + 1 # 0
      BY <1>1, <2>2
    <3> HIDE DEF found, next
    <3>2. QED
      BY <2>2, <3>1 DEF Link
  <2>3. CASE ~(j > L) /\ ends(j) # {}
    <3>1. found[j] = {<<j, Max(ends(j))>>} /\ next[j] = Max(ends(j))
      BY <2>3
    <3>2. next[j] # 0
      BY <1>1, <1>2, <2>3, <3>1
    <3> HIDE DEF found, next
    <3>3. QED
      BY <2>3, <3>1, <3>2 DEF Link
  <2>4. QED
    BY <2>1, <2>2, <2>3
<1> HIDE DEF found, next
<1>7. \A f : IsMatches(text, prefixes, f) <=> f = [j \in 1 .. N |-> body(j, f)]
  BY DEF IsMatches, N, L, ends
<1> HIDE DEF body
<1>8. IsMatches(text, prefixes, g)
  BY <1>5, <1>6, <1>7, Zenon
<1>9. IsMatches(text, prefixes, h)
  BY <1>8, Zenon
<1>10. h = [j \in 1 .. N |-> body(j, h)]
  BY <1>7, <1>9, Zenon
<1> HIDE DEF h
<1>11. h[i] = body(i, h)
  BY <1>10, Zenon DEF N, L
<1>12. \A j : MatchesFrom(text, prefixes, j) = h[j]
  BY DEF MatchesFrom, h
<1>13. /\ i > L => h[i] = {}
       /\ ~(i > L) /\ ends(i) = {} => h[i] = h[i + 1]
       /\ ~(i > L) /\ ends(i) # {} => h[i] = {<<i, Max(ends(i))>>} \cup h[Max(ends(i))]
  BY <1>11, Zenon DEF body
<1>14. QED
  BY <1>12, <1>13, Zenon DEF L, ends

(* Where the first match at or after i starts, if there is one.            *)
LEMMA MatchOrStep ==
    ASSUME NEW C, NEW text \in Seq(C), NEW prefixes \in SUBSET Seq(C), NEW i \in 1 .. Len(text) + 1
    PROVE  \/ i = Len(text) + 1 /\ MatchesFrom(text, prefixes, i) = {}
           \/ /\ i + 1 \in 1 .. Len(text) + 1
              /\ \A c \in Candidates(text, prefixes) : c[1] # i
              /\ MatchesFrom(text, prefixes, i) = MatchesFrom(text, prefixes, i + 1)
           \/ \E e \in i + 1 .. Len(text) + 1 :
                /\ <<i, e>> \in Candidates(text, prefixes)
                /\ \A c \in Candidates(text, prefixes) : c[1] = i => c = <<i, e>>
                /\ MatchesFrom(text, prefixes, i) = {<<i, e>>} \cup MatchesFrom(text, prefixes, e)
<1> DEFINE L == Len(text)
           ends == MatchEnds(text, i, prefixes)
           e == Max(ends)
           M(j) == MatchesFrom(text, prefixes, j)
<1>1. L \in Nat /\ (i <= L => i \in 1 .. L /\ i + 1 \in 1 .. L + 1)
  BY LenProperties
<1>2. /\ i > L => M(i) = {}
      /\ ~(i > L) /\ ends = {} => M(i) = M(i + 1)
      /\ ~(i > L) /\ ends # {} => M(i) = {<<i, e>>} \cup M(e)
  BY MatchesUnfold, Zenon
<1>3. CASE i > L
  <2>1. i = Len(text) + 1 /\ MatchesFrom(text, prefixes, i) = {}
    BY <1>1, <1>3, <1>2
  <2>2. QED
    BY <2>1
<1>4. CASE ~(i > L) /\ ends = {}
  <2>1. MatchesFrom(text, prefixes, i) = MatchesFrom(text, prefixes, i + 1)
    BY <1>4, <1>2
  <2>2. \A c \in Candidates(text, prefixes) : c[1] # i
    BY <1>4, CandidatesAre
  <2>3. QED
    BY <1>1, <1>4, <2>1, <2>2
<1>5. CASE ~(i > L) /\ ends # {}
  <2>1. i \in 1 .. L
    BY <1>1, <1>5
  <2>2. e \in ends /\ e \in i + 1 .. L + 1 /\ \A x \in ends : x <= e
    BY <1>5, <2>1, MatchEndsMax
  <2>3. MatchesFrom(text, prefixes, i) = {<<i, e>>} \cup MatchesFrom(text, prefixes, e)
    BY <1>5, <1>2, Zenon
  <2> HIDE DEF e
  <2>4. <<i, e>> \in Candidates(text, prefixes)
    <3>1. <<i, e>> \in (1 .. L) \X (2 .. L + 1) /\ <<i, e>>[1] = i /\ <<i, e>>[2] = e
      BY <1>1, <2>1, <2>2
    <3>2. QED
      BY <2>2, <3>1, CandidatesAre
  <2>5. ASSUME NEW c \in Candidates(text, prefixes), c[1] = i
        PROVE  c = <<i, e>>
    <3>1. /\ c \in (1 .. L) \X (2 .. L + 1) /\ c[2] \in ends
          /\ \A x \in ends : x <= c[2]
      BY <2>5, CandidatesAre
    <3>2. c[2] <= e /\ e <= c[2] /\ c[2] \in Int /\ e \in Int
      BY <1>1, <2>2, <3>1
    <3>3. c[2] = e /\ c = <<c[1], c[2]>>
      BY <3>1, <3>2
    <3>4. QED
      BY <2>5, <3>3
  <2>6. QED
    BY <2>2, <2>3, <2>4, <2>5
<1>6. QED
  BY <1>3, <1>4, <1>5

(* What is found is a candidate ...                                        *)
LEMMA MatchesAreCandidates ==
    ASSUME NEW C, NEW text \in Seq(C), NEW prefixes \in SUBSET Seq(C)
    PROVE  Matches(text, prefixes) \subseteq Candidates(text, prefixes)
<1> DEFINE N == Len(text) + 1
           cs == Candidates(text, prefixes)
           M(i) == MatchesFrom(text, prefixes, i)
           Fails == {i \in 1 .. N : ~(M(i) \subseteq cs)}
<1>1. N \in Nat /\ 1 \in 1 .. N
  BY LenProperties
<1>2. Fails = {}
  <2> SUFFICES ASSUME Fails # {} PROVE FALSE
    OBVIOUS
  <2>1. PICK i \in Fails : \A x \in Fails : x <= i
    <3>1. Fails \in SUBSET Nat /\ \A x \in Fails : x <= N
      BY <1>1
    <3>2. QED
      BY <1>1, <3>1, Greatest
  <2>2. i \in 1 .. N /\ ~(M(i) \subseteq cs)
    BY <2>1
  <2>3. \A j \in i + 1 .. N : M(j) \subseteq cs
    <3> TAKE j \in i + 1 .. N
    <3>1. j \in 1 .. N /\ ~(j <= i)
      BY <1>1, <2>2
    <3>2. QED
      BY <2>1, <3>1
  <2>4. \/ M(i) = {}
        \/ i + 1 \in 1 .. N /\ M(i) = M(i + 1)
        \/ \E e \in i + 1 .. N : <<i, e>> \in cs /\ M(i) = {<<i, e>>} \cup M(e)
    BY <2>2, MatchOrStep
  <2>5. i + 1 \in 1 .. N => i + 1 \in i + 1 .. N
    BY <1>1, <2>2
  <2> HIDE DEF M, cs, N
  <2>6. QED
    BY <2>2, <2>3, <2>4, <2>5
<1>3. M(1) \subseteq cs
  BY <1>1, <1>2
<1>4. QED
  BY <1>3, MatchesAreFrom

(* ... and every candidate is found, unless two overlap.                   *)
LEMMA CandidatesAreMatches ==
    ASSUME NEW C, NEW text \in Seq(C), NEW prefixes \in SUBSET Seq(C),
           ~\E c, d \in Candidates(text, prefixes) : c[1] < d[1] /\ d[1] < c[2]
    PROVE  Candidates(text, prefixes) \subseteq Matches(text, prefixes)
<1> DEFINE N == Len(text) + 1
           cs == Candidates(text, prefixes)
           M(i) == MatchesFrom(text, prefixes, i)
           Fails == {i \in 1 .. N : ~\A c \in cs : c[1] >= i => c \in M(i)}
<1>1. N \in Nat /\ 1 \in 1 .. N
  BY LenProperties
<1>2. \A c \in cs : c[1] \in 1 .. N - 1 /\ c[2] \in 1 .. N
  <2> TAKE c \in cs
  <2>1. c \in (1 .. Len(text)) \X (2 .. Len(text) + 1)
    BY CandidatesAre
  <2>2. QED
    BY <1>1, <2>1
<1>3. Fails = {}
  <2> SUFFICES ASSUME Fails # {} PROVE FALSE
    OBVIOUS
  <2>1. PICK i \in Fails : \A x \in Fails : x <= i
    <3>1. Fails \in SUBSET Nat /\ \A x \in Fails : x <= N
      BY <1>1
    <3>2. QED
      BY <1>1, <3>1, Greatest
  <2>2. i \in 1 .. N
    BY <2>1
  <2>3. PICK c \in cs : c[1] >= i /\ c \notin M(i)
    BY <2>1
  <2>4. \A j \in i + 1 .. N : c[1] >= j => c \in M(j)
    <3> TAKE j \in i + 1 .. N
    <3>1. j \in 1 .. N /\ ~(j <= i)
      BY <1>1, <2>2
    <3>2. j \notin Fails
      BY <2>1, <3>1
    <3>3. QED
      BY <3>1, <3>2
  <2>5. \/ i = N
        \/ i + 1 \in 1 .. N /\ c[1] # i /\ M(i) = M(i + 1)
        \/ \E e \in i + 1 .. N : /\ <<i, e>> \in cs /\ (c[1] = i => c = <<i, e>>)
                                 /\ M(i) = {<<i, e>>} \cup M(e)
    <3>1. \/ i = N
          \/ /\ i + 1 \in 1 .. N /\ (\A d \in cs : d[1] # i)
             /\ M(i) = M(i + 1)
          \/ \E e \in i + 1 .. N : /\ <<i, e>> \in cs /\ (\A d \in cs : d[1] = i => d = <<i, e>>)
                                   /\ M(i) = {<<i, e>>} \cup M(e)
      BY <2>2, MatchOrStep
    <3> HIDE DEF M, cs, N, Fails
    <3>2. QED
      BY <2>3, <3>1
  <2> HIDE DEF M, cs, N, Fails
  <2>6. CASE i = N
    BY <1>1, <1>2, <2>3, <2>6
  <2>7. CASE i + 1 \in 1 .. N /\ c[1] # i /\ M(i) = M(i + 1)
    <3>1. i + 1 \in i + 1 .. N /\ c[1] >= i + 1
      BY <1>1, <1>2, <2>2, <2>3, <2>7
    <3>2. QED
      BY <2>3, <2>4, <2>7, <3>1
  <2>8. CASE \E e \in i + 1 .. N : /\ <<i, e>> \in cs /\ (c[1] = i => c = <<i, e>>)
                                   /\ M(i) = {<<i, e>>} \cup M(e)
    <3>1. PICK e \in i + 1 .. N : /\ <<i, e>> \in cs /\ (c[1] = i => c = <<i, e>>)
                                 /\ M(i) = {<<i, e>>} \cup M(e)
      BY <2>8
    <3>2. c[1] # i /\ c \notin M(e)
      BY <2>3, <3>1
    <3>3. i < c[1] /\ c[1] \in Int /\ i \in Int
      BY <1>1, <1>2, <2>2, <2>3, <3>2
    <3>4. ~(c[1] < e)
      <4>1. <<i, e>>[1] = i /\ <<i, e>>[2] = e
        OBVIOUS
      <4>2. QED
        BY <2>3, <3>1, <3>3, <4>1 DEF cs
    <3>5. c[1] >= e
      BY <1>1, <3>1, <3>3, <3>4
    <3>6. QED
      BY <2>4, <3>1, <3>2, <3>5
  <2>9. QED
    BY <2>5, <2>6, <2>7, <2>8
<1>4. \A c \in cs : c[1] >= 1
  BY <1>1, <1>2
<1>5. cs \subseteq M(1)
  BY <1>1, <1>3, <1>4
<1>6. QED
  BY <1>5, MatchesAreFrom

IsSum(S, h) ==
    h = [s \in SUBSET S |-> IF s = {} THEN 0 ELSE (CHOOSE x \in s : TRUE) + h[s \ {CHOOSE x \in s : TRUE}]]

(* SumSet is the value of its recursive function for the whole set.        *)
LEMMA SumSetIs == ASSUME NEW S PROVE SumSet(S) = (CHOOSE h : IsSum(S, h))[S]
BY DEF SumSet, FoldSet, MapThenFoldSet, IsSum

(* The two sums that CountIn needs: of nothing ...                         *)
LEMMA SumOfNone == SumSet({}) = 0
<1> DEFINE g == [s \in SUBSET {} |-> 0]
           h == CHOOSE h : IsSum({}, h)
<1>1. IsSum({}, g)
  <2>1. \A s \in SUBSET {} : s = {}
    OBVIOUS
  <2>2. QED
    BY <2>1 DEF IsSum
<1>2. IsSum({}, h)
  BY <1>1, Zenon
<1> HIDE DEF h
<1>3. h[{}] = 0
  BY <1>2 DEF IsSum
<1>4. QED
  BY <1>3, SumSetIs DEF h

(* ... and of one number.                                                  *)
LEMMA SumOfOne == ASSUME NEW n \in Int PROVE SumSet({n}) = n
<1> DEFINE T == {n}
           x(s) == CHOOSE y \in s : TRUE
           g == [s \in SUBSET T |-> IF s = {} THEN 0 ELSE n]
           h == CHOOSE h : IsSum(T, h)
<1>1. x(T) = n
  OBVIOUS
<1>2. \A s \in SUBSET T : s = {} \/ s = T
  OBVIOUS
<1>3. T \ {n} = {} /\ T # {} /\ {} \in SUBSET T /\ T \in SUBSET T
  OBVIOUS
<1> HIDE DEF T, x
<1>4. IsSum(T, g)
  <2>1. ASSUME NEW s \in SUBSET T
        PROVE  g[s] = IF s = {} THEN 0 ELSE x(s) + g[s \ {x(s)}]
    <3>1. CASE s = {}
      BY <3>1
    <3>2. CASE s = T
      BY <1>1, <1>3, <3>2
    <3>3. QED
      BY <1>2, <3>1, <3>2
  <2>2. g = [s \in SUBSET T |-> IF s = {} THEN 0 ELSE x(s) + g[s \ {x(s)}]]
    BY <2>1
  <2> HIDE DEF g
  <2>3. QED
    BY <2>2, Zenon DEF IsSum, x
<1>5. IsSum(T, h)
  BY <1>4, Zenon
<1> HIDE DEF h
<1>6. h = [s \in SUBSET T |-> IF s = {} THEN 0 ELSE x(s) + h[s \ {x(s)}]]
  BY <1>5, Zenon DEF IsSum, x
<1>7. h[{}] = 0
  BY <1>3, <1>6
<1>8. h[T] = x(T) + h[T \ {x(T)}]
  BY <1>3, <1>6
<1>9. h[T] = n
  BY <1>1, <1>3, <1>7, <1>8
<1>10. QED
  BY <1>9, SumSetIs DEF h, T

(* The prefix of an id is a text of its characters.                        *)
LEMMA PrefixOfIs == ASSUME NEW C, NEW id \in Seq(C) PROVE prefixOf(id) \in Seq(C)
<1> DEFINE I == {j \in 1 .. Len(id) : id[j] = "-"}
           i == IF I # {} THEN Min(I) ELSE 0
<1>1. prefixOf(id) = IF i = 0 THEN <<>> ELSE SubSeq(id, 1, i - 1)
  BY DEF prefixOf, SelectInSeq
<1>2. CASE i = 0
  BY <1>1, <1>2
<1>3. CASE i # 0
  <2>1. I \in SUBSET Nat /\ I # {} /\ i = Min(I)
    BY <1>3, LenProperties
  <2>2. i \in I
    BY <2>1, MinIsLeast
  <2>3. i \in 1 .. Len(id) /\ Len(id) \in Nat
    BY <2>2, LenProperties
  <2> HIDE DEF i, I
  <2>4. SubSeq(id, 1, i - 1) \in Seq(C)
    BY <2>3, SubSeqProperties
  <2>5. QED
    BY <1>1, <1>3, <2>4
<1>4. QED
  BY <1>2, <1>3

(* What extractMentions counts.                                            *)
Found(text, selfID, prefixes) ==
    IF text = <<>> \/ prefixes = {} THEN {}
    ELSE {m \in Matches(text, prefixes) : MatchText(text, m) # selfID}

(* extractMentions counts what is found.                                   *)
LEMMA MentionsAreCountsOfFound ==
    ASSUME NEW text, NEW selfID, NEW prefixes
    PROVE  extractMentions(text, selfID, prefixes) =
              [id \in {MatchText(text, m) : m \in Found(text, selfID, prefixes)} |->
                 Cardinality({m \in Found(text, selfID, prefixes) : MatchText(text, m) = id})]
BY Zenon DEF extractMentions, Found

Overlap(text, prefixes) ==
    \E c, d \in Candidates(text, prefixes) : c[1] < d[1] /\ d[1] < c[2]

(* extractMentions returns early only where there is nothing to find.      *)
LEMMA NoTextNoCandidates ==
    ASSUME NEW C, NEW text \in Seq(C), NEW prefixes \in SUBSET Seq(C),
           text = <<>> \/ prefixes = {}
    PROVE  Candidates(text, prefixes) = {}
<1> SUFFICES ASSUME NEW c \in Candidates(text, prefixes) PROVE FALSE
  OBVIOUS
<1>1. c \in (1 .. Len(text)) \X (2 .. Len(text) + 1) /\ c[2] \in MatchEnds(text, c[1], prefixes)
  BY CandidatesAre
<1>2. CASE text = <<>>
  BY <1>1, <1>2
<1>3. CASE prefixes = {}
  BY <1>1, <1>3 DEF MatchEnds, MatchEndsAnywhere
<1>4. QED
  BY <1>2, <1>3

(* A text has finitely many places, and so finitely many ids.              *)
LEMMA CandidatesAreFinite ==
    ASSUME NEW C, NEW text \in Seq(C), NEW prefixes \in SUBSET Seq(C)
    PROVE  IsFiniteSet(Candidates(text, prefixes))
<1>1. IsFiniteSet((1 .. Len(text)) \X (2 .. Len(text) + 1))
  <2>1. IsFiniteSet(1 .. Len(text))
    BY LenProperties, FS_Interval
  <2>2. IsFiniteSet(2 .. Len(text) + 1)
    BY LenProperties, FS_Interval
  <2>3. QED
    BY <2>1, <2>2, FS_Product
<1>2. Candidates(text, prefixes) \subseteq (1 .. Len(text)) \X (2 .. Len(text) + 1)
  BY CandidatesAre
<1>3. QED
  BY <1>1, <1>2, FS_Subset

(* All that is found is a candidate of another id, and every one of those  *)
(* is found unless two overlap.                                            *)
LEMMA FoundAreCandidates ==
    ASSUME NEW C, NEW text \in Seq(C), NEW prefixes \in SUBSET Seq(C), NEW selfID
    PROVE  /\ Found(text, selfID, prefixes) \subseteq Candidates(text, prefixes)
           /\ \A m \in Found(text, selfID, prefixes) : MatchText(text, m) # selfID
           /\ ~Overlap(text, prefixes) =>
                 \A c \in Candidates(text, prefixes) :
                    MatchText(text, c) # selfID => c \in Found(text, selfID, prefixes)
<1>1. CASE text = <<>> \/ prefixes = {}
  <2>1. Candidates(text, prefixes) = {}
    BY <1>1, NoTextNoCandidates
  <2>2. QED
    BY <1>1, <2>1 DEF Found
<1>2. CASE ~(text = <<>> \/ prefixes = {})
  <2>1. Matches(text, prefixes) \subseteq Candidates(text, prefixes)
    BY MatchesAreCandidates
  <2>2. ~Overlap(text, prefixes) => Candidates(text, prefixes) \subseteq Matches(text, prefixes)
    BY CandidatesAreMatches DEF Overlap
  <2>3. Found(text, selfID, prefixes) = {m \in Matches(text, prefixes) : MatchText(text, m) # selfID}
    BY <1>2 DEF Found
  <2>4. QED
    BY <2>1, <2>2, <2>3
<1>3. QED
  BY <1>1, <1>2

Fields(rows) == UNION {DOMAIN s.text : s \in rows}
FoundIn(rows, r, f) == Found(r.text[f], r.issue_id, prefixesOf(rows))
Mentioned(rows, r, f) == {MatchText(r.text[f], m) : m \in FoundIn(rows, r, f)}
Count(rows, r, f, id) == Cardinality({m \in FoundIn(rows, r, f) : MatchText(r.text[f], m) = id})
MentionRow(rows, r, f, id) ==
    [issue_id |-> r.issue_id, mentioned_issue_id |-> id, field |-> f, mention_count |-> Count(rows, r, f, id)]

RowsOf(rows, r, f) ==
    LET counts == extractMentions(r.text[f], r.issue_id, prefixesOf(rows)) IN
    {[issue_id |-> r.issue_id, mentioned_issue_id |-> id, field |-> f, mention_count |-> counts[id]] :
        id \in DOMAIN counts}

(* The batch, issue by issue and field by field.                           *)
LEMMA RunIsUnion == ASSUME NEW rows PROVE Run(rows) = UNION {RowsOf(rows, r, f) : r \in rows, f \in Fields(rows)}
BY DEF Run, Fields, RowsOf

(* The rows of the batch.                                                  *)
LEMMA RunIs ==
    ASSUME NEW rows, NEW o
    PROVE  o \in Run(rows) <=> \E r \in rows, f \in Fields(rows) : \E id \in Mentioned(rows, r, f) :
                                  o = MentionRow(rows, r, f, id)
<1> DEFINE counts(r, f) == extractMentions(r.text[f], r.issue_id, prefixesOf(rows))
           R(r, f) == {[issue_id |-> r.issue_id, mentioned_issue_id |-> id, field |-> f, mention_count |-> counts(r, f)[id]] :
                          id \in DOMAIN counts(r, f)}
<1>1. \A r, f : R(r, f) = RowsOf(rows, r, f)
  BY DEF RowsOf
<1>2. o \in Run(rows) <=> \E r \in rows, f \in Fields(rows) : o \in R(r, f)
  <2> HIDE DEF R
  <2>1. Run(rows) = UNION {R(r, f) : r \in rows, f \in Fields(rows)}
    BY <1>1, RunIsUnion
  <2>2. QED
    BY <2>1
<1>3. \A r, f : counts(r, f) = [id \in Mentioned(rows, r, f) |-> Count(rows, r, f, id)]
  BY MentionsAreCountsOfFound, Zenon DEF Mentioned, Count, FoundIn
<1> HIDE DEF counts
<1>4. \A r, f : DOMAIN counts(r, f) = Mentioned(rows, r, f)
  BY <1>3
<1>5. \A r, f : \A id \in Mentioned(rows, r, f) : counts(r, f)[id] = Count(rows, r, f, id)
  BY <1>3
<1>6. \A r, f : R(r, f) = {MentionRow(rows, r, f, id) : id \in Mentioned(rows, r, f)}
  BY <1>4, <1>5 DEF MentionRow
<1> HIDE DEF R
<1>7. QED
  BY <1>2, <1>6

Keyed(rows) == \A q, r \in rows : q.issue_id = r.issue_id => q = r

(* As issues have a key, one row holds the count.                          *)
LEMMA CountIs ==
    ASSUME NEW rows, Keyed(rows), NEW r \in rows, NEW f \in Fields(rows), NEW id,
           IsFiniteSet(FoundIn(rows, r, f))
    PROVE  CountIn(Run(rows), r, f, id) = Count(rows, r, f, id)
<1> DEFINE out == Run(rows)
           X == {x \in out : x.issue_id = r.issue_id /\ x.field = f /\ x.mentioned_issue_id = id}
           own == {m \in FoundIn(rows, r, f) : MatchText(r.text[f], m) = id}
<1>1. CountIn(out, r, f, id) = SumSet({o.mention_count : o \in X})
  BY DEF CountIn
<1>2. \A x \in X : id \in Mentioned(rows, r, f) /\ x = MentionRow(rows, r, f, id)
  <2> TAKE x \in X
  <2>1. PICK q \in rows, g \in Fields(rows) :
         \E d \in Mentioned(rows, q, g) : x = MentionRow(rows, q, g, d)
    BY RunIs
  <2>2. PICK d \in Mentioned(rows, q, g) : x = MentionRow(rows, q, g, d)
    BY <2>1
  <2>3. x.issue_id = q.issue_id /\ x.field = g /\ x.mentioned_issue_id = d
    BY <2>2 DEF MentionRow
  <2>4. q.issue_id = r.issue_id /\ g = f /\ d = id
    BY <2>3
  <2>5. q = r
    BY <2>4 DEF Keyed
  <2>6. QED
    BY <2>2, <2>4, <2>5
<1>3. IsFiniteSet(own) /\ Count(rows, r, f, id) = Cardinality(own)
  BY FS_Subset DEF Count
<1>4. CASE id \in Mentioned(rows, r, f)
  <2> DEFINE x == MentionRow(rows, r, f, id)
  <2>1. x \in out
    BY <1>4, RunIs
  <2>2. x.issue_id = r.issue_id /\ x.field = f /\ x.mentioned_issue_id = id
        /\ x.mention_count = Count(rows, r, f, id)
    BY DEF MentionRow
  <2> HIDE DEF x, out
  <2>3. X = {x}
    BY <1>2, <2>1, <2>2 DEF x
  <2> HIDE DEF X
  <2>4. {o.mention_count : o \in X} = {Count(rows, r, f, id)}
    BY <2>2, <2>3
  <2>5. Cardinality(own) \in Nat
    BY <1>3, FS_CardinalityType
  <2>6. QED
    BY <1>1, <1>3, <2>4, <2>5, SumOfOne DEF out
<1>5. CASE id \notin Mentioned(rows, r, f)
  <2>1. X = {}
    BY <1>2, <1>5
  <2>2. own = {}
    BY <1>5 DEF Mentioned
  <2>3. {o.mention_count : o \in X} = {}
    BY <2>1
  <2>4. Count(rows, r, f, id) = 0
    BY <1>3, <2>2, FS_EmptySet
  <2>5. QED
    BY <1>1, <2>3, <2>4, SumOfNone
<1>6. QED
  BY <1>4, <1>5

(* For any issues with ids and texts of any characters.                    *)
IsIssues(C, F, rows) ==
    /\ \A r \in rows : r.issue_id \in Seq(C) /\ r.text \in [F -> Seq(C)]
    /\ Keyed(rows)

(* FoundAreCandidates, for a field of an issue.                            *)
LEMMA FoundInIs ==
    ASSUME NEW C, NEW F, NEW rows, IsIssues(C, F, rows), NEW r \in rows, NEW f \in Fields(rows)
    PROVE  /\ r.text[f] \in Seq(C) /\ prefixesOf(rows) \in SUBSET Seq(C)
           /\ IsFiniteSet(Candidates(r.text[f], prefixesOf(rows)))
           /\ FoundIn(rows, r, f) \subseteq Candidates(r.text[f], prefixesOf(rows))
           /\ IsFiniteSet(FoundIn(rows, r, f))
           /\ \A m \in FoundIn(rows, r, f) : MatchText(r.text[f], m) # r.issue_id
           /\ ~Overlap(r.text[f], prefixesOf(rows)) =>
                 \A c \in Candidates(r.text[f], prefixesOf(rows)) :
                    MatchText(r.text[f], c) # r.issue_id => c \in FoundIn(rows, r, f)
<1>1. f \in F
  BY DEF Fields, IsIssues
<1>2. r.text[f] \in Seq(C)
  BY <1>1 DEF IsIssues
<1>3. prefixesOf(rows) \in SUBSET Seq(C)
  <2>1. \A q \in rows : prefixOf(q.issue_id) \in Seq(C)
    BY PrefixOfIs DEF IsIssues
  <2>2. QED
    BY <2>1 DEF prefixesOf
<1> DEFINE text == r.text[f]
           prefixes == prefixesOf(rows)
           self == r.issue_id
<1>4. FoundIn(rows, r, f) = Found(text, self, prefixes)
  BY DEF FoundIn
<1> HIDE DEF text, prefixes, self
<1>5. text \in Seq(C) /\ prefixes \in SUBSET Seq(C)
  BY <1>2, <1>3 DEF text, prefixes
<1>6. IsFiniteSet(Candidates(text, prefixes))
  BY <1>5, CandidatesAreFinite
<1>7. /\ Found(text, self, prefixes) \subseteq Candidates(text, prefixes)
      /\ \A m \in Found(text, self, prefixes) : MatchText(text, m) # self
      /\ ~Overlap(text, prefixes) =>
            \A c \in Candidates(text, prefixes) :
               MatchText(text, c) # self => c \in Found(text, self, prefixes)
  BY <1>5, FoundAreCandidates
<1>8. IsFiniteSet(FoundIn(rows, r, f))
  BY <1>4, <1>6, <1>7, FS_Subset
<1>9. QED
  BY <1>4, <1>5, <1>6, <1>7, <1>8 DEF text, prefixes, self

(* Every mention of the output is in the text as often as it says, and if  *)
(* no two ids of the text overlap, none is missing: whatever the ids, the  *)
(* prefixes and the texts (extract.go: "FindAllString").                   *)
THEOREM MentionsAreAlwaysInTheText ==
    ASSUME NEW C, NEW F, NEW rows, IsIssues(C, F, rows)
    PROVE  MentionsAreInTheText(rows)
<1> DEFINE out == Run(rows)
<1>1. ASSUME NEW r \in rows, NEW f \in Fields(rows), NEW id, id # r.issue_id
      PROVE  LET text == r.text[f]
                 cs == Candidates(text, prefixesOf(rows))
                 often == Cardinality({c \in cs : MatchText(text, c) = id})
             IN  /\ CountIn(out, r, f, id) <= often
                 /\ ~Overlap(text, prefixesOf(rows)) => CountIn(out, r, f, id) = often
  <2> DEFINE text == r.text[f]
             cs == Candidates(text, prefixesOf(rows))
             found == FoundIn(rows, r, f)
             S == {c \in cs : MatchText(text, c) = id}
             T == {m \in found : MatchText(text, m) = id}
  <2>1. IsFiniteSet(cs) /\ found \subseteq cs /\ IsFiniteSet(found)
    BY FoundInIs
  <2>2. ~Overlap(text, prefixesOf(rows)) => \A c \in cs : MatchText(text, c) # r.issue_id => c \in found
    BY FoundInIs
  <2>3. CountIn(out, r, f, id) = Cardinality(T)
    BY <2>1, CountIs DEF IsIssues, Count
  <2> HIDE DEF cs, found, text, out
  <2>4. T \subseteq S /\ (~Overlap(text, prefixesOf(rows)) => S = T)
    BY <1>1, <2>1, <2>2
  <2>5. IsFiniteSet(S)
    BY <2>1, FS_Subset
  <2> HIDE DEF S, T
  <2>6. Cardinality(T) <= Cardinality(S)
    BY <2>4, <2>5, FS_Subset
  <2>7. QED
    BY <2>3, <2>4, <2>6 DEF S, cs, text
<1> HIDE DEF out
<1>2. QED
  BY <1>1, Zenon DEF MentionsAreInTheText, out, Overlap, Fields

(* The output has one row for an issue, a mentioned id and a field, with a *)
(* count of at least one, and no issue mentions itself.                    *)
THEOREM NoSelfMentionEver ==
    ASSUME NEW C, NEW F, NEW rows, IsIssues(C, F, rows)
    PROVE  NoSelfMention(rows)
<1> DEFINE out == Run(rows)
<1>1. ASSUME NEW o \in out
      PROVE  o.mention_count >= 1 /\ o.mentioned_issue_id # o.issue_id
  <2>1. PICK r \in rows, f \in Fields(rows) :
         \E id \in Mentioned(rows, r, f) : o = MentionRow(rows, r, f, id)
    BY RunIs
  <2>2. PICK id \in Mentioned(rows, r, f) : o = MentionRow(rows, r, f, id)
    BY <2>1
  <2>3. o.mention_count = Count(rows, r, f, id) /\ o.mentioned_issue_id = id /\ o.issue_id = r.issue_id
    BY <2>2 DEF MentionRow
  <2>4. PICK m \in FoundIn(rows, r, f) : id = MatchText(r.text[f], m)
    BY DEF Mentioned
  <2>5. id # r.issue_id
    BY <2>4, FoundInIs
  <2> DEFINE T == {n \in FoundIn(rows, r, f) : MatchText(r.text[f], n) = id}
  <2>6. m \in T
    BY <2>4
  <2>7. IsFiniteSet(T)
    BY FoundInIs, FS_Subset
  <2>8. Count(rows, r, f, id) = Cardinality(T)
    BY DEF Count
  <2> HIDE DEF T
  <2>9. Cardinality(T) \in Nat /\ Cardinality(T) # 0
    BY <2>6, <2>7, FS_CardinalityType, FS_EmptySet
  <2>10. QED
    BY <2>3, <2>5, <2>8, <2>9
<1>2. ASSUME NEW o \in out, NEW p \in out,
             o.issue_id = p.issue_id, o.mentioned_issue_id = p.mentioned_issue_id, o.field = p.field
      PROVE  o = p
  <2>1. PICK r \in rows, f \in Fields(rows) :
         \E id \in Mentioned(rows, r, f) : o = MentionRow(rows, r, f, id)
    BY RunIs
  <2>2. PICK id \in Mentioned(rows, r, f) : o = MentionRow(rows, r, f, id)
    BY <2>1
  <2>3. PICK q \in rows, g \in Fields(rows) :
         \E d \in Mentioned(rows, q, g) : p = MentionRow(rows, q, g, d)
    BY RunIs
  <2>4. PICK d \in Mentioned(rows, q, g) : p = MentionRow(rows, q, g, d)
    BY <2>3
  <2>5. o.issue_id = r.issue_id /\ o.field = f /\ o.mentioned_issue_id = id
    BY <2>2 DEF MentionRow
  <2>6. p.issue_id = q.issue_id /\ p.field = g /\ p.mentioned_issue_id = d
    BY <2>4 DEF MentionRow
  <2>7. r = q /\ f = g /\ id = d
    BY <1>2, <2>5, <2>6 DEF IsIssues, Keyed
  <2>8. QED
    BY <2>2, <2>4, <2>7
<1> HIDE DEF out
<1>3. \A o, p \in out : o # p => <<o.issue_id, o.mentioned_issue_id, o.field>>
                                    # <<p.issue_id, p.mentioned_issue_id, p.field>>
  BY <1>2
<1>4. QED
  BY <1>1, <1>3, Zenon DEF NoSelfMention, out


-----------------------------------------------------------------------------
(* Batches                                                                 *)

(* No kind's Go type is nil, nor a time outside of UTC.                    *)
LEMMA NilIsNotNamed == \A kind : GoTypeOf(kind) # "nil" /\ GoTypeOf(kind) # "time_local"
BY DEF GoTypeOf

(* A column can have a name.                                               *)
LEMMA SomeName == "c" # NoName
BY Zenon DEF NoName

(* A kind that is known has a leaf of the Parquet schema.                  *)
LEMMA KindHasLeaf ==
    ASSUME NEW kind \in Kind
    PROVE  leafOf(kind) \in Leaf /\ leafOf(kind) # Failed
BY BatchesAssumption DEF Kind, Leaf, leafOf

(* No value is the error, and no stored value either.                      *)
LEMMA NoValueFails ==
    /\ \A go \in GoType, n \in Int : Value(go, n) # Failed
    /\ \A leaf \in Leaf, null \in BOOLEAN, n \in Int : [leaf |-> leaf, null |-> null, n |-> n] # Failed
BY BatchesAssumption DEF Value

(* What columnKind answers, for each of the types of the driver.           *)
LEMMA ColumnKindIs ==
    ASSUME NEW type \in DatabaseType
    PROVE  ColumnKind(type) \in {"String", "Int64", "Float64", "Timestamp", Failed}
BY DEF DatabaseType, ColumnKind

(* There is a float64 nearest to a number, and no other if it is one.      *)
LEMMA NearestIs ==
    ASSUME NEW n \in Int
    PROVE  /\ (CHOOSE d \in Nearest(n) : TRUE) \in Nearest(n)
           /\ Nearest(n) \subseteq Int
           /\ n \in Double => \A d \in Nearest(n) : d = n
<1> DEFINE Distances == {Distance(n, d) : d \in Double}
<1>1. \A d \in Double : d \in Int /\ Distance(n, d) \in Nat /\ (Distance(n, d) = 0 <=> d = n)
  BY BatchesAssumption DEF Distance
<1>2. Distances \in SUBSET Nat /\ Distances # {}
  BY <1>1, BatchesAssumption
<1>3. PICK m \in Distances : \A k \in Distances : m <= k
  BY <1>2, Least
<1>4. PICK d \in Double : m = Distance(n, d)
  OBVIOUS
<1>5. d \in Nearest(n)
  BY <1>3, <1>4 DEF Nearest
<1>6. ASSUME n \in Double, NEW e \in Nearest(n) PROVE e = n
  <2>1. e \in Double /\ Distance(n, e) <= Distance(n, n)
    BY <1>6 DEF Nearest
  <2>2. QED
    BY <1>1, <1>6, <2>1
<1>7. QED
  BY <1>1, <1>5, <1>6 DEF Nearest

(* A decimal is read as what is admitted for it, or refused for its size.  *)
LEMMA FloatIs ==
    ASSUME NEW n \in Int
    PROVE  /\ n \in -MaxDecimal .. MaxDecimal =>
                \E m \in IF n \in Double THEN {n} ELSE Nearest(n) :
                    m \in Int /\ parseFloat(n) = Value("float64", m)
           /\ n \notin -MaxDecimal .. MaxDecimal => parseFloat(n) = Failed
<1> DEFINE m == CHOOSE d \in Nearest(n) : TRUE
<1>1. m \in Nearest(n) /\ m \in Int /\ (n \in Double => m = n)
  BY NearestIs
<1> HIDE DEF m
<1>2. parseFloat(n) = IF n \in -MaxDecimal .. MaxDecimal THEN Value("float64", m) ELSE Failed
  BY DEF parseFloat, m
<1>3. QED
  BY <1>1, <1>2

(* Reading a value of a FLOAT column, and when it is refused.              *)
LEMMA FloatsDecode ==
    ASSUME NEW v \in [go : GoType, n : Int], Served(v), v.go \in {"float64", "float32"} \cup Text
    PROVE  /\ decodeValue("Float64", v) = Failed <=> v.go \in Text /\ v.n \notin -MaxDecimal .. MaxDecimal
           /\ decodeValue("Float64", v) # Failed =>
                 \E m \in Admitted("Float64", v) : decodeValue("Float64", v) = Value("float64", m)
<1>1. \A m \in Int : Value("float64", m) # Failed
  BY NoValueFails DEF GoType
<1>2. CASE v.go = "float64"
  <2>1. decodeValue("Float64", v) = Value("float64", v.n)
    BY <1>2 DEF decodeValue, Integer, Text
  <2>2. Admitted("Float64", v) = {v.n}
    BY <1>2 DEF Admitted, Meant, Served
  <2>3. QED
    BY <1>1, <1>2, <2>1, <2>2 DEF Text
<1>3. CASE v.go = "float32"
  <2> DEFINE n == Shortest[v.n]
  <2>1. decodeValue("Float64", v) = parseFloat(n)
    BY <1>3 DEF decodeValue, float32ToFloat64, Integer, Text
  <2>2. n \in Int /\ n \in -MaxDecimal .. MaxDecimal
    BY <1>3, BatchesAssumption DEF Served
  <2>3. Admitted("Float64", v) = IF n \in Double THEN {n} ELSE Nearest(n)
    BY <1>3 DEF Admitted, Meant
  <2> HIDE DEF n
  <2>4. QED
    BY <1>1, <1>3, <2>1, <2>2, <2>3, FloatIs DEF Text
<1>4. CASE v.go \in Text
  <2>1. decodeValue("Float64", v) = parseFloat(v.n)
    BY <1>4 DEF decodeValue, Integer, Text
  <2>2. Admitted("Float64", v) = IF v.n \in Double THEN {v.n} ELSE Nearest(v.n)
    BY <1>4 DEF Admitted, Meant, Text
  <2>3. QED
    BY <1>1, <1>4, <2>1, <2>2, FloatIs
<1>5. QED
  BY <1>2, <1>3, <1>4

(* What a decoded value is, if it is one.                                  *)
LEMMA DecodedIs ==
    ASSUME NEW kind \in {"String", "Int64", "Float64", "Timestamp"},
           NEW v \in [go : GoType, n : Int], Served(v), v.go # "nil", decodeValue(kind, v) # Failed
    PROVE  \E m \in Admitted(kind, v) : decodeValue(kind, v) = Value(GoTypeOf(kind), m)
<1>1. kind # "Float64" /\ v.go # "float32" => Admitted(kind, v) = {v.n}
  BY DEF Admitted, Meant
<1>2. CASE kind = "String"
  <2>1. v.go \in Text /\ decodeValue(kind, v) = Value("string", v.n)
    BY <1>2 DEF decodeValue
  <2>2. QED
    BY <1>1, <1>2, <2>1 DEF GoTypeOf, Text
<1>3. CASE kind = "Int64"
  <2>1. uint64ToInt64(v.n) \in {Failed, Value("int64", v.n)}
    BY DEF uint64ToInt64
  <2>2. parseInt64(v.n) \in {Failed, Value("int64", v.n)}
    BY <2>1 DEF parseInt64
  <2>3. decodeValue(kind, v) \in {Value("int64", v.n), uint64ToInt64(v.n), parseInt64(v.n), Failed}
    BY <1>3 DEF decodeValue
  <2>4. decodeValue(kind, v) = Value("int64", v.n)
    BY <2>1, <2>2, <2>3
  <2>5. v.go # "float32"
    BY <1>3 DEF decodeValue, Integer, Text
  <2>6. QED
    BY <1>1, <1>3, <2>4, <2>5 DEF GoTypeOf
<1>4. CASE kind = "Float64"
  <2>1. v.go \in {"float64", "float32"} \cup Text
    BY <1>4 DEF decodeValue
  <2>2. QED
    BY <1>4, <2>1, FloatsDecode DEF GoTypeOf
<1>5. CASE kind = "Timestamp"
  <2>1. v.go # "float32" /\ decodeValue(kind, v) = Value("time_utc", v.n)
    BY <1>5 DEF decodeValue, wallClockUTC, Text
  <2>2. QED
    BY <1>1, <1>5, <2>1 DEF GoTypeOf
<1>6. QED
  BY <1>2, <1>3, <1>4, <1>5

(* An integer, or the text of one, is refused when no int64 holds it.      *)
LEMMA IntegersDecode ==
    ASSUME NEW v \in [go : GoType, n : Int], Served(v), v.go \in Integer \cup Text \cup {"uint64"}
    PROVE  decodeValue("Int64", v) = Failed <=> v.n \notin MinInt64 .. MaxInt64
<1>1. Value("int64", v.n) # Failed /\ MaxInt64 \in Nat
  BY NoValueFails, BatchesAssumption DEF GoType, Integer
<1>2. CASE v.go \in Integer
  <2>1. decodeValue("Int64", v) = Value("int64", v.n)
    BY <1>2 DEF decodeValue, Integer, Text
  <2>2. QED
    BY <1>1, <1>2, <2>1 DEF Served
<1>3. CASE v.go = "uint64"
  <2>1. decodeValue("Int64", v) = uint64ToInt64(v.n)
    BY <1>3 DEF decodeValue, Integer, Text
  <2>2. v.n >= 0
    BY <1>1, <1>3 DEF Served
  <2>3. QED
    BY <1>1, <2>1, <2>2 DEF uint64ToInt64, MinInt64
<1>4. CASE v.go \in Text
  <2>1. decodeValue("Int64", v) = parseInt64(v.n)
    BY <1>4 DEF decodeValue, Integer, Text
  <2>2. QED
    BY <1>1, <2>1 DEF parseInt64, uint64ToInt64, MinInt64
<1>5. QED
  BY <1>2, <1>3, <1>4

(* Whatever a driver serves in a column of any type, however wide an int64 *)
(* is and wherever the gaps of floats are: decoded, validated and encoded  *)
(* it is the value it was, or it is refused, which numbers are only for    *)
(* their size; what is no float64 becomes one to which none is nearer.     *)
THEOREM ValuesAlwaysSurvive ==
    ASSUME NEW type \in DatabaseType, NEW v \in [go : GoType, n : Int], Served(v)
    PROVE  StoredAsServed(type, v)
<1> DEFINE kind == ColumnKind(type)
           decoded == decodeValue(kind, v)
           batch == [columns |-> <<[name |-> "c", kind |-> kind]>>, rows |-> {<<decoded>>}]
<1>1. kind \in {"String", "Int64", "Float64", "Timestamp", Failed}
  BY ColumnKindIs
<1>2. ASSUME kind # Failed, decoded # Failed
      PROVE  /\ Validate(batch)
             /\ \E n \in IF v.go = "nil" THEN {0} ELSE Admitted(kind, v) :
                   valueOf(kind, decoded) = [leaf |-> leafOf(kind), null |-> v.go = "nil", n |-> n]
  <2>1. kind \in {"String", "Int64", "Float64", "Timestamp"} /\ kind \in Kind
    BY <1>1, <1>2 DEF Kind
  <2>2. v.go = "nil" => decoded = v
    BY DEF decodeValue, Integer, Text
  <2> HIDE DEF kind
  <2>3. v.go # "nil" => \E m \in Admitted(kind, v) : decoded = Value(GoTypeOf(kind), m)
    BY <1>2, <2>1, DecodedIs
  <2> HIDE DEF decoded
  <2>4. decoded.go = "nil" \/ decoded.go = GoTypeOf(kind)
    BY <2>2, <2>3 DEF Value
  <2>5. Validate(batch)
    <3>1. batch.columns = <<[name |-> "c", kind |-> kind]>> /\ batch.rows = {<<decoded>>}
      OBVIOUS
    <3>2. \A i \in DOMAIN batch.columns : i = 1 /\ batch.columns[i] = [name |-> "c", kind |-> kind]
      OBVIOUS
    <3>3. \A row \in batch.rows :
             /\ Len(row) = Len(batch.columns)
             /\ \A i \in DOMAIN row : i = 1 /\ row[i] = decoded
      OBVIOUS
    <3> HIDE DEF batch
    <3>4. \A i \in DOMAIN batch.columns :
             /\ batch.columns[i].name # NoName
             /\ \A j \in 1 .. i - 1 : batch.columns[j].name # batch.columns[i].name
             /\ batch.columns[i].kind \in Kind
      BY <2>1, <3>2, SomeName
    <3>5. \A row \in batch.rows : \A i \in DOMAIN row :
              row[i].go = "nil" \/ validateValue(batch.columns[i].kind, row[i])
      BY <2>4, <3>1, <3>3 DEF validateValue
    <3>6. QED
      BY <3>3, <3>4, <3>5 DEF Validate
  <2>6. CASE v.go = "nil"
    <3>1. valueOf(kind, decoded) = [leaf |-> leafOf(kind), null |-> v.go = "nil", n |-> 0]
      BY <2>2, <2>6, NilIsNotNamed DEF valueOf
    <3>2. QED
      BY <2>5, <2>6, <3>1
  <2>7. CASE v.go # "nil"
    <3>1. PICK m \in Admitted(kind, v) : decoded = Value(GoTypeOf(kind), m)
      BY <2>3, <2>7
    <3>2. valueOf(kind, decoded) = [leaf |-> leafOf(kind), null |-> v.go = "nil", n |-> m]
      BY <2>7, <3>1, NilIsNotNamed DEF valueOf, Value
    <3>3. QED
      BY <2>5, <2>7, <3>2
  <2>8. QED
    BY <2>6, <2>7
<1>3. ASSUME kind = "Int64", v.go \in Integer \cup Text \cup {"uint64"}
      PROVE  decoded = Failed <=> v.n \notin MinInt64 .. MaxInt64
  BY <1>3, IntegersDecode
<1>4. ASSUME kind = "Float64", v.go \in {"float64", "float32"} \cup Text
      PROVE  decoded = Failed <=> v.go \in Text /\ v.n \notin -MaxDecimal .. MaxDecimal
  BY <1>4, FloatsDecode
<1>5. QED
  BY <1>2, <1>3, <1>4 DEF StoredAsServed

-----------------------------------------------------------------------------

ProvenanceName == {"_extracted_at", "_window_start", "_window_end", "_source_file"}

(* Four columns, of different names in lower case.                         *)
LEMMA ProvenanceIs ==
    /\ Provenance \in Seq(ProvenanceName) /\ DOMAIN Provenance = 1 .. 4 /\ Len(Provenance) = 4
    /\ \A k \in 1 .. 4 : Fold(Provenance[k]) = Provenance[k]
    /\ \A k, m \in 1 .. 4 : Provenance[k] = Provenance[m] => k = m
<1>0. Provenance \in Seq(ProvenanceName) /\ Len(Provenance) = 4
  BY DEF Provenance, ProvenanceName
<1>1. /\ DOMAIN Provenance = 1 .. 4
      /\ Provenance[1] = "_extracted_at" /\ Provenance[2] = "_window_start"
      /\ Provenance[3] = "_window_end" /\ Provenance[4] = "_source_file"
  <2> DEFINE p == Provenance
  <2>1. DOMAIN p = 1 .. 4
    BY <1>0, LenProperties
  <2>2. p[1] = "_extracted_at" /\ p[2] = "_window_start"
    BY DEF Provenance
  <2>3. p[3] = "_window_end" /\ p[4] = "_source_file"
    BY DEF Provenance
  <2>4. QED
    BY <2>1, <2>2, <2>3
<1>2. \A k \in 1 .. 4 : k = 1 \/ k = 2 \/ k = 3 \/ k = 4
  OBVIOUS
<1>3. QED
  BY <1>0, <1>1, <1>2 DEF Fold

(* The schema of a file: the names of the columns, then the provenance.    *)
LEMMA SchemaIs ==
    ASSUME NEW columns \in Seq(Column)
    PROVE  /\ DOMAIN schemaOf(columns) = 1 .. Len(columns) + 4
           /\ \A i \in 1 .. Len(columns) : schemaOf(columns)[i] = columns[i].name
           /\ \A k \in 1 .. 4 : schemaOf(columns)[Len(columns) + k] = Provenance[k]
<1> DEFINE names == [i \in DOMAIN columns |-> columns[i].name]
           n == Len(columns)
           U == {columns[i].name : i \in 1 .. n} \cup ProvenanceName
<1>1. n \in Nat /\ DOMAIN columns = 1 .. n
  OBVIOUS
<1>2. names \in Seq(U) /\ Len(names) = n /\ \A i \in 1 .. n : names[i] = columns[i].name
  BY <1>1
<1>3. Provenance \in Seq(U) /\ Len(Provenance) = 4
  <2>1. ProvenanceName \subseteq U
    OBVIOUS
  <2> HIDE DEF U
  <2>2. QED
    BY <2>1, ProvenanceIs, SeqMonotonic
<1> HIDE DEF names, n, U
<1>4. names \o Provenance \in Seq(U) /\ Len(names \o Provenance) = n + 4
  <2>1. /\ names \o Provenance \in Seq(U)
        /\ Len(names \o Provenance) = Len(names) + Len(Provenance)
    BY <1>2, <1>3, ConcatProperties, Zenon
  <2>2. QED
    BY <1>2, <1>3, <2>1
<1>5. \A i \in 1 .. n : (names \o Provenance)[i] = names[i]
  BY <1>1, <1>2, <1>3
<1>6. \A k \in 1 .. 4 : (names \o Provenance)[n + k] = Provenance[k]
  <2> TAKE k \in 1 .. 4
  <2>1. n + k \in 1 .. n + 4 /\ n + k > n /\ (n + k) - n = k
    BY <1>1
  <2>2. n + k \in 1 .. Len(names) + Len(Provenance)
    BY <1>2, <1>3, <2>1
  <2>3. \A i \in 1 .. Len(names) + Len(Provenance) :
           (names \o Provenance)[i] = IF i <= Len(names) THEN names[i] ELSE Provenance[i - Len(names)]
    BY <1>2, <1>3, ConcatProperties, Zenon
  <2>4. QED
    BY <1>1, <1>2, <2>1, <2>2, <2>3
<1>7. DOMAIN (names \o Provenance) = 1 .. n + 4
  BY <1>4
<1>8. schemaOf(columns) = names \o Provenance
  BY DEF schemaOf, names
<1>9. QED
  BY <1>2, <1>5, <1>6, <1>7, <1>8 DEF n

(* A valid value has a form in the file.                                   *)
LEMMA ValidValueIsStored ==
    ASSUME NEW kind \in Kind, NEW v \in [go : GoType, n : Int], v.go = "nil" \/ validateValue(kind, v)
    PROVE  valueOf(kind, v) # Failed
<1>1. leafOf(kind) \in Leaf
  BY KindHasLeaf
<1>2. CASE v.go = "nil"
  <2>1. valueOf(kind, v) = [leaf |-> leafOf(kind), null |-> TRUE, n |-> 0]
    BY <1>2, NilIsNotNamed DEF valueOf
  <2>2. 0 \in Int
    OBVIOUS
  <2>3. QED
    BY <1>1, <2>1, <2>2, NoValueFails, Zenon
<1>3. CASE v.go # "nil"
  <2>1. valueOf(kind, v) = [leaf |-> leafOf(kind), null |-> FALSE, n |-> v.n]
    BY <1>3, NilIsNotNamed DEF valueOf, validateValue
  <2>2. v.n \in Int
    OBVIOUS
  <2>3. QED
    BY <1>1, <2>1, <2>2, NoValueFails, Zenon
<1>4. QED
  BY <1>2, <1>3

(* Batches of any columns and rows: what Validate and the check for        *)
(* collisions accept, schemaOf and encode have a leaf, a value and a name  *)
(* of its own for: they never panic (writer.go:322).                       *)
THEOREM AcceptedIsAlwaysEncodable ==
    ASSUME NEW b \in [columns : Seq(Column), rows : SUBSET Seq([go : GoType, n : Int])]
    PROVE  AcceptedIsEncodable(b)
<1> DEFINE columns == b.columns
           n == Len(columns)
           file == encode(b)
           under(name) == {i \in DOMAIN file.schema : Fold(file.schema[i]) = name}
<1> SUFFICES ASSUME ~WriteRefuses(b)
             PROVE  /\ \A i \in DOMAIN b.columns : leafOf(b.columns[i].kind) # Failed
                    /\ \A row \in file.rows : Len(row) = Len(b.columns) /\ \A i \in DOMAIN row : row[i] # Failed
                    /\ \A i, j \in DOMAIN file.schema : file.schema[i] = file.schema[j] => i = j
                    /\ \A k \in DOMAIN Provenance : under(Provenance[k]) = {Len(b.columns) + k}
  BY DEF AcceptedIsEncodable
<1>1. columns \in Seq(Column) /\ n \in Nat /\ DOMAIN columns = 1 .. n
  OBVIOUS
<1>2. \A i \in 1 .. n : /\ columns[i].kind \in Kind
                        /\ \A j \in 1 .. i - 1 : columns[j].name # columns[i].name
                        /\ ~provenanceCollision(columns[i].name)
  BY <1>1 DEF WriteRefuses, Validate
<1>3. \A row \in b.rows :
         /\ Len(row) = n
         /\ \A i \in DOMAIN row : row[i].go = "nil" \/ validateValue(columns[i].kind, row[i])
  BY DEF WriteRefuses, Validate
<1>4. \A row \in file.rows : Len(row) = n /\ \A i \in DOMAIN row : row[i] # Failed
  <2> DEFINE stored(row) == [i \in DOMAIN row |-> valueOf(columns[i].kind, row[i])]
  <2>1. file.rows = {stored(row) : row \in b.rows}
    BY DEF encode
  <2>2. ASSUME NEW row \in b.rows
        PROVE  Len(stored(row)) = n /\ \A i \in DOMAIN stored(row) : stored(row)[i] # Failed
    <3>1. row \in Seq([go : GoType, n : Int]) /\ DOMAIN row = 1 .. n
      <4>1. b.rows \in SUBSET Seq([go : GoType, n : Int])
        OBVIOUS
      <4>2. row \in Seq([go : GoType, n : Int])
        BY <2>2, <4>1, Zenon
      <4>3. QED
        BY <1>3, <2>2, <4>2, LenProperties
    <3>2. DOMAIN stored(row) = 1 .. n /\ Len(stored(row)) = n
      BY <1>1, <3>1
    <3>3. ASSUME NEW i \in 1 .. n PROVE valueOf(columns[i].kind, row[i]) # Failed
      <4>1. columns[i].kind \in Kind
        BY <1>2
      <4>2. row[i] \in [go : GoType, n : Int]
        BY <1>3, <2>2, <3>1, <3>3, ElementOfSeq, Zenon
      <4>3. row[i].go = "nil" \/ validateValue(columns[i].kind, row[i])
        BY <1>3, <3>1
      <4>4. QED
        BY <4>1, <4>2, <4>3, ValidValueIsStored
    <3>4. QED
      BY <3>1, <3>2, <3>3
  <2>3. QED
    BY <2>1, <2>2
<1>5. file.schema = schemaOf(columns)
  BY DEF encode
<1>6. /\ DOMAIN file.schema = 1 .. n + 4
      /\ \A i \in 1 .. n : file.schema[i] = columns[i].name
      /\ \A k \in 1 .. 4 : file.schema[n + k] = Provenance[k]
  BY <1>1, <1>5, SchemaIs
<1>7. \A i \in 1 .. n + 4 : i \in 1 .. n \/ \E k \in 1 .. 4 : i = n + k
  <2> TAKE i \in 1 .. n + 4
  <2>1. CASE i <= n
    BY <1>1, <2>1
  <2>2. CASE i > n
    <3>1. i - n \in 1 .. 4 /\ i = n + (i - n)
      BY <1>1, <2>2
    <3>2. QED
      BY <3>1
  <2>3. QED
    BY <1>1, <2>1, <2>2
<1> HIDE DEF columns, n, file
<1>8. \A i \in 1 .. n, k \in 1 .. 4 : /\ Fold(file.schema[i]) # Provenance[k]
                                    /\ file.schema[i] # Provenance[k]
  <2> TAKE i \in 1 .. n, k \in 1 .. 4
  <2>1. Provenance[k] # Fold(columns[i].name)
    BY <1>2, ProvenanceIs DEF provenanceCollision
  <2>2. columns[i].name # Provenance[k]
    BY <2>1, ProvenanceIs
  <2>3. QED
    BY <1>6, <2>1, <2>2
<1>9. \A k, m \in 1 .. 4 : file.schema[n + k] = file.schema[n + m] => k = m
  BY <1>6, ProvenanceIs
<1>10. ASSUME NEW i \in 1 .. n, NEW j \in 1 .. n, file.schema[i] = file.schema[j]
       PROVE  i = j
  <2>1. columns[i].name = columns[j].name
    BY <1>6, <1>10
  <2>2. ~(j < i)
    BY <1>1, <1>2, <2>1
  <2>3. ~(i < j)
    BY <1>1, <1>2, <2>1
  <2>4. QED
    BY <1>1, <2>2, <2>3
<1>11. ASSUME NEW i \in DOMAIN file.schema, NEW j \in DOMAIN file.schema, file.schema[i] = file.schema[j]
       PROVE  i = j
  <2>1. CASE i \in 1 .. n /\ j \in 1 .. n
    BY <1>10, <1>11, <2>1
  <2>2. CASE \E k \in 1 .. 4 : i = n + k
    <3>1. PICK k \in 1 .. 4 : i = n + k
      BY <2>2
    <3>2. j \notin 1 .. n
      BY <1>6, <1>8, <1>11, <3>1
    <3>3. PICK m \in 1 .. 4 : j = n + m
      BY <1>6, <1>7, <3>2
    <3>4. QED
      BY <1>9, <1>11, <3>1, <3>3
  <2>3. CASE \E k \in 1 .. 4 : j = n + k
    <3>1. PICK k \in 1 .. 4 : j = n + k
      BY <2>3
    <3>2. i \notin 1 .. n
      BY <1>6, <1>8, <1>11, <3>1
    <3>3. PICK m \in 1 .. 4 : i = n + m
      BY <1>6, <1>7, <3>2
    <3>4. QED
      BY <1>9, <1>11, <3>1, <3>3
  <2>4. QED
    BY <1>6, <1>7, <2>1, <2>2, <2>3
<1>12. ASSUME NEW k \in 1 .. 4 PROVE under(Provenance[k]) = {n + k}
  <2>1. n + k \in DOMAIN file.schema
    BY <1>1, <1>6
  <2>2. Fold(file.schema[n + k]) = Provenance[k]
    BY <1>6, ProvenanceIs
  <2>3. ASSUME NEW i \in DOMAIN file.schema, Fold(file.schema[i]) = Provenance[k]
        PROVE  i = n + k
    <3>1. i \notin 1 .. n
      BY <1>8, <2>3
    <3>2. PICK m \in 1 .. 4 : i = n + m
      BY <1>6, <1>7, <3>1
    <3>3. m = k
      BY <1>6, <2>3, <3>2, ProvenanceIs
    <3>4. QED
      BY <3>2, <3>3
  <2>4. QED
    BY <2>1, <2>2, <2>3
<1>13. \A i \in 1 .. n : leafOf(columns[i].kind) # Failed
  BY <1>2, KindHasLeaf
<1>14. QED
  BY <1>1, <1>4, <1>11, <1>12, <1>13, ProvenanceIs DEF columns, n

-----------------------------------------------------------------------------
(* History: the rows of dim_issues_scd2 are the changes of an issue.       *)

Snapshot == [issue_id : Issue, snapshot_date : Nat, tracked : Tracked]

(* A day has one snapshot of an issue, and there is a last day.            *)
AreSnapshots(snaps) ==
    /\ snaps \subseteq Snapshot
    /\ \A s, t \in snaps : s.issue_id = t.issue_id /\ s.snapshot_date = t.snapshot_date => s = t
    /\ \E last \in Nat : \A s \in snaps : s.snapshot_date <= last

UpTo(snaps, s) == {t \in snaps : t.issue_id = s.issue_id /\ t.snapshot_date <= s.snapshot_date}

Changes(snaps, s) == {t \in UpTo(snaps, s) : is_change(snaps, t)}

(* The snapshots before one and itself are those up to it, and run_id      *)
(* counts the changes among them.                                          *)
LEMMA BeforeOrSelf ==
    ASSUME NEW snaps, AreSnapshots(snaps), NEW s \in snaps
    PROVE  /\ Before(snaps, s) \cup {s} = UpTo(snaps, s)
           /\ run_id(snaps, s) = Cardinality(Changes(snaps, s))
<1>1. \A t \in snaps : t.snapshot_date \in Nat
  BY DEF AreSnapshots, Snapshot
<1>2. ASSUME NEW t \in UpTo(snaps, s) PROVE t \in Before(snaps, s) \cup {s}
  BY <1>1, <1>2 DEF AreSnapshots, UpTo, Before
<1>3. Before(snaps, s) \cup {s} = UpTo(snaps, s)
  BY <1>1, <1>2 DEF UpTo, Before
<1>4. QED
  BY <1>3 DEF run_id, Changes

(* An issue has finitely many snapshots up to a day.                       *)
LEMMA UpToIsFinite ==
    ASSUME NEW snaps, AreSnapshots(snaps), NEW s \in snaps
    PROVE  IsFiniteSet(UpTo(snaps, s))
<1> DEFINE U == UpTo(snaps, s)
           date == [t \in U |-> t.snapshot_date]
<1>1. \A t \in U : t \in snaps /\ t.snapshot_date \in 0 .. s.snapshot_date /\ t.issue_id = s.issue_id
  BY DEF AreSnapshots, Snapshot, UpTo
<1>2. date \in [U -> 0 .. s.snapshot_date]
  BY <1>1
<1>3. \A t, u \in U : date[t] = date[u] => t = u
  BY <1>1 DEF AreSnapshots
<1>4. date \in Injection(U, 0 .. s.snapshot_date)
  BY <1>2, <1>3 DEF Injection, IsInjective
<1>5. IsFiniteSet(0 .. s.snapshot_date)
  BY FS_Interval DEF AreSnapshots, Snapshot
<1> HIDE DEF U, date
<1>6. QED
  BY <1>4, <1>5, FS_Injection DEF U

(* lag() is the snapshot just before.                                      *)
LEMMA LagIsBefore ==
    ASSUME NEW snaps, AreSnapshots(snaps), NEW s \in snaps, Before(snaps, s) # {}
    PROVE  /\ Lag(snaps, s) \in Before(snaps, s)
           /\ \A u \in Before(snaps, s) : u.snapshot_date <= Lag(snaps, s).snapshot_date
<1> DEFINE B == Before(snaps, s)
           D == {t.snapshot_date : t \in B}
<1>1. D \in SUBSET Nat /\ D # {} /\ s.snapshot_date \in Nat /\ \A d \in D : d <= s.snapshot_date
  <2>1. \A t \in B : t.snapshot_date \in Nat /\ s.snapshot_date \in Nat /\ t.snapshot_date <= s.snapshot_date
    BY DEF AreSnapshots, Snapshot, Before
  <2>2. QED
    BY <2>1
<1>2. PICK d \in D : \A e \in D : e <= d
  <2> HIDE DEF D
  <2>1. QED
    BY <1>1, Greatest
<1>3. PICK t \in B : d = t.snapshot_date
  OBVIOUS
<1>4. \A u \in B : u.snapshot_date <= t.snapshot_date
  BY <1>2, <1>3
<1>5. QED
  BY <1>4 DEF Lag

(* run_id never falls, and it is the same from one snapshot to another     *)
(* exactly when nothing changes from the one to the other.                 *)
LEMMA RunIdGrows ==
    ASSUME NEW snaps, AreSnapshots(snaps), NEW s \in snaps, NEW t \in snaps,
           s.issue_id = t.issue_id, s.snapshot_date <= t.snapshot_date
    PROVE  /\ run_id(snaps, s) \in Nat /\ run_id(snaps, t) \in Nat
           /\ run_id(snaps, s) <= run_id(snaps, t)
           /\ run_id(snaps, s) = run_id(snaps, t) <=>
                 \A u \in snaps : /\ u.issue_id = s.issue_id
                                  /\ s.snapshot_date < u.snapshot_date
                                  /\ u.snapshot_date <= t.snapshot_date
                                  => ~is_change(snaps, u)
<1> DEFINE C == Changes(snaps, s)
           E == Changes(snaps, t)
<1>1. \A u \in snaps : u.snapshot_date \in Nat
  BY DEF AreSnapshots, Snapshot
<1>2. C \subseteq E
  BY <1>1 DEF Changes, UpTo
<1>3. IsFiniteSet(E) /\ IsFiniteSet(C)
  <2>1. IsFiniteSet(UpTo(snaps, t)) /\ IsFiniteSet(UpTo(snaps, s))
    BY UpToIsFinite
  <2>2. E \subseteq UpTo(snaps, t) /\ C \subseteq UpTo(snaps, s)
    BY DEF Changes
  <2>3. QED
    BY <2>1, <2>2, FS_Subset
<1>4. run_id(snaps, s) = Cardinality(C) /\ run_id(snaps, t) = Cardinality(E)
  BY BeforeOrSelf
<1>5. C = E <=> \A u \in snaps : /\ u.issue_id = s.issue_id
                                 /\ s.snapshot_date < u.snapshot_date
                                 /\ u.snapshot_date <= t.snapshot_date
                                 => ~is_change(snaps, u)
  BY <1>1, <1>2 DEF Changes, UpTo
<1> HIDE DEF C, E
<1>6. /\ Cardinality(C) \in Nat /\ Cardinality(E) \in Nat
      /\ Cardinality(C) <= Cardinality(E)
      /\ Cardinality(C) = Cardinality(E) => C = E
  BY <1>2, <1>3, FS_CardinalityType, FS_Subset
<1>7. QED
  BY <1>4, <1>5, <1>6

(* Nothing changed between snapshots of one run.                           *)
LEMMA RunIsOneState ==
    ASSUME NEW snaps, AreSnapshots(snaps), NEW s \in snaps, NEW t \in snaps,
           s.issue_id = t.issue_id, run_id(snaps, s) = run_id(snaps, t)
    PROVE  s.tracked = t.tracked
<1> DEFINE Differ(n) == \E u, v \in snaps :
                           /\ u.issue_id = v.issue_id /\ run_id(snaps, u) = run_id(snaps, v)
                           /\ u.snapshot_date <= v.snapshot_date /\ v.snapshot_date = n
                           /\ u.tracked # v.tracked
           N == {n \in Nat : Differ(n)}
<1>1. \A u \in snaps : u.snapshot_date \in Nat /\ u.tracked \in Tracked
  BY DEF AreSnapshots, Snapshot
<1>2. N = {}
  <2>1. SUFFICES ASSUME N # {} PROVE FALSE
    OBVIOUS
  <2>2. PICK n \in N : \A m \in N : n <= m
    <3> HIDE DEF Differ
    <3>1. N \in SUBSET Nat
      OBVIOUS
    <3> HIDE DEF N
    <3>2. QED
      BY <2>1, <3>1, Least
  <2>3. PICK u, v \in snaps : /\ u.issue_id = v.issue_id /\ run_id(snaps, u) = run_id(snaps, v)
                              /\ u.snapshot_date <= v.snapshot_date /\ v.snapshot_date = n
                              /\ u.tracked # v.tracked
    OBVIOUS
  <2> DEFINE l == Lag(snaps, v)
  <2>4. u \in Before(snaps, v)
    BY <1>1, <2>3 DEF AreSnapshots, Before
  <2>5. /\ l \in snaps /\ l.issue_id = v.issue_id
        /\ l.snapshot_date < v.snapshot_date /\ u.snapshot_date <= l.snapshot_date
    BY <2>4, LagIsBefore DEF Before
  <2> HIDE DEF l, N, Differ
  <2>6. run_id(snaps, u) = run_id(snaps, l)
    <3>1. /\ run_id(snaps, u) \in Nat /\ run_id(snaps, l) \in Nat /\ run_id(snaps, v) \in Nat
          /\ run_id(snaps, u) <= run_id(snaps, l) /\ run_id(snaps, l) <= run_id(snaps, v)
      BY <1>1, <2>3, <2>5, RunIdGrows
    <3>2. QED
      BY <2>3, <3>1
  <2>7. u.tracked = l.tracked
    <3>1. l.snapshot_date \notin N
      BY <1>1, <2>2, <2>3, <2>5
    <3>2. ~Differ(l.snapshot_date)
      BY <1>1, <2>5, <3>1 DEF N
    <3>3. QED
      BY <2>3, <2>5, <2>6, <3>2 DEF Differ
  <2>8. ~is_change(snaps, v)
    <3>1. u.snapshot_date < v.snapshot_date
      BY <2>4 DEF Before
    <3>2. \A w \in snaps : /\ w.issue_id = u.issue_id
                           /\ u.snapshot_date < w.snapshot_date
                           /\ w.snapshot_date <= v.snapshot_date
                           => ~is_change(snaps, w)
      BY <2>3, RunIdGrows
    <3>3. QED
      BY <1>1, <2>3, <3>1, <3>2
  <2>9. l.tracked = v.tracked
    <3>1. l.tracked.status = v.tracked.status /\ l.tracked.assignee = v.tracked.assignee
      BY <2>8 DEF is_change, l
    <3>2. QED
      BY <1>1, <2>5, <3>1 DEF Tracked
  <2>10. QED
    BY <2>3, <2>7, <2>9
<1>3. ~Differ(s.snapshot_date) /\ ~Differ(t.snapshot_date)
  <2> HIDE DEF Differ
  <2>1. QED
    BY <1>1, <1>2
<1>4. QED
  BY <1>1, <1>3

(* The snapshots of a run start with a change, and only with one.          *)
LEMMA RunStartsWithChange ==
    ASSUME NEW snaps, AreSnapshots(snaps), NEW m \in snaps
    PROVE  is_change(snaps, m) <=>
              \A t \in snaps : t.issue_id = m.issue_id /\ run_id(snaps, t) = run_id(snaps, m)
                                 => m.snapshot_date <= t.snapshot_date
<1>1. \A u \in snaps : u.snapshot_date \in Nat
  BY DEF AreSnapshots, Snapshot
<1>2. ASSUME is_change(snaps, m), NEW t \in snaps, t.issue_id = m.issue_id,
             run_id(snaps, t) = run_id(snaps, m), t.snapshot_date < m.snapshot_date
      PROVE  FALSE
  <2>1. \A u \in snaps : /\ u.issue_id = t.issue_id
                         /\ t.snapshot_date < u.snapshot_date
                         /\ u.snapshot_date <= m.snapshot_date
                         => ~is_change(snaps, u)
    BY <1>1, <1>2, RunIdGrows
  <2>2. QED
    BY <1>1, <1>2, <2>1
<1>3. ASSUME ~is_change(snaps, m)
      PROVE  \E t \in snaps : /\ t.issue_id = m.issue_id /\ run_id(snaps, t) = run_id(snaps, m)
                              /\ t.snapshot_date < m.snapshot_date
  <2> DEFINE l == Lag(snaps, m)
  <2>1. Before(snaps, m) # {}
    BY <1>3 DEF is_change
  <2>2. /\ l \in snaps /\ l.issue_id = m.issue_id /\ l.snapshot_date < m.snapshot_date
        /\ \A u \in snaps : u.issue_id = m.issue_id /\ u.snapshot_date < m.snapshot_date
                              => u.snapshot_date <= l.snapshot_date
    BY <2>1, LagIsBefore DEF Before
  <2> HIDE DEF l
  <2>3. ASSUME NEW u \in snaps, u.issue_id = l.issue_id,
               l.snapshot_date < u.snapshot_date, u.snapshot_date <= m.snapshot_date
        PROVE  u = m
    BY <1>1, <2>2, <2>3 DEF AreSnapshots
  <2>4. run_id(snaps, l) = run_id(snaps, m)
    BY <1>1, <1>3, <2>2, <2>3, RunIdGrows
  <2>5. QED
    BY <2>2, <2>4
<1>4. QED
  BY <1>1, <1>2, <1>3

(* The first snapshot of a run.                                            *)
LEMMA RunHasFirst ==
    ASSUME NEW snaps, AreSnapshots(snaps), NEW s \in snaps
    PROVE  \E m \in snaps : /\ is_change(snaps, m)
                            /\ m.issue_id = s.issue_id /\ run_id(snaps, m) = run_id(snaps, s)
                            /\ m.snapshot_date <= s.snapshot_date
                            /\ m.tracked = s.tracked
<1> DEFINE R == {t \in snaps : t.issue_id = s.issue_id /\ run_id(snaps, t) = run_id(snaps, s)}
           D == {t.snapshot_date : t \in R}
<1>1. \A u \in snaps : u.snapshot_date \in Nat
  BY DEF AreSnapshots, Snapshot
<1>2. PICK d \in D : \A e \in D : d <= e
  <2>1. D \in SUBSET Nat /\ D # {}
    BY <1>1
  <2> HIDE DEF D
  <2>2. QED
    BY <2>1, Least
<1>3. PICK m \in R : d = m.snapshot_date
  OBVIOUS
<1>4. \A t \in R : m.snapshot_date <= t.snapshot_date
  BY <1>2, <1>3
<1>5. is_change(snaps, m)
  BY <1>4, RunStartsWithChange
<1>6. m.tracked = s.tracked
  BY RunIsOneState
<1>7. QED
  BY <1>4, <1>5, <1>6

(* max() over the snapshots of a run is what they all have.                *)
LEMMA MaxOfOneState ==
    ASSUME NEW R, NEW m \in R, m.tracked \in Tracked, \A t \in R : t.tracked = m.tracked
    PROVE  [a \in {"status", "assignee"} |-> MaxOf(R, a)] = m.tracked
<1>1. ASSUME NEW a \in {"status", "assignee"} PROVE MaxOf(R, a) = m.tracked[a]
  <2> DEFINE values == {t.tracked[a] : t \in R} \ {Null}
  <2>1. values = {m.tracked[a]} \ {Null}
    OBVIOUS
  <2>2. MaxOf(R, a) = IF values = {} THEN Null
                      ELSE IF "open" \in values THEN "open" ELSE CHOOSE v \in values : TRUE
    BY DEF MaxOf
  <2> HIDE DEF values
  <2>3. CASE m.tracked[a] = Null
    BY <2>1, <2>2, <2>3
  <2>4. CASE m.tracked[a] # Null
    <3>1. values = {m.tracked[a]}
      BY <2>1, <2>4
    <3>2. QED
      BY <2>2, <3>1
  <2>5. QED
    BY <2>3, <2>4
<1>2. QED
  BY <1>1 DEF Tracked

RowOf(m) == [issue_id |-> m.issue_id, valid_from |-> m.snapshot_date, tracked |-> m.tracked]

(* The rows are the changes.                                               *)
LEMMA RunsAreChanges ==
    ASSUME NEW snaps, AreSnapshots(snaps)
    PROVE  runs(snaps) = {RowOf(m) : m \in {s \in snaps : is_change(snaps, s)}}
<1> DEFINE RunOf(s) == {t \in snaps : t.issue_id = s.issue_id /\ run_id(snaps, t) = run_id(snaps, s)}
           Row(s) == [issue_id |-> s.issue_id,
                      valid_from |-> Min({t.snapshot_date : t \in RunOf(s)}),
                      tracked |-> [a \in {"status", "assignee"} |-> MaxOf(RunOf(s), a)]]
<1>1. \A u \in snaps : u.snapshot_date \in Nat /\ u.tracked \in Tracked
  BY DEF AreSnapshots, Snapshot
<1>2. ASSUME NEW s \in snaps, NEW m \in snaps, is_change(snaps, m), m.issue_id = s.issue_id,
             run_id(snaps, m) = run_id(snaps, s)
      PROVE  Row(s) = RowOf(m)
  <2> DEFINE D == {t.snapshot_date : t \in RunOf(s)}
  <2>1. m \in RunOf(s) /\ \A t \in RunOf(s) : m.snapshot_date <= t.snapshot_date /\ t.tracked = m.tracked
    BY <1>2, RunStartsWithChange, RunIsOneState
  <2>2. Min(D) = m.snapshot_date
    <3>1. m.snapshot_date \in D /\ \A d \in D : m.snapshot_date <= d
      BY <2>1
    <3>2. D \in SUBSET Nat
      BY <1>1
    <3> HIDE DEF D
    <3>3. QED
      BY <3>1, <3>2, MinIs
  <2>3. [a \in {"status", "assignee"} |-> MaxOf(RunOf(s), a)] = m.tracked
    <3> HIDE DEF RunOf
    <3>1. QED
      BY <1>1, <2>1, MaxOfOneState
  <2>4. QED
    BY <1>2, <2>2, <2>3 DEF RowOf
<1>3. runs(snaps) = {Row(s) : s \in snaps}
  BY Zenon DEF runs
<1> HIDE DEF Row, RunOf
<1>4. ASSUME NEW s \in snaps
      PROVE  \E m \in {t \in snaps : is_change(snaps, t)} : Row(s) = RowOf(m)
  <2>1. PICK m \in snaps : is_change(snaps, m) /\ m.issue_id = s.issue_id
                           /\ run_id(snaps, m) = run_id(snaps, s)
    BY RunHasFirst
  <2>2. QED
    BY <1>2, <2>1
<1>5. ASSUME NEW m \in snaps, is_change(snaps, m) PROVE Row(m) = RowOf(m)
  BY <1>2, <1>5
<1>6. QED
  BY <1>3, <1>4, <1>5

-----------------------------------------------------------------------------

(* What dim_issues_scd2 says of a change.                                  *)
IntervalOf(snaps, m) ==
    LET later == {c.snapshot_date : c \in {s \in snaps : /\ is_change(snaps, s) /\ s.issue_id = m.issue_id
                                                        /\ s.snapshot_date > m.snapshot_date}}
    IN  [issue_id |-> m.issue_id, tracked |-> m.tracked, valid_from |-> m.snapshot_date,
         valid_to |-> IF later = {} THEN Null ELSE Min(later),
         is_current |-> later = {}]

(* A row is an interval of a change, and each change has one.              *)
LEMMA IntervalsAreChanges ==
    ASSUME NEW snaps, AreSnapshots(snaps)
    PROVE  dim_issues_scd2(snaps) = {IntervalOf(snaps, m) : m \in {s \in snaps : is_change(snaps, s)}}
<1> DEFINE C == {s \in snaps : is_change(snaps, s)}
           rs == {RowOf(m) : m \in C}
           Interval(r) == [issue_id |-> r.issue_id, tracked |-> r.tracked, valid_from |-> r.valid_from,
                           valid_to |-> IF Later(rs, r) = {} THEN Null ELSE Min(Later(rs, r)),
                           is_current |-> Later(rs, r) = {}]
<1>1. ASSUME NEW m \in C
      PROVE  Later(rs, RowOf(m)) = {c.snapshot_date : c \in {s \in snaps : /\ is_change(snaps, s)
                                                                         /\ s.issue_id = m.issue_id
                                                                         /\ s.snapshot_date > m.snapshot_date}}
  <2>1. Later(rs, RowOf(m)) = {q.valid_from : q \in {p \in rs : /\ p.issue_id = m.issue_id
                                                              /\ p.valid_from > m.snapshot_date}}
    BY DEF Later, RowOf
  <2>2. {p \in rs : p.issue_id = m.issue_id /\ p.valid_from > m.snapshot_date}
          = {RowOf(c) : c \in {s \in C : s.issue_id = m.issue_id /\ s.snapshot_date > m.snapshot_date}}
    BY DEF RowOf
  <2>3. \A c \in C : RowOf(c).valid_from = c.snapshot_date
    BY DEF RowOf
  <2>4. QED
    BY <2>1, <2>2, <2>3
<1>2. ASSUME NEW m \in C PROVE Interval(RowOf(m)) = IntervalOf(snaps, m)
  <2>1. /\ RowOf(m).issue_id = m.issue_id /\ RowOf(m).tracked = m.tracked
        /\ RowOf(m).valid_from = m.snapshot_date
    BY DEF RowOf
  <2> HIDE DEF rs
  <2>2. QED
    BY <1>1, <2>1, Zenon DEF IntervalOf
<1>3. dim_issues_scd2(snaps) = {Interval(r) : r \in rs}
  BY RunsAreChanges, Zenon DEF dim_issues_scd2
<1> HIDE DEF Interval
<1>4. {Interval(r) : r \in rs} = {Interval(RowOf(m)) : m \in C}
  OBVIOUS
<1>5. QED
  BY <1>2, <1>3, <1>4

(* When the interval of a change ends.                                     *)
LEMMA IntervalEnds ==
    ASSUME NEW snaps, AreSnapshots(snaps), NEW m \in snaps
    PROVE  LET r == IntervalOf(snaps, m)
               next(c) == /\ c \in snaps /\ is_change(snaps, c) /\ c.issue_id = m.issue_id
                          /\ c.snapshot_date > m.snapshot_date
           IN  /\ r.issue_id = m.issue_id /\ r.tracked = m.tracked /\ r.valid_from = m.snapshot_date
               /\ r.is_current <=> \A c \in snaps : ~next(c)
               /\ r.is_current => r.valid_to = Null
               /\ ~r.is_current => /\ r.valid_to \in Nat
                                   /\ \E c \in snaps : next(c) /\ r.valid_to = c.snapshot_date
                                   /\ \A c \in snaps : next(c) => r.valid_to <= c.snapshot_date
<1> DEFINE later == {c.snapshot_date : c \in {s \in snaps : /\ is_change(snaps, s) /\ s.issue_id = m.issue_id
                                                          /\ s.snapshot_date > m.snapshot_date}}
<1>1. later \in SUBSET Nat
  BY DEF AreSnapshots, Snapshot
<1>2. later # {} => Min(later) \in later /\ \A d \in later : Min(later) <= d
  <2> HIDE DEF later
  <2>1. QED
    BY <1>1, MinIsLeast
<1>3. QED
  BY <1>1, <1>2 DEF IntervalOf

(* The interval that holds the day of a snapshot.                          *)
LEMMA SnapshotHasInterval ==
    ASSUME NEW snaps, AreSnapshots(snaps), NEW s \in snaps
    PROVE  \E r \in dim_issues_scd2(snaps) :
              /\ r.issue_id = s.issue_id /\ r.tracked = s.tracked /\ Holds(r, s.snapshot_date)
              /\ ~r.is_current => \E t \in snaps : t.snapshot_date > s.snapshot_date
<1>1. \A u \in snaps : u.snapshot_date \in Nat
  BY DEF AreSnapshots, Snapshot
<1>2. PICK m \in snaps : /\ is_change(snaps, m)
                        /\ m.issue_id = s.issue_id /\ run_id(snaps, m) = run_id(snaps, s)
                        /\ m.snapshot_date <= s.snapshot_date
                        /\ m.tracked = s.tracked
  BY RunHasFirst
<1> DEFINE r == IntervalOf(snaps, m)
<1>3. r \in dim_issues_scd2(snaps)
  BY <1>2, IntervalsAreChanges
<1>4. \A c \in snaps : /\ is_change(snaps, c) /\ c.issue_id = m.issue_id
                       /\ c.snapshot_date > m.snapshot_date
                       => c.snapshot_date > s.snapshot_date
  BY <1>1, <1>2, RunIdGrows
<1>5. /\ r.issue_id = m.issue_id /\ r.tracked = m.tracked /\ r.valid_from = m.snapshot_date
      /\ ~r.is_current => \E c \in snaps : /\ is_change(snaps, c) /\ c.issue_id = m.issue_id
                                           /\ c.snapshot_date > m.snapshot_date
                                           /\ r.valid_to = c.snapshot_date
  BY IntervalEnds
<1> HIDE DEF r
<1>6. ~r.is_current => /\ r.valid_to > s.snapshot_date
                       /\ \E t \in snaps : t.snapshot_date > s.snapshot_date
  BY <1>1, <1>4, <1>5
<1>7. Holds(r, s.snapshot_date)
  BY <1>1, <1>2, <1>5, <1>6 DEF Holds
<1>8. QED
  BY <1>2, <1>3, <1>5, <1>6, <1>7

(* An issue has one current interval, and intervals in order.              *)
LEMMA IntervalsInOrder ==
    ASSUME NEW snaps, AreSnapshots(snaps)
    PROVE  LET scd2 == dim_issues_scd2(snaps) IN
           /\ \A r \in scd2 : Cardinality({q \in scd2 : q.issue_id = r.issue_id /\ q.is_current}) = 1
           /\ \A r \in scd2 : (r.valid_to = Null) = r.is_current
           /\ \A q, r \in scd2 : q # r /\ q.issue_id = r.issue_id =>
                 /\ q.valid_from # r.valid_from
                 /\ q.valid_from < r.valid_from => ~q.is_current /\ q.valid_to <= r.valid_from
                 /\ q.valid_to = r.valid_from => q.tracked # r.tracked
<1> DEFINE scd2 == dim_issues_scd2(snaps)
           I(m) == IntervalOf(snaps, m)
<1>1. \A u \in snaps : u.snapshot_date \in Nat /\ u.tracked \in Tracked
  BY DEF AreSnapshots, Snapshot
<1>2. ASSUME NEW r \in scd2
      PROVE  \E m \in snaps : is_change(snaps, m) /\ r = I(m)
  BY IntervalsAreChanges
<1>3. ASSUME NEW m \in snaps, is_change(snaps, m) PROVE I(m) \in scd2
  BY <1>3, IntervalsAreChanges
<1>4. ASSUME NEW m \in snaps
      PROVE  /\ I(m).issue_id = m.issue_id /\ I(m).tracked = m.tracked /\ I(m).valid_from = m.snapshot_date
             /\ I(m).is_current \in BOOLEAN
             /\ I(m).is_current <=> \A c \in snaps : ~(/\ is_change(snaps, c) /\ c.issue_id = m.issue_id
                                                       /\ c.snapshot_date > m.snapshot_date)
             /\ I(m).is_current => I(m).valid_to = Null
             /\ ~I(m).is_current => /\ I(m).valid_to \in Nat
                                    /\ \E c \in snaps : /\ is_change(snaps, c) /\ c.issue_id = m.issue_id
                                                        /\ c.snapshot_date > m.snapshot_date
                                                        /\ I(m).valid_to = c.snapshot_date
                                    /\ \A c \in snaps : /\ is_change(snaps, c) /\ c.issue_id = m.issue_id
                                                        /\ c.snapshot_date > m.snapshot_date
                                                        => I(m).valid_to <= c.snapshot_date
  <2>1. I(m).is_current \in BOOLEAN
    BY DEF IntervalOf
  <2> HIDE DEF I
  <2>2. QED
    BY <2>1, IntervalEnds DEF I
<1> HIDE DEF scd2, I
<1>5. ASSUME NEW r \in scd2
      PROVE  Cardinality({q \in scd2 : q.issue_id = r.issue_id /\ q.is_current}) = 1
  <2> DEFINE D == {n \in Nat : \E c \in snaps : /\ is_change(snaps, c) /\ c.issue_id = r.issue_id
                                                /\ c.snapshot_date = n}
             Current == {q \in scd2 : q.issue_id = r.issue_id /\ q.is_current}
  <2>1. PICK d \in D : \A e \in D : e <= d
    <3>1. D \in SUBSET Nat /\ D # {}
      BY <1>1, <1>2, <1>4
    <3>2. PICK last \in Nat : \A e \in D : e <= last
      BY DEF AreSnapshots
    <3> HIDE DEF D
    <3>3. QED
      BY <3>1, <3>2, Greatest
  <2>2. PICK m \in snaps : is_change(snaps, m) /\ m.issue_id = r.issue_id /\ m.snapshot_date = d
    OBVIOUS
  <2>3. I(m) \in Current
    <3>1. \A c \in snaps : is_change(snaps, c) /\ c.issue_id = m.issue_id => c.snapshot_date <= m.snapshot_date
      BY <1>1, <2>1, <2>2
    <3>2. I(m).is_current
      BY <1>1, <1>4, <3>1
    <3>3. QED
      BY <1>3, <1>4, <2>2, <3>2
  <2>4. ASSUME NEW q \in Current PROVE q = I(m)
    <3>1. PICK c \in snaps : is_change(snaps, c) /\ q = I(c)
      BY <1>2
    <3>2. c.issue_id = m.issue_id /\ I(c).is_current
      BY <1>4, <2>2, <3>1
    <3>3. ~(m.snapshot_date > c.snapshot_date)
      BY <1>4, <2>2, <3>2
    <3>4. ~(c.snapshot_date > m.snapshot_date)
      BY <1>1, <2>1, <2>2, <3>1, <3>2
    <3>5. c = m
      BY <1>1, <3>2, <3>3, <3>4 DEF AreSnapshots
    <3>6. QED
      BY <3>1, <3>5
  <2>5. Current = {I(m)}
    BY <2>3, <2>4
  <2> HIDE DEF Current
  <2>6. Cardinality(Current) = 1
    BY <2>5, FS_Singleton
  <2>7. QED
    BY <2>6 DEF Current
<1>6. ASSUME NEW r \in scd2
      PROVE  (r.valid_to = Null) = r.is_current
  <2>1. PICK m \in snaps : r = I(m)
    BY <1>2
  <2>2. Null \notin Nat
    BY SentinelsAssumption
  <2>3. QED
    BY <1>4, <2>1, <2>2
<1>7. ASSUME NEW q \in scd2, NEW r \in scd2, q # r, q.issue_id = r.issue_id
      PROVE  /\ q.valid_from # r.valid_from
             /\ q.valid_from < r.valid_from => ~q.is_current /\ q.valid_to <= r.valid_from
             /\ q.valid_to = r.valid_from => q.tracked # r.tracked
  <2>1. PICK m, c \in snaps : is_change(snaps, m) /\ q = I(m) /\ is_change(snaps, c) /\ r = I(c)
    BY <1>2
  <2>2. m # c /\ m.issue_id = c.issue_id
    BY <1>4, <1>7, <2>1
  <2>3. q.valid_from = m.snapshot_date /\ r.valid_from = c.snapshot_date
    BY <1>4, <2>1
  <2>4. q.valid_from # r.valid_from
    BY <2>2, <2>3 DEF AreSnapshots
  <2>5. ASSUME q.valid_from < r.valid_from PROVE ~q.is_current /\ q.valid_to <= r.valid_from
    BY <1>1, <1>4, <2>1, <2>2, <2>3, <2>5
  <2>6. ASSUME q.valid_to = r.valid_from PROVE q.tracked # r.tracked
    <3> DEFINE l == Lag(snaps, c)
    <3>1. ~q.is_current
      BY <1>1, <1>4, <2>1, <2>3, <2>6, SentinelsAssumption
    <3>2. /\ m.snapshot_date < c.snapshot_date
          /\ \A u \in snaps : /\ is_change(snaps, u) /\ u.issue_id = m.issue_id
                              /\ u.snapshot_date > m.snapshot_date
                              => c.snapshot_date <= u.snapshot_date
      BY <1>1, <1>4, <2>1, <2>3, <2>6, <3>1
    <3>3. m \in Before(snaps, c)
      BY <2>2, <3>2 DEF Before
    <3>4. /\ l \in snaps /\ l.issue_id = c.issue_id
          /\ l.snapshot_date < c.snapshot_date /\ m.snapshot_date <= l.snapshot_date
      BY <3>3, LagIsBefore DEF Before
    <3>5. \E a \in {"status", "assignee"} : l.tracked[a] # c.tracked[a]
      BY <2>1, <3>3 DEF is_change
    <3> HIDE DEF l
    <3>6. run_id(snaps, m) = run_id(snaps, l)
      <4>1. ASSUME NEW u \in snaps, u.issue_id = m.issue_id,
                   m.snapshot_date < u.snapshot_date, u.snapshot_date <= l.snapshot_date
            PROVE  ~is_change(snaps, u)
        BY <1>1, <3>2, <3>4, <4>1
      <4>2. QED
        BY <2>2, <3>4, <4>1, RunIdGrows
    <3>7. m.tracked = l.tracked
      BY <2>2, <3>4, <3>6, RunIsOneState
    <3>8. QED
      BY <1>4, <2>1, <3>5, <3>7
  <2>7. QED
    BY <2>4, <2>5, <2>6
<1>8. QED
  BY <1>5, <1>6, <1>7 DEF scd2

-----------------------------------------------------------------------------

(* A past of the source, and when its days were read.                      *)
IsHistory(now, history, read) ==
    /\ now \in Nat \ {0}
    /\ history \in [0 .. now -> [Issue -> Tracked \cup {Absent}]]
    /\ read \in [0 .. now - 1 -> (0 .. now) \cup {NoFile}]
    /\ \A d \in 0 .. now - 1 : read[d] # NoFile => read[d] >= d

(* The snapshots show each day that was read after its end.                *)
ShowDays(snaps, history, read) ==
    \A d \in DOMAIN read, i \in Issue :
        read[d] # NoFile /\ read[d] > d /\ history[d + 1][i] # Absent =>
           \E s \in snaps : s.issue_id = i /\ s.snapshot_date = d /\ s.tracked = history[d + 1][i]

(* The snapshots of a history.                                             *)
LEMMA HistoryHasSnapshots ==
    ASSUME NEW now, NEW history, NEW read, IsHistory(now, history, read)
    PROVE  /\ AreSnapshots(snapshots(history, read))
           /\ ShowDays(snapshots(history, read), history, read)
<1> USE DEF IsHistory
<1> DEFINE Of(d) == {[issue_id |-> i, snapshot_date |-> d, tracked |-> AsOf(history, read, d)[i]] :
                        i \in {j \in Issue : AsOf(history, read, d)[j] # Absent}}
           Days == {e \in DOMAIN read : read[e] # NoFile}
           snaps == snapshots(history, read)
<1>1. snaps = UNION {Of(d) : d \in Days}
  BY Zenon DEF snapshots
<1>2. ASSUME NEW d \in Days
      PROVE  /\ d \in 0 .. now - 1 /\ read[d] \in 0 .. now /\ read[d] >= d
             /\ Min({d + 1, read[d]}) \in 0 .. now
             /\ read[d] > d => Min({d + 1, read[d]}) = d + 1
  <2>1. d \in 0 .. now - 1 /\ read[d] \in 0 .. now /\ read[d] >= d
    OBVIOUS
  <2>2. {d + 1, read[d]} \in SUBSET Nat
    BY <2>1
  <2>3. Min({d + 1, read[d]}) \in {d + 1, read[d]}
    BY <2>2, MinIsLeast
  <2>4. ASSUME read[d] > d PROVE Min({d + 1, read[d]}) = d + 1
    <3>1. \A m \in {d + 1, read[d]} : d + 1 <= m
      BY <2>1, <2>4
    <3>2. QED
      BY <2>2, <3>1, MinIs
  <2>5. QED
    BY <2>1, <2>3, <2>4
<1>3. ASSUME NEW d \in Days PROVE AsOf(history, read, d) \in [Issue -> Tracked \cup {Absent}]
  BY <1>2 DEF AsOf
<1>4. ASSUME NEW d \in Days, NEW s \in Of(d)
      PROVE  /\ s \in Snapshot /\ s.snapshot_date = d /\ d <= now
             /\ s.issue_id \in Issue
             /\ s = [issue_id |-> s.issue_id, snapshot_date |-> d,
                     tracked |-> AsOf(history, read, d)[s.issue_id]]
  <2>1. PICK i \in Issue : /\ AsOf(history, read, d)[i] # Absent
                           /\ s = [issue_id |-> i, snapshot_date |-> d, tracked |-> AsOf(history, read, d)[i]]
    OBVIOUS
  <2>2. AsOf(history, read, d)[i] \in Tracked /\ d \in Nat /\ d <= now
    BY <1>2, <1>3, <2>1
  <2>3. QED
    BY <2>1, <2>2 DEF Snapshot
<1>5. ASSUME NEW d \in 0 .. now - 1, NEW i \in Issue, read[d] # NoFile, read[d] > d,
             history[d + 1][i] # Absent
      PROVE  \E s \in snaps : s.issue_id = i /\ s.snapshot_date = d /\ s.tracked = history[d + 1][i]
  <2>1. d \in Days
    BY <1>5
  <2>2. AsOf(history, read, d) = history[d + 1]
    BY <1>2, <1>5, <2>1 DEF AsOf
  <2> DEFINE s == [issue_id |-> i, snapshot_date |-> d, tracked |-> AsOf(history, read, d)[i]]
  <2>3. s \in Of(d)
    BY <1>5, <2>2
  <2> HIDE DEF Of
  <2>4. s \in snaps
    BY <1>1, <2>1, <2>3
  <2>5. QED
    BY <2>2, <2>4
<1> HIDE DEF Of, Days
<1>6. AreSnapshots(snaps)
  <2>1. ASSUME NEW s \in snaps
        PROVE  \E d \in Days : s \in Of(d)
    BY <1>1
  <2>2. ASSUME NEW s \in snaps, NEW t \in snaps, s.issue_id = t.issue_id, s.snapshot_date = t.snapshot_date
        PROVE  s = t
    BY <1>4, <2>1, <2>2
  <2>3. \A s \in snaps : s \in Snapshot /\ s.snapshot_date <= now
    BY <1>4, <2>1
  <2> HIDE DEF snaps
  <2>4. QED
    BY <2>2, <2>3 DEF AreSnapshots
<1>7. ShowDays(snaps, history, read)
  <2> HIDE DEF snaps
  <2>1. QED
    BY <1>5 DEF ShowDays
<1>8. QED
  BY <1>6, <1>7

(* Whatever days were read, in whatever order and however late, the rows   *)
(* of dim_issues_scd2 pass the dbt tests assert_scd2_*.sql: one current    *)
(* row for each issue, no overlap, and neighbours that differ. The rows    *)
(* are the changes, each valid until the next.                             *)
THEOREM HistoryAlwaysOfIntervals ==
    ASSUME NEW now, NEW history, NEW read, IsHistory(now, history, read)
    PROVE  Scd2WellFormed(history, read)
<1>1. AreSnapshots(snapshots(history, read))
  BY HistoryHasSnapshots
<1>2. QED
  BY <1>1, IntervalsInOrder, Zenon DEF Scd2WellFormed

(* And they show each day that was read once it was over as it was at its  *)
(* end, and the latest snapshot as dim_issues shows it: lag() compares     *)
(* with IS DISTINCT FROM, so an assignee that comes or goes is a change.   *)
THEOREM HistoryAlwaysTellsTheDay ==
    ASSUME NEW now, NEW history, NEW read, IsHistory(now, history, read)
    PROVE  Scd2TellsTheDay(history, read)
<1> DEFINE snaps == snapshots(history, read)
           scd2 == dim_issues_scd2(snaps)
<1>1. AreSnapshots(snaps) /\ ShowDays(snaps, history, read)
  BY HistoryHasSnapshots
<1> HIDE DEF snaps
<1>2. ASSUME NEW d \in DOMAIN read, NEW i \in Issue,
             read[d] # NoFile, read[d] > d, history[d + 1][i] # Absent
      PROVE  \E r \in scd2 : r.issue_id = i /\ Holds(r, d) /\ r.tracked = history[d + 1][i]
  <2>1. PICK s \in snaps : s.issue_id = i /\ s.snapshot_date = d /\ s.tracked = history[d + 1][i]
    BY <1>1, <1>2 DEF ShowDays
  <2>2. QED
    BY <1>1, <2>1, SnapshotHasInterval
<1>3. ASSUME NEW s \in dim_issues(snaps)
      PROVE  \E r \in scd2 : r.issue_id = s.issue_id /\ r.is_current /\ r.tracked = s.tracked
  <2>1. s \in snaps /\ \A t \in snaps : t.snapshot_date <= s.snapshot_date
    BY DEF dim_issues
  <2>2. \A t \in snaps : t.snapshot_date \in Nat
    BY <1>1 DEF AreSnapshots, Snapshot
  <2>3. PICK r \in scd2 : /\ r.issue_id = s.issue_id /\ r.tracked = s.tracked
                          /\ ~r.is_current => \E t \in snaps : t.snapshot_date > s.snapshot_date
    BY <1>1, <2>1, SnapshotHasInterval
  <2>4. r.is_current
    BY <2>1, <2>2, <2>3
  <2>5. QED
    BY <2>3, <2>4
<1> HIDE DEF scd2
<1>4. QED
  BY <1>2, <1>3 DEF Scd2TellsTheDay, snaps, scd2

-----------------------------------------------------------------------------
(* The states of FunctionCalls.                                            *)

(* The input of a call is what its function is defined for.                *)
IInv ==
    \/ input = None
    \/ input \in LookbackCalls \/ input \in RangeCalls \/ input \in PathCalls \/ input \in TablesCalls
    \/ input \in MentionsCalls
    \/ input \in ValueCalls \/ input \in BatchCalls
    \/ input \in HistoryCalls

(* The input is always one of a call, or none.                             *)
LEMMA InputsAreCalls == Spec => []IInv
<1>1. Init => IInv
  BY DEF Init, IInv
<1>2. IInv /\ [Next]_input => IInv'
  <2> SUFFICES ASSUME IInv, [Next]_input PROVE IInv'
    OBVIOUS
  <2>1. CASE CallLookback
    BY <2>1 DEF CallLookback, IInv
  <2>2. CASE CallRange
    BY <2>2 DEF CallRange, IInv
  <2>3. CASE CallPath
    BY <2>3 DEF CallPath, IInv
  <2>4. CASE CallGrainLookbacks
    BY <2>4 DEF CallGrainLookbacks, IInv
  <2>5. CASE CallMentions
    BY <2>5 DEF CallMentions, IInv
  <2>6. CASE CallDecode
    BY <2>6 DEF CallDecode, IInv
  <2>7. CASE CallWrite
    BY <2>7 DEF CallWrite, IInv
  <2>8. CASE CallMarts
    BY <2>8 DEF CallMarts, IInv
  <2>9. CASE Return
    BY <2>9 DEF Return, IInv
  <2>10. CASE UNCHANGED input
    BY <2>10 DEF IInv
  <2>11. QED
    BY <2>1, <2>2, <2>3, <2>4, <2>5, <2>6, <2>7, <2>8, <2>9, <2>10 DEF Next
<1>3. QED
  BY <1>1, <1>2, PTL DEF Spec

(* A call is known by its kind.                                            *)
LEMMA KindIsCall ==
    ASSUME IInv
    PROVE  /\ input.kind = "lookback" => input \in LookbackCalls
           /\ input.kind = "range" => input \in RangeCalls
           /\ input.kind = "path" => input \in PathCalls
           /\ input.kind = "tables" => input \in TablesCalls
           /\ input.kind = "mentions" => input \in MentionsCalls
           /\ input.kind = "value" => input \in ValueCalls
           /\ input.kind = "batch" => input \in BatchCalls
           /\ input.kind = "history" => input \in HistoryCalls
<1>1. None.kind = "none"
  BY DEF None
<1>2. \A c \in LookbackCalls : c.kind = "lookback"
  BY DEF LookbackCalls
<1>3. \A c \in RangeCalls : c.kind = "range"
  BY DEF RangeCalls
<1>4. \A c \in PathCalls : c.kind = "path"
  BY DEF PathCalls
<1>5. \A c \in TablesCalls : c.kind = "tables"
  BY DEF TablesCalls
<1>6. \A c \in MentionsCalls : c.kind = "mentions"
  BY DEF MentionsCalls
<1>7. \A c \in ValueCalls : c.kind = "value"
  BY DEF ValueCalls
<1>8. \A c \in BatchCalls : c.kind = "batch"
  BY DEF BatchCalls
<1>9. \A c \in HistoryCalls : c.kind = "history"
  BY DEF HistoryCalls
<1>10. QED
  BY <1>1, <1>2, <1>3, <1>4, <1>5, <1>6, <1>7, <1>8, <1>9 DEF IInv

(* Lookbacks reach now, backfills have their windows, and no table reads   *)
(* less than it declares, for whatever instants, grains, lengths and       *)
(* tables.                                                                 *)
THEOREM LookbackAlwaysSuffices == Spec => []LookbackSuffices
<1>1. IInv => LookbackSuffices
  <2> SUFFICES ASSUME IInv PROVE LookbackSuffices
    OBVIOUS
  <2>1. ASSUME input.kind = "lookback"
        PROVE  /\ LookbackReachesNow(input.now, input.grain, input.n)
               /\ BackfillHasLookback(input.now, input.grain, input.n)
    <3>1. input \in LookbackCalls
      BY <2>1, KindIsCall
    <3>2. input.now \in Int /\ input.grain \in Grain /\ input.n \in Int /\ ~LookbackRefused(input.n)
      BY <3>1, InputsAssumption DEF CallsAssumption, LookbackCalls
    <3>3. QED
      BY <3>2, LookbackAlwaysReachesNow, BackfillAlwaysHasLookback
  <2>2. ASSUME input.kind = "tables"
        PROVE  NoTableReadsLess(input.tables)
    <3>1. input \in TablesCalls
      BY <2>2, KindIsCall
    <3>2. input.tables \in Seq(Declared)
      BY <3>1, InputsAssumption DEF CallsAssumption, TablesCalls
    <3>3. QED
      BY <3>2, NoTableEverReadsLess
  <2>3. QED
    BY <2>1, <2>2 DEF LookbackSuffices
<1>2. QED
  BY <1>1, InputsAreCalls, PTL

(* Every instant of a backfill's dates is in exactly one of its windows    *)
(* (window.go:73-75).                                                      *)
THEOREM RangeAlwaysPartitionsDates == Spec => []RangePartitionsDates
<1>1. IInv => RangePartitionsDates
  <2> SUFFICES ASSUME IInv, input.kind = "range"
               PROVE  RangeCoversDates(input.from, input.to, input.grain, input.t)
    BY DEF RangePartitionsDates
  <2>1. input \in RangeCalls
    BY KindIsCall
  <2>2. input.from \in Int /\ input.to \in Int /\ input.t \in Int /\ ~RangeRefused(input.from, input.to, input.grain)
    BY <2>1, InputsAssumption DEF CallsAssumption, RangeCalls
  <2>3. QED
    BY <2>2, RangeAlwaysCoversDates
<1>2. QED
  BY <1>1, InputsAreCalls, PTL

(* No two windows share a bronze file or a child workflow.                 *)
THEOREM WindowsAlwaysHaveTheirNames == Spec => []WindowsHaveTheirNames
<1>1. IInv => WindowsHaveTheirNames
  <2> SUFFICES ASSUME IInv, input.kind = "path"
               PROVE  NamesTellWindowsApart(input.v, input.w)
    BY DEF WindowsHaveTheirNames
  <2>1. input \in PathCalls
    BY KindIsCall
  <2>2. input.v \in SomeWindows /\ input.w \in SomeWindows
    BY <2>1 DEF PathCalls
  <2>3. \A w \in SomeWindows : w \in [start : Int, end : Int, grain : Grain] /\ Valid(w)
    <3> TAKE w \in SomeWindows
    <3>1. PICK s \in Instant, g \in Grain : w = WindowAt(s, g)
      BY DEF SomeWindows
    <3>2. s \in Int /\ s + Duration(g) \in Int
      BY InputsAssumption, DurationType DEF CallsAssumption
    <3>3. w \in [start : Int, end : Int, grain : Grain]
      BY <3>1, <3>2 DEF WindowAt
    <3>4. Valid(w)
      BY DEF SomeWindows, PathRefused
    <3>5. QED
      BY <3>3, <3>4
  <2>4. QED
    BY <2>2, <2>3, NamesAlwaysTellWindowsApart
<1>2. QED
  BY <1>1, InputsAreCalls, PTL

(* For any rows of dim_issues, with ids and texts of any characters: a     *)
(* mention is counted as often as the text has it, under one key, and no   *)
(* issue mentions itself (extract.go: "selfID's own id is excluded").      *)
THEOREM MentionsAlwaysCounted == Spec => []MentionsAreCounted
<1>1. IInv => MentionsAreCounted
  <2> SUFFICES ASSUME IInv, input.kind = "mentions"
               PROVE  MentionsAreInTheText(input.rows) /\ NoSelfMention(input.rows)
    BY DEF MentionsAreCounted
  <2>1. input \in MentionsCalls
    BY KindIsCall
  <2>2. input.rows \in Issues
    BY <2>1 DEF MentionsCalls
  <2>3. IsIssues(Character, Field, input.rows)
    BY <2>2, InputsAssumption DEF IssuesAssumption, IsIssues, Keyed
  <2>4. QED
    BY <2>3, MentionsAreAlwaysInTheText, NoSelfMentionEver
<1>2. QED
  BY <1>1, InputsAreCalls, PTL

(* A value of the driver, of any column type, is stored as it was served,  *)
(* or refused for its size; rounded where it is no float64 and has to be   *)
(* one (schema.go: "Only the representation changes, never the value").    *)
THEOREM ValuesSurviveAlways == Spec => []ValuesSurvive
<1>1. IInv => ValuesSurvive
  <2> SUFFICES ASSUME IInv, input.kind = "value"
               PROVE  StoredAsServed(input.type, input.v)
    BY DEF ValuesSurvive
  <2>1. input \in ValueCalls
    BY KindIsCall
  <2>2. input.type \in DatabaseType /\ input.v \in [go : GoType, n : Number] /\ Served(input.v)
    BY <2>1 DEF ValueCalls
  <2>3. input.v \in [go : GoType, n : Int]
    BY <2>2, InputsAssumption DEF CallsAssumption
  <2>4. QED
    BY <2>2, <2>3, ValuesAlwaysSurvive
<1>2. QED
  BY <1>1, InputsAreCalls, PTL

(* A batch that the Writer accepts can be encoded, and read by column.     *)
THEOREM BatchesAlwaysEncode == Spec => []BatchesEncode
<1>1. IInv => BatchesEncode
  <2> SUFFICES ASSUME IInv, input.kind = "batch"
               PROVE  AcceptedIsEncodable(input.batch)
    BY DEF BatchesEncode
  <2> DEFINE b == input.batch
             V == [go : GoType, n : Int]
  <2>1. input \in BatchCalls
    BY KindIsCall
  <2>2. b \in [columns : BatchColumns, rows : {{row} : row \in BatchRow}]
    BY <2>1 DEF BatchCalls
  <2>3. [go : GoType, n : Number] \subseteq V
    BY InputsAssumption DEF CallsAssumption
  <2>4. BatchColumns \subseteq Seq(Column) /\ BatchRow \subseteq Seq([go : GoType, n : Number])
    BY InputsAssumption DEF CallsAssumption
  <2> HIDE DEF V
  <2>5. BatchRow \subseteq Seq(V)
    BY <2>3, <2>4, SeqMonotonic
  <2>6. b \in [columns : Seq(Column), rows : SUBSET Seq(V)]
    BY <2>2, <2>4, <2>5
  <2>7. QED
    BY <2>6, AcceptedIsAlwaysEncodable DEF V
<1>2. QED
  BY <1>1, InputsAreCalls, PTL

(* A history call is of a history.                                         *)
LEMMA HistoryCallIsHistory ==
    ASSUME IInv, input.kind = "history"
    PROVE  IsHistory(Now, input.history, input.read)
<1>1. input \in HistoryCalls
  BY KindIsCall
<1>2. input.history \in History /\ input.read \in Reads
  BY <1>1 DEF HistoryCalls
<1>3. QED
  BY <1>2, InputsAssumption DEF CallsAssumption, Reads, IsHistory

(* For any issues, any number of days, and whatever days were read, at     *)
(* whatever time: dim_issues_scd2 is made of intervals (assert_scd2_*.sql).*)
THEOREM HistoryAlwaysIntervals == Spec => []HistoryIsIntervals
<1>1. IInv => HistoryIsIntervals
  BY HistoryCallIsHistory, HistoryAlwaysOfIntervals DEF HistoryIsIntervals
<1>2. QED
  BY <1>1, InputsAreCalls, PTL

(* ... and shows each day that was read as the source had it.              *)
THEOREM HistoryAlwaysTrue == Spec => []HistoryIsTrue
<1>1. IInv => HistoryIsTrue
  BY HistoryCallIsHistory, HistoryAlwaysTellsTheDay DEF HistoryIsTrue
<1>2. QED
  BY <1>1, InputsAreCalls, PTL
=============================================================================
