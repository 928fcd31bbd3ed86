-------------------------- MODULE EnqueuerProofs --------------------------
(***************************************************************************)
(* Theorems about SettlementPolicy and Enqueuer, for days of any length,   *)
(* any terms and upstream windows, any payments and any lateness.          *)
(***************************************************************************)
EXTENDS Enqueuer, FiniteSetTheorems, WellFoundedInduction, TLAPS

-----------------------------------------------------------------------------
(* Least and greatest elements.                                            *)

LEMMA LeastNatural ==
    ASSUME NEW S \in SUBSET Nat, S # {}
    PROVE  \E x \in S : \A y \in S : x <= y
<1>1. PICK x \in S : \A y \in S : ~(<<y, x>> \in OpToRel(<, Nat))
  BY NatLessThanWellFounded, WFMin
<1>2. ASSUME NEW y \in S
      PROVE  x <= y
  <2>1. <<y, x>> \in Nat \X Nat
    OBVIOUS
  <2>2. ~(y < x)
    BY <1>1, <2>1 DEF OpToRel
  <2>. QED
    BY <2>2
<1>. QED
  BY <1>2

LEMMA MinIsLeast ==
    ASSUME NEW S \in SUBSET Int, S # {}, NEW low \in Int, \A x \in S : low <= x
    PROVE  Min(S) \in S /\ \A x \in S : Min(S) <= x
<1>. DEFINE T == {x - low : x \in S}
<1>1. PICK y \in T : \A u \in T : y <= u
  <2>1. T # {}
    OBVIOUS
  <2>2. \A x \in S : x - low \in Nat
    OBVIOUS
  <2>3. T \in SUBSET Nat
    BY <2>2
  <2>. QED
    BY <2>1, <2>3, LeastNatural
<1>2. y + low \in S /\ \A x \in S : y + low <= x
  <2>1. PICK x \in S : y = x - low
    OBVIOUS
  <2>2. ASSUME NEW u \in S
        PROVE  y <= u - low
    BY <1>1
  <2>. QED
    BY <2>1, <2>2
<1>. QED
  BY <1>2 DEF Min

LEMMA MaxIsGreatest ==
    ASSUME NEW S \in SUBSET Int, S # {}, NEW high \in Int, \A x \in S : x <= high
    PROVE  Max(S) \in S /\ \A x \in S : Max(S) >= x
<1>. DEFINE T == {high - x : x \in S}
<1>1. PICK y \in T : \A u \in T : y <= u
  <2>1. T # {}
    OBVIOUS
  <2>2. \A x \in S : high - x \in Nat
    OBVIOUS
  <2>3. T \in SUBSET Nat
    BY <2>2
  <2>. QED
    BY <2>1, <2>3, LeastNatural
<1>2. high - y \in S /\ \A x \in S : high - y >= x
  <2>1. PICK x \in S : y = high - x
    OBVIOUS
  <2>2. ASSUME NEW u \in S
        PROVE  y <= high - u
    BY <1>1
  <2>. QED
    BY <2>1, <2>2
<1>. QED
  BY <1>2 DEF Max

-----------------------------------------------------------------------------
(* Days.                                                                   *)

Zone == 0 .. Day - 1

\* A moment that begins a day of the zone.
Midnight(d, zone) == \E q \in Int : d = Day * q - zone

LEMMA DayTyped == Day \in Nat /\ Day > 0 /\ Slot \in Nat /\ Slot > 0 /\ 0 \in Zone /\ Zone \subseteq Nat
BY ClockAssumption DEF Zone

LEMMA Multiples ==
    ASSUME NEW q \in Int, NEW r \in Int
    PROVE  /\ Day * q \in Int
           /\ Day * (q + r) = Day * q + Day * r
           /\ r * Day = Day * r
           /\ Day * q < Day * r => Day * q + Day <= Day * r
<1>0. Day \in Nat /\ Day > 0
  BY DayTyped
<1>1. Day * (q + r) = Day * q + Day * r /\ r * Day = Day * r /\ Day * q \in Int
  BY <1>0
<1>2. ASSUME Day * q < Day * r
      PROVE  Day * q + Day <= Day * r
  <2>1. CASE q >= r
    <3>1. Day * (q - r) >= 0
      BY <1>0, <2>1
    <3>. QED
      BY <1>0, <1>2, <2>1, <3>1
  <2>2. CASE q + 1 <= r
    <3>1. Day * (q + 1) <= Day * r
      BY <1>0, <2>2
    <3>. QED
      BY <1>0, <3>1
  <2>. QED
    BY <2>1, <2>2
<1>. QED
  BY <1>1, <1>2

LEMMA MidnightsApart ==
    ASSUME NEW d \in Int, NEW e \in Int, NEW zone \in Zone,
           Midnight(d, zone), Midnight(e, zone), d < e
    PROVE  d + Day <= e
<1>1. PICK q \in Int : d = Day * q - zone
  BY DEF Midnight
<1>2. PICK r \in Int : e = Day * r - zone
  BY DEF Midnight
<1>3. zone \in Int /\ Day \in Int /\ Day * q \in Int /\ Day * r \in Int
  BY DayTyped, Multiples
<1>4. Day * q < Day * r
  BY <1>1, <1>2, <1>3
<1>5. Day * q + Day <= Day * r
  BY <1>4, Multiples
<1>. QED
  BY <1>1, <1>2, <1>3, <1>5

LEMMA DaysLater ==
    ASSUME NEW d \in Int, NEW zone \in Zone, Midnight(d, zone), NEW n \in Int
    PROVE  n * Day \in Int /\ d + n * Day \in Int /\ Midnight(d + n * Day, zone)
<1>1. PICK q \in Int : d = Day * q - zone
  BY DEF Midnight
<1>2. zone \in Int /\ Day * q \in Int /\ Day * n \in Int /\ n * Day = Day * n
      /\ Day * (q + n) = Day * q + Day * n
  BY DayTyped, Multiples
<1>3. d + n * Day = Day * (q + n) - zone
  BY <1>1, <1>2
<1>. QED
  BY <1>2, <1>3 DEF Midnight

LEMMA NextDay ==
    ASSUME NEW d \in Int, NEW zone \in Zone, Midnight(d, zone)
    PROVE  /\ Midnight(d + Day, zone) /\ d + Day \in Int
           /\ Midnight(d - Day, zone) /\ d - Day \in Int
<1>1. Day \in Int /\ 1 * Day = Day /\ (-1) * Day = -Day
  BY DayTyped
<1>2. Midnight(d + 1 * Day, zone) /\ Midnight(d + (-1) * Day, zone)
  BY DaysLater
<1>3. d + (-1) * Day = d - Day /\ d + 1 * Day = d + Day
  BY <1>1
<1>. QED
  BY <1>1, <1>2, <1>3

LEMMA StartsADay ==
    ASSUME NEW t \in Int, NEW zone \in Zone
    PROVE  /\ StartOfDay(t, zone) \in Int
           /\ Midnight(StartOfDay(t, zone), zone)
           /\ StartOfDay(t, zone) <= t /\ t < StartOfDay(t, zone) + Day
<1>1. zone \in Int /\ Day \in Nat /\ Day > 0
  BY DayTyped
<1>2. /\ (t + zone) % Day \in 0 .. Day - 1
      /\ (t + zone) \div Day \in Int
      /\ t + zone = Day * ((t + zone) \div Day) + ((t + zone) % Day)
  BY <1>1
<1>3. Day * ((t + zone) \div Day) \in Int
  BY <1>2, Multiples
<1>4. StartOfDay(t, zone) = Day * ((t + zone) \div Day) - zone
  BY <1>1, <1>2, <1>3 DEF StartOfDay
<1>5. Midnight(StartOfDay(t, zone), zone)
  BY <1>2, <1>4 DEF Midnight
<1>6. StartOfDay(t, zone) = t - ((t + zone) % Day)
  BY DEF StartOfDay
<1>. HIDE DEF StartOfDay
<1>. QED
  BY <1>1, <1>2, <1>5, <1>6

\* The day of a moment is the only one it lies in.
LEMMA DayOf ==
    ASSUME NEW d \in Int, NEW zone \in Zone, Midnight(d, zone),
           NEW t \in Int, d <= t, t < d + Day
    PROVE  StartOfDay(t, zone) = d
<1>. DEFINE s == StartOfDay(t, zone)
<1>1. s \in Int /\ Midnight(s, zone) /\ s <= t /\ t < s + Day
  BY StartsADay
<1>2. ~(s < d) /\ ~(d < s)
  <2>1. Day \in Int
    BY DayTyped
  <2>. HIDE DEF s
  <2>2. ASSUME s < d
        PROVE  FALSE
    <3>1. s + Day <= d
      BY <1>1, <2>2, MidnightsApart
    <3>. QED
      BY <1>1, <2>1, <3>1
  <2>3. ASSUME d < s
        PROVE  FALSE
    <3>1. d + Day <= s
      BY <1>1, <2>3, MidnightsApart
    <3>. QED
      BY <1>1, <2>1, <3>1
  <2>. QED
    BY <2>2, <2>3
<1>. QED
  BY <1>1, <1>2

-----------------------------------------------------------------------------
(* Boundaries: the stated times of every day.                              *)

Times == (SUBSET (0 .. Day - 1)) \ {{}}

Boundary(times, zone, b) ==
    \E d \in Int, h \in times : Midnight(d, zone) /\ b = d + h

\* A boundary of an earlier day is before the day.
LEMMA EarlierDay ==
    ASSUME NEW d \in Int, NEW e \in Int, NEW zone \in Zone,
           Midnight(d, zone), Midnight(e, zone), NEW h \in 0 .. Day - 1
    PROVE  /\ d < e => d + h < e
           /\ d + h < e + Day => d <= e
<1>1. Day \in Nat /\ h \in Nat /\ h < Day
  BY DayTyped
<1>2. d < e => d + Day <= e
  BY MidnightsApart
<1>3. e < d => e + Day <= d
  BY MidnightsApart
<1>. QED
  BY <1>1, <1>2, <1>3

LEMMA AtTimesTyped ==
    ASSUME NEW d \in Int, NEW zone \in Zone, Midnight(d, zone), NEW times \in Times
    PROVE  /\ AtTimesOnDay(d, times) \in SUBSET Int /\ AtTimesOnDay(d, times) # {}
           /\ \A b \in AtTimesOnDay(d, times) :
                 d <= b /\ b < d + Day /\ Boundary(times, zone, b)
<1>1. \A h \in times : h \in Nat /\ h < Day
  BY DayTyped DEF Times
<1>2. Day \in Nat
  BY DayTyped
<1>3. times # {}
  BY DEF Times
<1>4. ASSUME NEW h \in times
      PROVE  d + h \in Int /\ d <= d + h /\ d + h < d + Day /\ Boundary(times, zone, d + h)
  BY <1>1, <1>2 DEF Boundary
<1>. QED
  BY <1>3, <1>4 DEF AtTimesOnDay

LEMMA LastBoundary ==
    ASSUME NEW times \in Times, NEW zone \in Zone, NEW t \in Int
    PROVE  /\ BoundaryAtOrBefore(times, zone, t) \in Int
           /\ Boundary(times, zone, BoundaryAtOrBefore(times, zone, t))
           /\ BoundaryAtOrBefore(times, zone, t) <= t
           /\ \A c \in Int : Boundary(times, zone, c) /\ c <= t
                               => c <= BoundaryAtOrBefore(times, zone, t)
<1>. DEFINE today == StartOfDay(t, zone)
            yesterday == today - Day
            passed == {b \in AtTimesOnDay(today, times) : b <= t}
            last == BoundaryAtOrBefore(times, zone, t)
<1>1. today \in Int /\ Midnight(today, zone) /\ today <= t /\ t < today + Day
  BY StartsADay
<1>2. Day \in Nat /\ yesterday \in Int /\ Midnight(yesterday, zone) /\ yesterday + Day = today
  BY <1>1, DayTyped, NextDay
<1>3. last = IF passed # {} THEN Max(passed) ELSE Max(AtTimesOnDay(yesterday, times))
  BY DEF BoundaryAtOrBefore
<1>4. /\ AtTimesOnDay(today, times) \in SUBSET Int
      /\ \A b \in AtTimesOnDay(today, times) : today <= b /\ Boundary(times, zone, b)
  BY <1>1, AtTimesTyped
<1>5. /\ AtTimesOnDay(yesterday, times) \in SUBSET Int /\ AtTimesOnDay(yesterday, times) # {}
      /\ \A b \in AtTimesOnDay(yesterday, times) :
            yesterday <= b /\ b < today /\ Boundary(times, zone, b)
  BY <1>2, AtTimesTyped
<1>. HIDE DEF today, yesterday, last
<1>6. ASSUME NEW c \in Int, Boundary(times, zone, c), c <= t
      PROVE  c \in passed \/ c < today
  <2>1. PICK d \in Int, h \in times : Midnight(d, zone) /\ c = d + h
    BY <1>6 DEF Boundary
  <2>2. h \in 0 .. Day - 1
    BY DEF Times
  <2>3. d <= today
    BY <1>1, <1>2, <1>6, <2>1, <2>2, EarlierDay
  <2>4. CASE d = today
    BY <1>6, <2>1, <2>4 DEF AtTimesOnDay
  <2>5. CASE d < today
    BY <1>1, <2>1, <2>2, <2>5, EarlierDay
  <2>. QED
    BY <1>1, <2>3, <2>4, <2>5
<1>7. CASE passed # {}
  <2>1. passed \in SUBSET Int /\ \A x \in passed : x <= t
    BY <1>4
  <2>2. last \in passed /\ \A x \in passed : last >= x
    BY <1>3, <1>7, <2>1, MaxIsGreatest
  <2>3. last \in Int /\ Boundary(times, zone, last) /\ last <= t /\ today <= last
    BY <1>4, <2>2
  <2>4. ASSUME NEW c \in Int, Boundary(times, zone, c), c <= t
        PROVE  c <= last
    BY <1>1, <1>6, <2>2, <2>3, <2>4
  <2>. QED
    BY <2>3, <2>4 DEF last
<1>8. CASE passed = {}
  <2>1. /\ last \in AtTimesOnDay(yesterday, times)
        /\ \A x \in AtTimesOnDay(yesterday, times) : last >= x
    <3>1. \A x \in AtTimesOnDay(yesterday, times) : x <= today
      BY <1>1, <1>5
    <3>. QED
      BY <1>1, <1>3, <1>5, <1>8, <3>1, MaxIsGreatest
  <2>2. last \in Int /\ Boundary(times, zone, last) /\ last <= t /\ yesterday <= last
    BY <1>1, <1>5, <2>1
  <2>3. ASSUME NEW c \in Int, Boundary(times, zone, c), c <= t
        PROVE  c <= last
    <3>1. PICK d \in Int, h \in times : Midnight(d, zone) /\ c = d + h
      BY <2>3 DEF Boundary
    <3>2. h \in 0 .. Day - 1
      BY DEF Times
    <3>3. c < today
      BY <1>6, <1>8, <2>3
    <3>4. d <= yesterday
      BY <1>2, <3>1, <3>2, <3>3, EarlierDay
    <3>5. CASE d = yesterday
      BY <2>1, <2>2, <3>1, <3>5 DEF AtTimesOnDay
    <3>6. CASE d < yesterday
      BY <1>2, <2>2, <3>1, <3>2, <3>6, EarlierDay
    <3>. QED
      BY <1>2, <3>1, <3>4, <3>5, <3>6
  <2>. QED
    BY <2>2, <2>3 DEF last
<1>. QED
  BY <1>7, <1>8

LEMMA NextBoundary ==
    ASSUME NEW policy, policy.times \in Times, NEW paidAt \in Int
    PROVE  /\ ScheduledRelease(paidAt, policy) \in Int
           /\ Boundary(policy.times, Jakarta, ScheduledRelease(paidAt, policy))
           /\ paidAt <= ScheduledRelease(paidAt, policy)
           /\ \A c \in Int : Boundary(policy.times, Jakarta, c) /\ paidAt <= c
                               => ScheduledRelease(paidAt, policy) <= c
<1>. DEFINE times == policy.times
            today == StartOfDay(paidAt, Jakarta)
            tomorrow == today + Day
            next == {b \in AtTimesOnDay(today, times) : b >= paidAt}
            release == ScheduledRelease(paidAt, policy)
<1>0. Jakarta \in Zone
  BY DayTyped DEF Jakarta
<1>1. today \in Int /\ Midnight(today, Jakarta) /\ today <= paidAt /\ paidAt < tomorrow
  BY <1>0, StartsADay
<1>2. Day \in Nat /\ tomorrow \in Int /\ Midnight(tomorrow, Jakarta)
  BY <1>0, <1>1, DayTyped, NextDay
<1>3. release = IF next # {} THEN Min(next) ELSE tomorrow + Min(times)
  BY DEF ScheduledRelease
<1>4. /\ AtTimesOnDay(today, times) \in SUBSET Int
      /\ \A b \in AtTimesOnDay(today, times) : b < tomorrow /\ Boundary(times, Jakarta, b)
  BY <1>0, <1>1, AtTimesTyped
<1>5. /\ \A b \in AtTimesOnDay(tomorrow, times) :
            b \in Int /\ tomorrow <= b /\ Boundary(times, Jakarta, b)
  BY <1>0, <1>2, AtTimesTyped
<1>. HIDE DEF today, tomorrow, release, times
<1>6. ASSUME NEW c \in Int, Boundary(times, Jakarta, c), paidAt <= c
      PROVE  c \in next \/ \E d \in Int, h \in times :
                              Midnight(d, Jakarta) /\ c = d + h /\ tomorrow <= d
  <2>1. PICK d \in Int, h \in times : Midnight(d, Jakarta) /\ c = d + h
    BY <1>6 DEF Boundary
  <2>2. h \in 0 .. Day - 1
    BY DEF Times, times
  <2>3. ~(d < today)
    BY <1>0, <1>1, <1>6, <2>1, <2>2, EarlierDay
  <2>4. CASE d = today
    BY <1>6, <2>1, <2>4 DEF AtTimesOnDay
  <2>5. CASE today < d
    BY <1>0, <1>1, <2>1, <2>5, MidnightsApart DEF tomorrow
  <2>. QED
    BY <1>1, <2>3, <2>4, <2>5
<1>7. CASE next # {}
  <2>1. next \in SUBSET Int /\ \A x \in next : paidAt <= x
    BY <1>4
  <2>2. release \in next /\ \A x \in next : release <= x
    BY <1>3, <1>7, <2>1, MinIsLeast
  <2>3. release \in Int /\ Boundary(times, Jakarta, release) /\ paidAt <= release /\ release < tomorrow
    BY <1>4, <2>2
  <2>4. ASSUME NEW c \in Int, Boundary(times, Jakarta, c), paidAt <= c
        PROVE  release <= c
    <3>1. CASE c \in next
      BY <2>2, <3>1
    <3>2. ASSUME NEW d \in Int, NEW h \in times, c = d + h, tomorrow <= d
          PROVE  release <= c
      <4>1. h \in Nat
        BY DEF Times, times
      <4>. QED
        BY <1>2, <2>3, <3>2, <4>1
    <3>. QED
      BY <1>6, <2>4, <3>1, <3>2
  <2>. QED
    BY <2>3, <2>4 DEF release, times
<1>8. CASE next = {}
  <2>1. Min(times) \in times /\ \A x \in times : Min(times) <= x
    <3>1. times \in SUBSET Int /\ times # {} /\ \A x \in times : 0 <= x
      BY DEF Times, times
    <3>. QED
      BY <3>1, MinIsLeast
  <2>2. release = tomorrow + Min(times) /\ release \in AtTimesOnDay(tomorrow, times)
    BY <1>3, <1>8, <2>1 DEF AtTimesOnDay
  <2>3. release \in Int /\ Boundary(times, Jakarta, release) /\ tomorrow <= release
    BY <1>5, <2>2
  <2>4. paidAt <= release
    BY <1>1, <1>2, <2>3
  <2>5. ASSUME NEW c \in Int, Boundary(times, Jakarta, c), paidAt <= c
        PROVE  release <= c
    <3>1. PICK d \in Int, h \in times : c = d + h /\ tomorrow <= d
      BY <1>6, <1>8, <2>5
    <3>2. h \in Int /\ Min(times) \in Int /\ Min(times) <= h
      BY <2>1 DEF Times, times
    <3>. QED
      BY <1>2, <2>2, <3>1, <3>2
  <2>. QED
    BY <2>3, <2>4, <2>5 DEF release, times
<1>. QED
  BY <1>7, <1>8

-----------------------------------------------------------------------------
(* The two readings of the terms.                                          *)

(***************************************************************************)
(* A whole number of days and a time: the days are counted from the        *)
(* payment by one reading, and back from the last boundary by the other.   *)
(***************************************************************************)
LEMMA WholeDays ==
    ASSUME NEW zone \in Zone, NEW h \in 0 .. Day - 1, NEW n \in Nat,
           NEW paidAt \in Int, NEW t \in Int
    PROVE  LET cutoff == ShiftWholeDays(BoundaryAtOrBefore({h}, zone, t), zone, n)
           IN  /\ cutoff \in Int
               /\ paidAt < cutoff <=> t >= StartOfDay(paidAt, zone) + n * Day + h
<1>. DEFINE last == BoundaryAtOrBefore({h}, zone, t)
            paid == StartOfDay(paidAt, zone)
            release == paid + n * Day + h
            shift == n * Day
<1>1. Day \in Nat /\ Day > 0 /\ h \in Nat /\ h < Day /\ {h} \in Times
  BY DayTyped DEF Times
<1>2. /\ last \in Int /\ Boundary({h}, zone, last) /\ last <= t
      /\ \A c \in Int : Boundary({h}, zone, c) /\ c <= t => c <= last
  BY <1>1, LastBoundary
<1>3. paid \in Int /\ Midnight(paid, zone) /\ paid <= paidAt /\ paidAt < paid + Day
  BY StartsADay
<1>. HIDE DEF last, paid
<1>4. shift \in Int /\ paid + shift \in Int /\ Midnight(paid + shift, zone)
  <2>1. n \in Int
    OBVIOUS
  <2>2. n * Day \in Int /\ paid + n * Day \in Int /\ Midnight(paid + n * Day, zone)
    BY <1>3, <2>1, DaysLater
  <2>. QED
    BY <2>2
<1>5. PICK m \in Int : Midnight(m, zone) /\ last = m + h
  BY <1>2 DEF Boundary
<1>6. StartOfDay(last, zone) = m
  BY <1>1, <1>2, <1>5, DayOf
<1>7. (n - 1) * Day = shift - Day
  BY <1>1
<1>. HIDE DEF shift
<1>. DEFINE cutoff == ShiftWholeDays(last, zone, n)
<1>8. cutoff = m - shift + Day /\ cutoff \in Int
  BY <1>1, <1>4, <1>5, <1>6, <1>7 DEF ShiftWholeDays
<1>9. Midnight(cutoff, zone)
  <2>1. (-(n - 1)) \in Int /\ (-(n - 1)) * Day = Day - shift
    BY <1>1, <1>7 DEF shift
  <2>2. Midnight(m + (-(n - 1)) * Day, zone)
    BY <1>5, <2>1, DaysLater
  <2>3. m + (-(n - 1)) * Day = cutoff
    BY <1>1, <1>4, <1>5, <1>8, <2>1
  <2>. QED
    BY <2>2, <2>3
<1>. HIDE DEF cutoff
<1>10. paidAt < cutoff <=> paid + Day <= cutoff
  <2>1. paid < cutoff => paid + Day <= cutoff
    BY <1>3, <1>8, <1>9, MidnightsApart
  <2>. QED
    BY <1>1, <1>3, <1>8, <2>1
<1>11. paid + Day <= cutoff <=> paid + shift <= m
  BY <1>1, <1>3, <1>4, <1>5, <1>8
<1>12. release \in Int /\ release = paid + shift + h /\ Boundary({h}, zone, release)
  BY <1>1, <1>3, <1>4 DEF Boundary, shift
<1>. HIDE DEF release
<1>13. release <= t <=> release <= last
  BY <1>2, <1>12
<1>14. release <= last <=> paid + shift <= m
  BY <1>1, <1>3, <1>4, <1>5, <1>12
<1>. QED
  BY <1>2, <1>8, <1>10, <1>11, <1>12, <1>13, <1>14 DEF last, paid, release, shift, cutoff

LEMMA PolicyShape ==
    ASSUME NEW policy \in Policy
    PROVE  /\ policy.mode \in {"INSTANT", "FOLLOW_UPSTREAM", "FIXED_DELAY", "SCHEDULED"}
           /\ policy.delay \in Nat
           /\ policy.mode = "SCHEDULED" => policy.times \in Times
           /\ policy.mode = "FIXED_DELAY" =>
                \E h \in 0 .. Day - 1 : policy.times = {h} /\ policy.times \in Times
<1>1. /\ policy.mode \in {"INSTANT", "FOLLOW_UPSTREAM", "FIXED_DELAY", "SCHEDULED"}
      /\ policy.delay \in Nat
      /\ policy.times \in SUBSET (0 .. Day - 1)
      /\ policy.mode = "FIXED_DELAY" => Cardinality(policy.times) = 1
      /\ policy.mode = "SCHEDULED" => policy.times # {}
  BY DEF Policy
<1>2. ASSUME policy.mode = "FIXED_DELAY"
      PROVE  \E h \in 0 .. Day - 1 : policy.times = {h}
  <2>1. IsFiniteSet(policy.times)
    <3>1. IsFiniteSet(0 .. Day - 1)
      <4>1. 0 \in Int /\ Day - 1 \in Int
        BY DayTyped
      <4>. QED
        BY <4>1, FS_Interval
    <3>. QED
      BY <1>1, <3>1, FS_Subset
  <2>2. \E h : policy.times = {h}
    BY <1>1, <1>2, <2>1, FS_Singleton
  <2>. QED
    BY <1>1, <2>2
<1>. QED
  BY <1>1, <1>2 DEF Times

LEMMA WindowShape ==
    ASSUME NEW window \in Window
    PROVE  /\ window.offset \in Nat /\ window.zone \in Zone
           /\ UpstreamTime(window) \in 0 .. Day - 1
BY DayTyped DEF Window, UpstreamTime, Zone

LEMMA LeastOfOne ==
    ASSUME NEW h \in Int
    PROVE  Min({h}) = h
BY DEF Min

LEMMA ReleaseTyped ==
    ASSUME NEW policy \in Policy, NEW window, HasRelease(policy, window),
           window = Null \/ window \in Window, NEW paidAt \in Int
    PROVE  SettlementReleaseAt(paidAt, policy, window) \in Int
<1>. USE DEF SettlementReleaseAt
<1>0. Jakarta \in Zone /\ Day \in Int /\ Day > 0 /\ policy.delay * Day \in Int
  BY DayTyped, PolicyShape DEF Jakarta
<1>1. CASE policy.mode = "INSTANT"
  BY <1>1
<1>2. CASE policy.mode = "FIXED_DELAY"
  <2>1. PICK h \in 0 .. Day - 1 : policy.times = {h}
    BY <1>2, PolicyShape
  <2>2. h \in Int /\ Min({h}) = h
    BY LeastOfOne
  <2>3. StartOfDay(paidAt, Jakarta) \in Int
    BY <1>0, StartsADay
  <2>. QED
    BY <1>0, <1>2, <2>1, <2>2, <2>3 DEF FixedDelayRelease
<1>3. CASE policy.mode = "SCHEDULED"
  BY <1>3, PolicyShape, NextBoundary
<1>4. CASE policy.mode = "FOLLOW_UPSTREAM"
  <2>1. window \in Window
    BY <1>4 DEF HasRelease
  <2>2. /\ StartOfDay(paidAt, window.zone) \in Int /\ window.offset * Day \in Int
        /\ UpstreamTime(window) \in Int
    BY <1>0, <2>1, WindowShape, StartsADay
  <2>. QED
    BY <1>4, <2>2 DEF FollowUpstreamRelease
<1>. QED
  BY <1>1, <1>2, <1>3, <1>4, PolicyShape

(***************************************************************************)
(* settlementCutoff and settlementReleaseAt divide the payments alike.     *)
(***************************************************************************)
LEMMA ReadingsAgree ==
    ASSUME NEW policy \in Policy, NEW window, HasRelease(policy, window),
           window = Null \/ window \in Window, NEW paidAt \in Int, NEW t \in Int
    PROVE  /\ SettlementCutoff(policy, t, window) \in Int
           /\ paidAt < SettlementCutoff(policy, t, window)
                <=> IsEligible(paidAt, policy, window, t)
<1>. DEFINE cutoff == SettlementCutoff(policy, t, window)
            release == SettlementReleaseAt(paidAt, policy, window)
<1>. SUFFICES cutoff \in Int /\ (paidAt < cutoff <=> t >= release)
  BY DEF IsEligible
<1>0. Jakarta \in Zone
  BY DayTyped DEF Jakarta
<1>1. CASE policy.mode = "INSTANT"
  <2>1. cutoff = t + 1 /\ release = paidAt
    BY <1>1 DEF SettlementCutoff, SettlementReleaseAt
  <2>. QED
    BY <2>1
<1>2. CASE policy.mode = "SCHEDULED"
  <2>. DEFINE last == BoundaryAtOrBefore(policy.times, Jakarta, t)
              next == ScheduledRelease(paidAt, policy)
  <2>1. cutoff = last + 1 /\ release = next
    BY <1>2 DEF SettlementCutoff, SettlementReleaseAt
  <2>2. policy.times \in Times
    BY <1>2, PolicyShape
  <2>3. /\ last \in Int /\ Boundary(policy.times, Jakarta, last) /\ last <= t
        /\ \A c \in Int : Boundary(policy.times, Jakarta, c) /\ c <= t => c <= last
    BY <1>0, <2>2, LastBoundary
  <2>4. /\ next \in Int /\ Boundary(policy.times, Jakarta, next) /\ paidAt <= next
        /\ \A c \in Int : Boundary(policy.times, Jakarta, c) /\ paidAt <= c => next <= c
    BY <2>2, NextBoundary
  <2>. HIDE DEF last, next, cutoff, release
  <2>5. paidAt <= last => next <= last
    BY <2>3, <2>4
  <2>6. next <= t => next <= last
    BY <2>3, <2>4
  <2>. QED
    BY <2>1, <2>3, <2>4, <2>5, <2>6
<1>3. CASE policy.mode = "FIXED_DELAY"
  <2>1. PICK h \in 0 .. Day - 1 : policy.times = {h}
    BY <1>3, PolicyShape
  <2>2. cutoff = ShiftWholeDays(BoundaryAtOrBefore({h}, Jakarta, t), Jakarta, policy.delay)
    BY <1>3, <2>1 DEF SettlementCutoff
  <2>3. release = StartOfDay(paidAt, Jakarta) + policy.delay * Day + h
    BY <1>3, <2>1, LeastOfOne DEF SettlementReleaseAt, FixedDelayRelease
  <2>. QED
    BY <1>0, <2>2, <2>3, WholeDays, PolicyShape
<1>4. CASE policy.mode = "FOLLOW_UPSTREAM"
  <2>1. window \in Window /\ window # Null
    BY <1>4 DEF HasRelease
  <2>2. cutoff = ShiftWholeDays(BoundaryAtOrBefore({UpstreamTime(window)}, window.zone, t),
                                window.zone, window.offset)
    BY <1>4, <2>1 DEF SettlementCutoff, UpstreamBoundary
  <2>3. release = StartOfDay(paidAt, window.zone) + window.offset * Day + UpstreamTime(window)
    BY <1>4 DEF SettlementReleaseAt, FollowUpstreamRelease
  <2>. QED
    BY <2>1, <2>2, <2>3, WholeDays, WindowShape
<1>. QED
  BY <1>1, <1>2, <1>3, <1>4, PolicyShape

-----------------------------------------------------------------------------
(* The moments a run is written for.                                       *)

LEMMA NoRemainder ==
    ASSUME NEW s \in Nat, s > 0, NEW q \in Int
    PROVE  (s * q) % s = 0
<1>. DEFINE x == s * q
            d == x \div s
            r == x % s
<1>1. x \in Int
  OBVIOUS
<1>2. r \in 0 .. s - 1 /\ d \in Int /\ x = s * d + r
  BY <1>1
<1>. HIDE DEF d, r
<1>3. r = s * (q - d)
  BY <1>2
<1>4. CASE q - d >= 1
  <2>1. s * (q - d) >= s
    BY <1>2, <1>4
  <2>. QED
    BY <1>2, <1>3, <2>1
<1>5. CASE q - d <= -1
  <2>1. s * (q - d) <= -s
    BY <1>2, <1>5
  <2>. QED
    BY <1>2, <1>3, <2>1
<1>6. CASE q - d = 0
  BY <1>2, <1>3, <1>6 DEF r
<1>. QED
  BY <1>2, <1>4, <1>5, <1>6

LEMMA SlotBegins ==
    ASSUME NEW t \in Int
    PROVE  CurrentSlot(t) \in Int /\ CurrentSlot(t) <= t /\ CurrentSlot(t) % Slot = 0
<1>1. Slot \in Nat /\ Slot > 0
  BY DayTyped
<1>2. t % Slot \in 0 .. Slot - 1 /\ t \div Slot \in Int /\ t = Slot * (t \div Slot) + (t % Slot)
  BY <1>1
<1>3. Slot * (t \div Slot) \in Int
  BY <1>1, <1>2
<1>4. CurrentSlot(t) = Slot * (t \div Slot)
  BY <1>2, <1>3 DEF CurrentSlot
<1>5. (Slot * (t \div Slot)) % Slot = 0
  BY <1>1, <1>2, NoRemainder
<1>. QED
  BY <1>2, <1>3, <1>4, <1>5 DEF CurrentSlot

LEMMA WindowOfTyped ==
    ASSUME NEW method
    PROVE  WindowOf(method) = Null \/ WindowOf(method) \in Window
BY WorldAssumption DEF WindowOf

LEMMA DueTyped ==
    ASSUME NEW policy \in Policy, NEW window, window = Null \/ window \in Window,
           NEW t \in Int, MostRecentDueAt(policy, t, window) # Null
    PROVE  /\ MostRecentDueAt(policy, t, window) \in Int
           /\ MostRecentDueAt(policy, t, window) <= t
<1>0. Jakarta \in Zone
  BY DayTyped DEF Jakarta
<1>1. CASE policy.mode \in {"SCHEDULED", "FIXED_DELAY"}
  <2>1. policy.times \in Times
    BY <1>1, PolicyShape
  <2>. QED
    BY <1>0, <1>1, <2>1, LastBoundary DEF MostRecentDueAt
<1>2. CASE policy.mode = "FOLLOW_UPSTREAM"
  <2>1. window # Null /\ window \in Window
    BY <1>2 DEF MostRecentDueAt
  <2>2. {UpstreamTime(window)} \in Times /\ window.zone \in Zone
    BY <2>1, WindowShape DEF Times
  <2>. QED
    BY <1>2, <2>1, <2>2, LastBoundary DEF MostRecentDueAt, UpstreamBoundary
<1>3. CASE policy.mode = "INSTANT"
  BY <1>3, SlotBegins DEF MostRecentDueAt
<1>. QED
  BY <1>1, <1>2, <1>3, PolicyShape

\* What is due is a boundary of the terms.
LEMMA DueIsBoundary ==
    ASSUME NEW row, row.policy \in Policy, NEW run, NEW t \in Int,
           run.dueAt = MostRecentDueAt(row.policy, t, WindowOf(run.method)),
           run.dueAt # Null
    PROVE  IsBoundary(row, run)
<1>. DEFINE policy == row.policy
            window == WindowOf(run.method)
<1>0. Jakarta \in Zone /\ run.dueAt \in Int /\ (window = Null \/ window \in Window)
  BY DayTyped, DueTyped, WindowOfTyped DEF Jakarta
<1>1. ASSUME NEW times \in Times, NEW zone \in Zone,
             run.dueAt = BoundaryAtOrBefore(times, zone, t)
      PROVE  run.dueAt - StartOfDay(run.dueAt, zone) \in times
  <2>1. PICK d \in Int, h \in times : Midnight(d, zone) /\ run.dueAt = d + h
    BY <1>1, LastBoundary DEF Boundary
  <2>2. h \in Nat /\ h < Day /\ Day \in Nat
    BY DayTyped DEF Times
  <2>3. StartOfDay(run.dueAt, zone) = d
    BY <2>1, <2>2, DayOf
  <2>. QED
    BY <2>1, <2>2, <2>3
<1>2. CASE policy.mode \in {"SCHEDULED", "FIXED_DELAY"}
  <2>1. policy.times \in Times
    BY <1>2, PolicyShape
  <2>2. run.dueAt = BoundaryAtOrBefore(policy.times, Jakarta, t)
    BY <1>2 DEF MostRecentDueAt
  <2>. QED
    BY <1>0, <1>1, <1>2, <2>1, <2>2 DEF IsBoundary
<1>3. CASE policy.mode = "FOLLOW_UPSTREAM"
  <2>1. window # Null /\ window \in Window
    BY <1>0, <1>3 DEF MostRecentDueAt
  <2>2. {UpstreamTime(window)} \in Times /\ window.zone \in Zone
    BY <2>1, WindowShape DEF Times
  <2>3. run.dueAt = BoundaryAtOrBefore({UpstreamTime(window)}, window.zone, t)
    BY <1>3, <2>1 DEF MostRecentDueAt, UpstreamBoundary
  <2>4. run.dueAt - StartOfDay(run.dueAt, window.zone) \in {UpstreamTime(window)}
    BY <1>1, <2>2, <2>3
  <2>. QED
    BY <1>3, <2>1, <2>4 DEF IsBoundary
<1>4. CASE policy.mode = "INSTANT"
  BY <1>4, SlotBegins DEF IsBoundary, MostRecentDueAt
<1>. QED
  BY <1>2, <1>3, <1>4, PolicyShape

-----------------------------------------------------------------------------
(* Types.                                                                  *)

LEMMA World ==
    /\ Opening \in Nat /\ Horizon \in Nat /\ Opening <= Horizon /\ MaxLate \in Nat
    /\ "*" \notin Methods /\ Null \notin Int /\ Null \notin TermsRow
    /\ Policies \subseteq Policy
BY WorldAssumption, ClockAssumption

LEMMA ClockTyped ==
    ASSUME TypeOK
    PROVE  now \in Nat /\ Opening <= now /\ now <= Horizon /\ now + 1 \in Opening .. Horizon + 1
BY World DEF TypeOK

LEMMA RowShape ==
    ASSUME TypeOK, NEW row \in rows
    PROVE  /\ row \in TermsRow /\ row # Null
           /\ row.policy \in Policy /\ row.policy \in Policies
           /\ row.method \in Methods \cup {"*"}
           /\ row.from \in Nat /\ row.from <= Horizon + 1
           /\ row.to # Null => row.to \in Nat
<1>1. row \in TermsRow
  BY DEF TypeOK
<1>2. /\ row.policy \in Policies /\ row.method \in Methods \cup {"*"}
      /\ row.from \in Opening .. Horizon + 1 /\ row.to \in (Opening .. Horizon + 1) \cup {Null}
  BY <1>1 DEF TermsRow
<1>. QED
  BY <1>1, <1>2, World

LEMMA RunShape ==
    ASSUME TypeOK, NEW row \in rows, NEW run \in RunsFor(row)
    PROVE  /\ run \in RunKey
           /\ run.method \in Targets(row)
           /\ ~(row.policy.mode = "FOLLOW_UPSTREAM" /\ Ambiguous(run.method))
           /\ run.dueAt = MostRecentDueAt(row.policy, now, WindowOf(run.method))
           /\ run.dueAt # Null
           /\ run.dueAt \in Int /\ row.from <= run.dueAt /\ run.dueAt <= now
<1>1. PICK method \in Targets(row) :
         /\ run = [method |-> method,
                   dueAt |-> MostRecentDueAt(row.policy, now, WindowOf(method))]
         /\ ~(row.policy.mode = "FOLLOW_UPSTREAM" /\ Ambiguous(method))
         /\ SinceEffective(row, MostRecentDueAt(row.policy, now, WindowOf(method)))
  BY DEF RunsFor
<1>2. run.method = method /\ run.dueAt = MostRecentDueAt(row.policy, now, WindowOf(method))
  BY <1>1
<1>3. run.dueAt # Null /\ row.from <= run.dueAt
  BY <1>1, <1>2, RowShape, ClockTyped, DueTyped, WindowOfTyped DEF SinceEffective
<1>4. run.dueAt \in Int /\ run.dueAt <= now
  BY <1>2, <1>3, RowShape, ClockTyped, DueTyped, WindowOfTyped
<1>5. method \in Methods \cup {"*"}
  BY RowShape DEF Targets
<1>. QED
  BY <1>1, <1>2, <1>3, <1>4, <1>5 DEF RunKey

LEMMA DueShape ==
    ASSUME TypeOK, NEW run \in Due
    PROVE  \E row \in rows : InForce(row, now) /\ ~row.policy.businessDaysOnly
                               /\ run \in RunsFor(row)
BY DEF Due

LEMMA DueKeys ==
    ASSUME TypeOK
    PROVE  Due \subseteq RunKey
BY DueShape, RunShape

LEMMA InitTyped == Init => TypeOK
<1>. SUFFICES ASSUME Init PROVE TypeOK
  OBVIOUS
<1>1. now \in Opening .. Horizon
  BY World DEF Init
<1>2. rows \subseteq TermsRow
  <2>1. PICK keys \in Registrations : \E first \in [keys -> Policies] :
            rows = {Row(key, first[key], Opening) : key \in keys}
    BY DEF Init
  <2>2. PICK first \in [keys -> Policies] :
            rows = {Row(key, first[key], Opening) : key \in keys}
    BY <2>1
  <2>3. keys \subseteq Methods \cup {"*"} /\ Opening \in Opening .. Horizon + 1
    BY World, WorldAssumption
  <2>. QED
    BY <2>2, <2>3 DEF Row, TermsRow
<1>. QED
  BY <1>1, <1>2 DEF Init, TypeOK, Unpaid

\* One row is retired and one begins; the others stay.
LEMMA ChangeShape ==
    ASSUME TypeOK, NEW old \in rows, NEW policy \in Policies, ChangeTerms(old, policy)
    PROVE  LET retired == [old EXCEPT !.to = now + 1]
               new == Row(old.method, policy, now + 1)
           IN  /\ rows' = (rows \ {old}) \cup {retired, new}
               /\ old.to = Null /\ old.from <= now /\ now' = now
               /\ retired \in TermsRow /\ new \in TermsRow
               /\ retired.method = old.method /\ retired.policy = old.policy
               /\ retired.from = old.from /\ retired.to = now + 1
               /\ new.method = old.method /\ new.policy = policy
               /\ new.from = now + 1 /\ new.to = Null
<1>1. old \in TermsRow /\ now + 1 \in Opening .. Horizon + 1
  BY ClockTyped DEF TypeOK
<1>. QED
  BY <1>1 DEF ChangeTerms, Row, TermsRow

LEMMA NextTyped == TypeOK /\ [Next]_vars => TypeOK'
<1>. SUFFICES ASSUME TypeOK, [Next]_vars PROVE TypeOK'
  OBVIOUS
<1>1. CASE Tick
  <2>1. now' \in Opening .. Horizon
    BY <1>1, ClockTyped, World DEF Tick
  <2>. QED
    BY <1>1, <2>1 DEF Tick, TypeOK
<1>2. ASSUME NEW p \in Payments, Capture(p)
      PROVE  TypeOK'
  <2>1. PICK method \in Methods, ago \in 0 .. MaxLate :
          payment' = [payment EXCEPT ![p] = [method |-> method, paidAt |-> now - ago,
                                             reported |-> now, settled |-> Null]]
    BY <1>2 DEF Capture
  <2>2. now - ago \in Int /\ now \in Int
    BY ClockTyped, World
  <2>. QED
    BY <1>2, <2>1, <2>2 DEF Capture, TypeOK
<1>3. ASSUME NEW old \in rows, NEW policy \in Policies, ChangeTerms(old, policy)
      PROVE  TypeOK'
  <2>. DEFINE retired == [old EXCEPT !.to = now + 1]
              new == Row(old.method, policy, now + 1)
  <2>0. rows' = (rows \ {old}) \cup {retired, new} /\ retired \in TermsRow /\ new \in TermsRow
    BY <1>3, ChangeShape
  <2>. HIDE DEF retired, new
  <2>1. rows' \subseteq TermsRow
    BY <2>0 DEF TypeOK
  <2>. QED
    BY <1>3, <2>1 DEF ChangeTerms, TypeOK
<1>4. CASE WriteToSettlementRun
  BY <1>4, DueKeys DEF WriteToSettlementRun, TypeOK
<1>5. ASSUME NEW run \in pending, Settle(run)
      PROVE  TypeOK'
  <2>1. now \in Int
    BY ClockTyped
  <2>2. \A p \in Payments :
           payment'[p] \in [method : Methods \cup {Null}, paidAt : Int \cup {Null},
                            reported : Int \cup {Null}, settled : Int \cup {Null}]
    BY <1>5, <2>1 DEF Settle, TypeOK
  <2>3. payment' \in [Payments -> [method   : Methods \cup {Null},
                                   paidAt   : Int \cup {Null},
                                   reported : Int \cup {Null},
                                   settled  : Int \cup {Null}]]
    BY <1>5, <2>2 DEF Settle
  <2>. QED
    BY <1>5, <2>3 DEF Settle, TypeOK
<1>6. CASE UNCHANGED vars
  BY <1>6 DEF vars, TypeOK
<1>. QED
  BY <1>1, <1>2, <1>3, <1>4, <1>5, <1>6 DEF Next

(***************************************************************************)
(* The terms, the runs and the payments keep their types for every length  *)
(* of the day: whatever moment the policies derive, it is one.             *)
(***************************************************************************)
THEOREM TypeCorrect == Spec => []TypeOK
<1>. QED
  BY InitTyped, NextTyped, PTL DEF Spec

-----------------------------------------------------------------------------
(* The two readings agree about every payment.                             *)

\* What was captured says when and by which method it was paid.
PaymentsOK ==
    \A p \in Payments :
        Captured(p) =>
          /\ payment[p].method \in Methods
          /\ payment[p].paidAt \in Int
          /\ payment[p].reported \in Int /\ payment[p].reported <= now

LEMMA PaymentShape ==
    ASSUME TypeOK, NEW p \in Payments
    PROVE  payment[p] \in [method : Methods \cup {Null}, paidAt : Int \cup {Null},
                           reported : Int \cup {Null}, settled : Int \cup {Null}]
BY DEF TypeOK

LEMMA PaymentsKept == TypeOK /\ PaymentsOK /\ [Next]_vars => PaymentsOK'
<1>. SUFFICES ASSUME TypeOK, PaymentsOK, [Next]_vars,
                     NEW p \in Payments, payment'[p].reported # Null
              PROVE  /\ payment'[p].method \in Methods
                     /\ payment'[p].paidAt \in Int
                     /\ payment'[p].reported \in Int /\ payment'[p].reported <= now'
  BY DEF PaymentsOK, Captured
<1>0. now \in Nat /\ now' \in Nat
  BY NextTyped, World DEF TypeOK
<1>1. CASE payment'[p].reported = payment[p].reported
           /\ payment'[p].method = payment[p].method
           /\ payment'[p].paidAt = payment[p].paidAt
           /\ now <= now'
  BY <1>0, <1>1 DEF PaymentsOK, Captured
<1>2. CASE Tick
  BY <1>0, <1>1, <1>2 DEF Tick
<1>3. ASSUME NEW q \in Payments, Capture(q)
      PROVE  /\ payment'[p].method \in Methods
             /\ payment'[p].paidAt \in Int
             /\ payment'[p].reported \in Int /\ payment'[p].reported <= now'
  <2>1. PICK method \in Methods, ago \in 0 .. MaxLate :
          payment' = [payment EXCEPT ![q] = [method |-> method, paidAt |-> now - ago,
                                             reported |-> now, settled |-> Null]]
    BY <1>3 DEF Capture
  <2>2. now' = now /\ now - ago \in Int
    BY <1>0, <1>3, World DEF Capture
  <2>3. CASE p = q
    <3>1. payment'[p] = [method |-> method, paidAt |-> now - ago,
                         reported |-> now, settled |-> Null]
      BY <2>1, <2>3 DEF TypeOK
    <3>. QED
      BY <1>0, <2>2, <3>1
  <2>4. CASE p # q
    BY <1>0, <1>1, <2>1, <2>2, <2>4 DEF TypeOK
  <2>. QED
    BY <2>3, <2>4
<1>4. ASSUME NEW run \in pending, Settle(run)
      PROVE  /\ payment'[p].method \in Methods
             /\ payment'[p].paidAt \in Int
             /\ payment'[p].reported \in Int /\ payment'[p].reported <= now'
  BY <1>0, <1>1, <1>4, PaymentShape DEF Settle
<1>5. CASE UNCHANGED <<payment, now>>
  BY <1>0, <1>1, <1>5
<1>. QED
  BY <1>2, <1>3, <1>4, <1>5 DEF Next, ChangeTerms, WriteToSettlementRun, vars

LEMMA InitPayments == Init => PaymentsOK
BY DEF Init, PaymentsOK, Captured, Unpaid

LEMMA PaymentsAgree == TypeOK /\ PaymentsOK => CutoffAgrees
<1>. SUFFICES ASSUME TypeOK, PaymentsOK, NEW row \in rows, NEW p \in Payments, Captured(p),
                     HasRelease(row.policy, WindowOf(payment[p].method))
              PROVE  payment[p].paidAt < SettlementCutoff(row.policy, now,
                                                          WindowOf(payment[p].method))
                       <=> IsEligible(payment[p].paidAt, row.policy,
                                      WindowOf(payment[p].method), now)
  BY DEF CutoffAgrees
<1>. QED
  BY RowShape, ClockTyped, WindowOfTyped, ReadingsAgree DEF PaymentsOK

(***************************************************************************)
(* The claim's comparison with settlementCutoff and the function of        *)
(* record, settlementReleaseAt, agree about every payment, for every       *)
(* length of the day, all terms and windows, and at every moment.          *)
(***************************************************************************)
THEOREM ReadingsNeverDiffer == Spec => []CutoffAgrees
<1>. QED
  BY InitPayments, TypeCorrect, PaymentsKept, PaymentsAgree, PTL DEF Spec

-----------------------------------------------------------------------------
(* What was settled was released.                                          *)

LEMMA PolicyForShape ==
    ASSUME TypeOK, NEW method, NEW t, PolicyFor(method, t) # Null
    PROVE  /\ PolicyFor(method, t) \in rows
           /\ PolicyFor(method, t).method \in {method, "*"}
           /\ InForce(PolicyFor(method, t), t)
<1>. DEFINE found == {row \in rows : row.method \in {method, "*"} /\ InForce(row, t)}
            best == IF \E row \in found : row.method # "*"
                    THEN {row \in found : row.method # "*"} ELSE found
            begins == {row.from : row \in best}
<1>1. found # {} /\ PolicyFor(method, t) = CHOOSE row \in best : \A o \in best : o.from <= row.from
  BY DEF PolicyFor
<1>2. best # {} /\ best \subseteq found /\ found \subseteq rows
  BY <1>1
<1>. HIDE DEF best
<1>3. \A row \in best : row.from \in Nat /\ row.from <= Horizon + 1
  BY <1>2, RowShape
<1>4. begins \in SUBSET Int /\ begins # {} /\ \A x \in begins : x <= Horizon + 1
  BY <1>2, <1>3
<1>5. Max(begins) \in begins /\ \A x \in begins : Max(begins) >= x
  <2>1. Horizon + 1 \in Int
    BY World
  <2>. HIDE DEF begins
  <2>. QED
    BY <1>4, <2>1, MaxIsGreatest
<1>6. PICK row \in best : row.from = Max(begins)
  BY <1>5
<1>7. \A o \in best : o.from <= row.from
  <2>1. \A o \in best : o.from \in begins
    OBVIOUS
  <2>. HIDE DEF begins
  <2>. QED
    BY <1>3, <1>5, <1>6, <2>1
<1>8. PolicyFor(method, t) \in best
  BY <1>1, <1>7
<1>. QED
  BY <1>2, <1>8

\* Only an upstream's terms look at the window.
LEMMA CutoffOf ==
    ASSUME NEW policy, NEW t, NEW v, NEW w, v = w \/ policy.mode # "FOLLOW_UPSTREAM",
           policy \in Policy
    PROVE  SettlementCutoff(policy, t, v) = SettlementCutoff(policy, t, w)
BY PolicyShape DEF SettlementCutoff

LEMMA ClaimedIsReleased ==
    ASSUME TypeOK, PaymentsOK, NEW run, NEW p \in Claimed(run)
    PROVE  \E row \in rows :
              /\ InForce(row, now)
              /\ IsEligible(payment[p].paidAt, row.policy, WindowOf(payment[p].method), now)
<1>. DEFINE row == PolicyFor(run.method, now)
            window == WindowOf(payment[p].method)
<1>1. /\ p \in Payments /\ Captured(p)
      /\ run.method \in {"*", payment[p].method}
      /\ Cutoff(run) # Null /\ payment[p].paidAt < Cutoff(run)
  BY DEF Claimed
<1>2. /\ row # Null /\ ~Throws(run, row)
      /\ Cutoff(run) = SettlementCutoff(row.policy, now, WindowOf(run.method))
  BY <1>1 DEF Cutoff
<1>3. row \in rows /\ InForce(row, now)
  BY <1>2, PolicyForShape
<1>. HIDE DEF row
<1>4. row.policy \in Policy /\ now \in Int /\ payment[p].paidAt \in Int
  BY <1>1, <1>3, RowShape, ClockTyped DEF PaymentsOK
<1>5. Cutoff(run) = SettlementCutoff(row.policy, now, window)
  <2>1. run.method = payment[p].method \/ row.policy.mode # "FOLLOW_UPSTREAM"
    BY <1>1, <1>2 DEF Throws
  <2>. QED
    BY <1>2, <1>4, <2>1, CutoffOf
<1>6. HasRelease(row.policy, window)
  <2>1. ~row.policy.businessDaysOnly
    BY <1>2 DEF Throws
  <2>2. row.policy.mode = "FOLLOW_UPSTREAM" => window # Null
    BY <1>1, <1>5 DEF SettlementCutoff
  <2>. QED
    BY <2>1, <2>2 DEF HasRelease
<1>7. IsEligible(payment[p].paidAt, row.policy, window, now)
  BY <1>1, <1>4, <1>5, <1>6, WindowOfTyped, ReadingsAgree
<1>. QED
  BY <1>3, <1>7

\* Terms that were in force at a moment that has been stay on record.
LEMMA TermsOnRecord ==
    ASSUME TypeOK, [Next]_vars, NEW row \in rows, NEW t \in Int, t <= now, InForce(row, t)
    PROVE  \E kept \in rows' : /\ InForce(kept, t)
                               /\ kept.policy = row.policy /\ kept.method = row.method
<1>1. CASE rows' = rows
  BY <1>1
<1>2. ASSUME NEW old \in rows, NEW policy \in Policies, ChangeTerms(old, policy)
      PROVE  \E kept \in rows' : /\ InForce(kept, t)
                                 /\ kept.policy = row.policy /\ kept.method = row.method
  <2>. DEFINE retired == [old EXCEPT !.to = now + 1]
              new == Row(old.method, policy, now + 1)
  <2>1. /\ rows' = (rows \ {old}) \cup {retired, new}
        /\ retired.method = old.method /\ retired.policy = old.policy
        /\ retired.from = old.from /\ retired.to = now + 1
    BY <1>2, ChangeShape
  <2>. HIDE DEF retired, new
  <2>2. CASE row = old
    <3>1. t < retired.to /\ retired.from <= t
      BY <2>1, <2>2, ClockTyped DEF InForce
    <3>. QED
      BY <2>1, <2>2, <3>1 DEF InForce
  <2>3. CASE row # old
    BY <2>1, <2>3
  <2>. QED
    BY <2>2, <2>3
<1>. QED
  BY <1>1, <1>2 DEF Next, Tick, Capture, WriteToSettlementRun, Settle, vars

\* A payment was settled at a moment that has been, under terms on record.
SettledOK ==
    \A p \in Payments :
        LET at == payment[p].settled
        IN  at # Null =>
              /\ Captured(p) /\ at <= now
              /\ \E row \in rows :
                    /\ InForce(row, at)
                    /\ IsEligible(payment[p].paidAt, row.policy,
                                  WindowOf(payment[p].method), at)

LEMMA SettledKept == TypeOK /\ PaymentsOK /\ SettledOK /\ [Next]_vars => SettledOK'
<1>. SUFFICES ASSUME TypeOK, PaymentsOK, SettledOK, [Next]_vars,
                     NEW p \in Payments, payment'[p].settled # Null
              PROVE  /\ payment'[p].reported # Null /\ payment'[p].settled <= now'
                     /\ \E row \in rows' :
                          /\ InForce(row, payment'[p].settled)
                          /\ IsEligible(payment'[p].paidAt, row.policy,
                                        WindowOf(payment'[p].method), payment'[p].settled)
  BY DEF SettledOK, Captured, InForce, IsEligible
<1>. DEFINE at == payment'[p].settled
<1>0. now \in Nat /\ now' \in Nat /\ payment[p].settled \in Int \cup {Null}
  BY NextTyped, World, PaymentShape DEF TypeOK
<1>. DEFINE Released == /\ payment'[p].reported # Null /\ at <= now'
                       /\ \E row \in rows' :
                            /\ InForce(row, at)
                            /\ IsEligible(payment'[p].paidAt, row.policy,
                                          WindowOf(payment'[p].method), at)
<1>1. ASSUME payment'[p] = payment[p], now <= now'
      PROVE  Released
  <2>1. /\ Captured(p) /\ at \in Int /\ at <= now
        /\ \E row \in rows :
              /\ InForce(row, at)
              /\ IsEligible(payment[p].paidAt, row.policy, WindowOf(payment[p].method), at)
    BY <1>0, <1>1 DEF SettledOK
  <2>2. PICK row \in rows :
              /\ InForce(row, at)
              /\ IsEligible(payment[p].paidAt, row.policy, WindowOf(payment[p].method), at)
    BY <2>1
  <2>3. PICK kept \in rows' : InForce(kept, at) /\ kept.policy = row.policy
    BY <2>1, <2>2, TermsOnRecord
  <2>. QED
    BY <1>0, <1>1, <2>1, <2>2, <2>3 DEF Captured
<1>2. CASE Tick
  <2>1. now' = now + 1 /\ payment' = payment
    BY <1>2 DEF Tick
  <2>2. now <= now'
    BY <1>0, <2>1
  <2>3. Released
    BY <1>1, <2>1, <2>2
  <2>. QED
    BY <2>3
<1>3. ASSUME NEW q \in Payments, Capture(q)
      PROVE  Released
  <2>1. now' = now
    BY <1>3 DEF Capture
  <2>2. p # q
    BY <1>3, PaymentShape DEF Capture, TypeOK
  <2>3. payment'[p] = payment[p]
    BY <1>3, <2>2 DEF Capture, TypeOK
  <2>. QED
    BY <1>0, <1>1, <2>1, <2>3
<1>4. ASSUME NEW run \in pending, Settle(run)
      PROVE  Released
  <2>1. now' = now /\ rows' = rows
    BY <1>4 DEF Settle
  <2>2. CASE p \in Claimed(run)
    <3>1. payment'[p] = [payment[p] EXCEPT !.settled = now]
      BY <1>4, <2>2 DEF Settle
    <3>2. /\ at = now /\ payment'[p].reported = payment[p].reported
          /\ payment'[p].paidAt = payment[p].paidAt /\ payment'[p].method = payment[p].method
      BY <3>1, PaymentShape
    <3>3. Captured(p)
      BY <2>2 DEF Claimed
    <3>4. \E row \in rows :
              /\ InForce(row, now)
              /\ IsEligible(payment[p].paidAt, row.policy, WindowOf(payment[p].method), now)
      BY <2>2, ClaimedIsReleased
    <3>. QED
      BY <1>0, <2>1, <3>2, <3>3, <3>4 DEF Captured
  <2>3. CASE p \notin Claimed(run)
    BY <1>0, <1>1, <1>4, <2>1, <2>3 DEF Settle
  <2>. QED
    BY <2>2, <2>3
<1>5. CASE payment' = payment /\ now' = now
  <2>1. Released
    BY <1>0, <1>1, <1>5
  <2>. QED
    BY <2>1
<1>6. \/ Tick
      \/ \E q \in Payments : Capture(q)
      \/ \E run \in pending : Settle(run)
      \/ payment' = payment /\ now' = now
  BY DEF Next, ChangeTerms, WriteToSettlementRun, vars
<1>. HIDE DEF at, Released
<1>. QED
  BY <1>2, <1>3, <1>4, <1>5, <1>6 DEF Released, at

LEMMA InitSettled == Init => SettledOK
BY DEF Init, SettledOK, Unpaid

(***************************************************************************)
(* Whatever a run takes is released by the terms in force at that moment,  *)
(* whichever terms it was written under and however late it is settled.    *)
(***************************************************************************)
THEOREM OnlyReleasedIsSettled == Spec => []EligibleWhenSettled
<1>1. SettledOK => EligibleWhenSettled
  BY DEF SettledOK, EligibleWhenSettled
<1>. QED
  BY <1>1, InitPayments, InitSettled, TypeCorrect, PaymentsKept, SettledKept, PTL DEF Spec

-----------------------------------------------------------------------------
(* Runs are written for boundaries of terms in force.                      *)

NamesBoundary(run) ==
    /\ run.dueAt <= now
    /\ \E row \in rows : /\ run.method \in Targets(row)
                         /\ InForce(row, run.dueAt)
                         /\ IsBoundary(row, run)

RunsOK == \A run \in pending \cup ended : NamesBoundary(run)

LEMMA DueNamesBoundary ==
    ASSUME TypeOK, NEW run \in Due
    PROVE  NamesBoundary(run)
<1>1. PICK row \in rows : InForce(row, now) /\ run \in RunsFor(row)
  BY DueShape
<1>2. /\ run.method \in Targets(row)
      /\ run.dueAt = MostRecentDueAt(row.policy, now, WindowOf(run.method))
      /\ run.dueAt # Null /\ run.dueAt \in Int
      /\ row.from <= run.dueAt /\ run.dueAt <= now
  BY <1>1, RunShape
<1>3. InForce(row, run.dueAt)
  BY <1>1, <1>2, RowShape, ClockTyped DEF InForce
<1>4. IsBoundary(row, run)
  BY <1>2, RowShape, ClockTyped, DueIsBoundary
<1>. QED
  BY <1>2, <1>3, <1>4 DEF NamesBoundary

LEMMA RunsKept == TypeOK /\ RunsOK /\ [Next]_vars => RunsOK'
<1>. SUFFICES ASSUME TypeOK, RunsOK, [Next]_vars, NEW run \in pending' \cup ended'
              PROVE  /\ run.dueAt <= now'
                     /\ \E row \in rows' : /\ run.method \in Targets(row)
                                           /\ InForce(row, run.dueAt)
                                           /\ IsBoundary(row, run)
  BY DEF RunsOK, NamesBoundary, Targets, InForce, IsBoundary
<1>0. now \in Nat /\ now' \in Nat /\ now <= now'
  <2>1. now \in Nat /\ now' \in Nat
    BY NextTyped, World DEF TypeOK
  <2>2. now' = now + 1 \/ now' = now
    BY DEF Next, Tick, Capture, ChangeTerms, WriteToSettlementRun, Settle, vars
  <2>. QED
    BY <2>1, <2>2
<1>1. run \in pending \cup ended \/ run \in Due
  BY DEF Next, Tick, Capture, ChangeTerms, WriteToSettlementRun, Settle, vars
<1>2. NamesBoundary(run) /\ run.dueAt \in Int
  BY <1>1, DueNamesBoundary, DueKeys DEF RunsOK, RunKey, TypeOK
<1>3. PICK row \in rows : /\ run.method \in Targets(row)
                          /\ InForce(row, run.dueAt)
                          /\ IsBoundary(row, run)
  BY <1>2 DEF NamesBoundary
<1>4. PICK kept \in rows' : /\ InForce(kept, run.dueAt)
                            /\ kept.policy = row.policy /\ kept.method = row.method
  BY <1>2, <1>3, TermsOnRecord DEF NamesBoundary
<1>5. run.method \in Targets(kept) /\ IsBoundary(kept, run)
  BY <1>3, <1>4 DEF Targets, IsBoundary
<1>. QED
  BY <1>0, <1>2, <1>4, <1>5 DEF NamesBoundary

(***************************************************************************)
(* A run names a release boundary of terms that were in force at that      *)
(* moment, however late or often the enqueuer comes and however the terms  *)
(* change around it.                                                       *)
(***************************************************************************)
THEOREM RunsAreOfBoundaries == Spec => []RunsNameBoundaries
<1>1. Init => RunsOK
  BY DEF Init, RunsOK
<1>2. RunsOK => RunsNameBoundaries
  BY DEF RunsOK, NamesBoundary, RunsNameBoundaries
<1>. QED
  BY <1>1, <1>2, TypeCorrect, RunsKept, PTL DEF Spec

-----------------------------------------------------------------------------
(* Nothing is left behind.                                                 *)

Before(r, s) == r.to # Null /\ r.to <= s.from

\* Of the terms of one method no two are in force at once,
RowsApart ==
    \A r, s \in rows : r # s /\ r.method = s.method => Before(r, s) \/ Before(s, r)

\* and at every moment some are, once there have been any.
KeysCovered ==
    \A r \in rows : \A t \in Nat :
        t >= Opening => \E s \in rows : s.method = r.method /\ InForce(s, t)

LEMMA InitRows == Init => RowsApart /\ KeysCovered
<1>. SUFFICES ASSUME Init PROVE RowsApart /\ KeysCovered
  OBVIOUS
<1>1. PICK keys \in Registrations : \E first \in [keys -> Policies] :
          rows = {Row(key, first[key], Opening) : key \in keys}
  BY DEF Init
<1>2. PICK first \in [keys -> Policies] :
          rows = {Row(key, first[key], Opening) : key \in keys}
  BY <1>1
<1>3. RowsApart
  BY <1>2 DEF RowsApart, Row
<1>4. KeysCovered
  BY <1>2 DEF KeysCovered, InForce, Row
<1>. QED
  BY <1>3, <1>4

LEMMA ApartKept == TypeOK /\ RowsApart /\ [Next]_vars => RowsApart'
<1>. SUFFICES ASSUME TypeOK, RowsApart, [Next]_vars PROVE RowsApart'
  OBVIOUS
<1>1. CASE rows' = rows
  BY <1>1 DEF RowsApart, Before
<1>2. ASSUME NEW old \in rows, NEW policy \in Policies, ChangeTerms(old, policy)
      PROVE  RowsApart'
  <2>. DEFINE retired == [old EXCEPT !.to = now + 1]
              new == Row(old.method, policy, now + 1)
  <2>1. /\ rows' = (rows \ {old}) \cup {retired, new}
        /\ old.to = Null /\ old.from <= now
        /\ retired.method = old.method
        /\ retired.from = old.from /\ retired.to = now + 1
        /\ new.method = old.method /\ new.from = now + 1
    BY <1>2, ChangeShape
  <2>. HIDE DEF retired, new
  <2>2. now \in Nat /\ now + 1 # Null /\ old.from \in Nat
    BY ClockTyped, RowShape, World
  <2>3. Before(retired, new)
    BY <2>1, <2>2 DEF Before
  <2>4. ASSUME NEW r \in rows \ {old}, r.method = old.method
        PROVE  Before(r, retired) /\ Before(r, new)
    <3>1. Before(r, old)
      BY <2>1, <2>4 DEF RowsApart, Before
    <3>2. r.to # Null /\ r.to \in Nat /\ r.to <= old.from
      BY <3>1, RowShape DEF Before
    <3>. QED
      BY <2>1, <2>2, <3>2 DEF Before
  <2>5. ASSUME NEW r \in rows', NEW s \in rows', r # s, r.method = s.method
        PROVE  Before(r, s) \/ Before(s, r)
    <3>1. CASE r \in rows \ {old} /\ s \in rows \ {old}
      BY <2>5, <3>1 DEF RowsApart
    <3>2. CASE r \in rows \ {old} /\ s \in {retired, new}
      BY <2>1, <2>4, <2>5, <3>2
    <3>3. CASE r \in {retired, new} /\ s \in rows \ {old}
      BY <2>1, <2>4, <2>5, <3>3
    <3>4. CASE r \in {retired, new} /\ s \in {retired, new}
      BY <2>3, <2>5, <3>4
    <3>. QED
      BY <2>1, <3>1, <3>2, <3>3, <3>4
  <2>. QED
    BY <2>5 DEF RowsApart, Before
<1>. QED
  BY <1>1, <1>2 DEF Next, Tick, Capture, WriteToSettlementRun, Settle, vars

LEMMA CoveredKept == TypeOK /\ KeysCovered /\ [Next]_vars => KeysCovered'
<1>. SUFFICES ASSUME TypeOK, KeysCovered, [Next]_vars PROVE KeysCovered'
  OBVIOUS
<1>1. CASE rows' = rows
  BY <1>1 DEF KeysCovered, InForce
<1>2. ASSUME NEW old \in rows, NEW policy \in Policies, ChangeTerms(old, policy)
      PROVE  KeysCovered'
  <2>. DEFINE retired == [old EXCEPT !.to = now + 1]
              new == Row(old.method, policy, now + 1)
  <2>1. /\ rows' = (rows \ {old}) \cup {retired, new}
        /\ retired.method = old.method
        /\ retired.from = old.from /\ retired.to = now + 1
        /\ new.method = old.method /\ new.from = now + 1 /\ new.to = Null
    BY <1>2, ChangeShape
  <2>. HIDE DEF retired, new
  <2>2. now \in Nat /\ old.from \in Nat
    BY ClockTyped, RowShape
  <2>3. ASSUME NEW r \in rows', NEW t \in Nat, t >= Opening
        PROVE  \E s \in rows' : s.method = r.method /\ InForce(s, t)
    <3>1. PICK before \in rows : before.method = r.method
      BY <2>1
    <3>2. PICK s \in rows : s.method = r.method /\ InForce(s, t)
      BY <2>3, <3>1 DEF KeysCovered
    <3>3. CASE s = old /\ t <= now
      <4>1. InForce(retired, t)
        BY <2>1, <2>2, <3>2, <3>3 DEF InForce
      <4>. QED
        BY <2>1, <3>2, <3>3, <4>1
    <3>4. CASE s = old /\ ~(t <= now)
      <4>1. InForce(new, t)
        BY <2>1, <2>2, <3>4 DEF InForce
      <4>. QED
        BY <2>1, <3>2, <3>4, <4>1
    <3>. QED
      BY <2>1, <3>2, <3>3, <3>4
  <2>. QED
    BY <2>3 DEF KeysCovered, InForce
<1>. QED
  BY <1>1, <1>2 DEF Next, Tick, Capture, WriteToSettlementRun, Settle, vars

Keys == {row.method : row \in rows}

\* The terms of a method are its own, the default only where it has none.
Governs(row, method) ==
    \/ row.method = method
    \/ row.method = "*" /\ method \notin Keys

LEMMA OneInForce ==
    ASSUME TypeOK, RowsApart, NEW r \in rows, NEW s \in rows, r.method = s.method,
           NEW t \in Int, InForce(r, t), InForce(s, t)
    PROVE  r = s
BY RowShape DEF RowsApart, Before, InForce

\* The query finds the terms that govern the method at the moment.
LEMMA QueryFindsTerms ==
    ASSUME TypeOK, RowsApart, KeysCovered, NEW method, NEW row \in rows
    PROVE  row = PolicyFor(method, now) <=> Governs(row, method) /\ InForce(row, now)
<1>. DEFINE found == {r \in rows : r.method \in {method, "*"} /\ InForce(r, now)}
            best == IF \E r \in found : r.method # "*"
                    THEN {r \in found : r.method # "*"} ELSE found
            Last(r) == \A o \in best : o.from <= r.from
<1>0. row # Null /\ now \in Nat /\ now >= Opening
  BY RowShape, ClockTyped
<1>1. ASSUME NEW r \in rows, Governs(r, method), InForce(r, now)
      PROVE  r = PolicyFor(method, now)
  <2>1. r \in found
    BY <1>1 DEF Governs, Keys
  <2>2. r \in best
    BY <1>1, <2>1 DEF Governs, Keys
  <2>3. \A o \in best : o.method = r.method
    BY <1>1, <2>1 DEF Governs, Keys
  <2>4. best = {r}
    BY <1>0, <1>1, <2>2, <2>3, OneInForce
  <2>5. PolicyFor(method, now) = CHOOSE o \in best : Last(o)
    BY <2>1 DEF PolicyFor
  <2>6. Last(r)
    BY <1>1, <2>4, RowShape
  <2>. HIDE DEF best
  <2>. QED
    BY <2>4, <2>5, <2>6
<1>2. ASSUME row = PolicyFor(method, now)
      PROVE  Governs(row, method) /\ InForce(row, now)
  <2>1. InForce(row, now) /\ row.method \in {method, "*"}
    BY <1>0, <1>2, PolicyForShape
  <2>2. CASE row.method # method
    <3>1. ASSUME NEW other \in rows, other.method = method
          PROVE  FALSE
      <4>1. PICK own \in rows : own.method = method /\ InForce(own, now)
        BY <1>0, <3>1 DEF KeysCovered, Keys
      <4>2. own = PolicyFor(method, now)
        BY <1>1, <4>1 DEF Governs, Keys
      <4>. QED
        BY <1>2, <2>2, <4>1, <4>2
    <3>. QED
      BY <2>1, <2>2, <3>1 DEF Governs, Keys
  <2>. QED
    BY <2>1, <2>2 DEF Governs, Keys
<1>. QED
  BY <1>1, <1>2

\* What its terms have released, a run that does not throw takes.
LEMMA ReleasedIsClaimed ==
    ASSUME TypeOK, PaymentsOK, RowsApart, KeysCovered, NEW run \in RunKey, run.dueAt <= now,
           NEW row \in rows, Governs(row, run.method), InForce(row, now), ~Throws(run, row),
           NEW p \in Payments, Captured(p), payment[p].settled = Null,
           run.method \in {"*", payment[p].method},
           IsEligible(payment[p].paidAt, row.policy, WindowOf(payment[p].method), run.dueAt)
    PROVE  p \in Claimed(run)
<1>. DEFINE window == WindowOf(payment[p].method)
            paidAt == payment[p].paidAt
            cutoff == SettlementCutoff(row.policy, now, window)
<1>1. row.policy \in Policy /\ row # Null /\ now \in Int /\ paidAt \in Int
  BY RowShape, ClockTyped DEF PaymentsOK
<1>2. /\ window = Null \/ window \in Window
      /\ HasRelease(row.policy, window)
  BY WindowOfTyped DEF IsEligible
<1>3. IsEligible(paidAt, row.policy, window, now)
  <2>1. SettlementReleaseAt(paidAt, row.policy, window) \in Int
    BY <1>1, <1>2, ReleaseTyped
  <2>2. run.dueAt \in Int
    BY DEF RunKey
  <2>. QED
    BY <1>1, <1>2, <2>1, <2>2 DEF IsEligible
<1>4. cutoff \in Int /\ paidAt < cutoff
  BY <1>1, <1>2, <1>3, ReadingsAgree
<1>5. Cutoff(run) = cutoff
  <2>1. PolicyFor(run.method, now) = row
    BY QueryFindsTerms
  <2>2. run.method = payment[p].method \/ row.policy.mode # "FOLLOW_UPSTREAM"
    BY DEF Throws
  <2>3. Cutoff(run) = SettlementCutoff(row.policy, now, WindowOf(run.method))
    BY <1>1, <2>1 DEF Cutoff
  <2>. QED
    BY <1>1, <2>2, <2>3, CutoffOf
<1>. HIDE DEF cutoff
<1>. QED
  BY <1>4, <1>5, World DEF Claimed

\* What the terms that govern a method had released before the moment a run
\* of it names, and what was reported by then.
Promised(row, run, p) ==
    /\ run.method \in {"*", payment[p].method}
    /\ Governs(row, run.method) /\ row.from <= run.dueAt
    /\ row.to = Null \/ now < row.to
    /\ ~Throws(run, row)
    /\ Captured(p) /\ payment[p].reported < run.dueAt
    /\ IsEligible(payment[p].paidAt, row.policy, WindowOf(payment[p].method), run.dueAt)

\* A run that has ended leaves none of it.
EndedDone ==
    \A row \in rows : \A run \in ended, p \in Payments :
        Promised(row, run, p) => payment[p].settled # Null

RowsOK == RowsApart /\ KeysCovered

LEMMA EndedKept ==
    TypeOK /\ PaymentsOK /\ RowsOK /\ RunsOK /\ EndedDone /\ [Next]_vars => EndedDone'
<1>. SUFFICES ASSUME TypeOK, PaymentsOK, RowsOK, RunsOK, EndedDone, [Next]_vars,
                     NEW row \in rows', NEW run \in ended', NEW p \in Payments,
                     Promised(row, run, p)'
              PROVE  payment'[p].settled # Null
  BY DEF EndedDone
<1>0. /\ now \in Nat /\ TypeOK' /\ run \in RunKey /\ run.dueAt \in Int
      /\ row.from \in Nat /\ (row.to # Null => row.to \in Nat)
  <2>1. TypeOK' /\ now \in Nat
    BY NextTyped, ClockTyped
  <2>2. run \in RunKey /\ row \in TermsRow
    BY <2>1 DEF TypeOK
  <2>3. /\ row.from \in Opening .. Horizon + 1
        /\ row.to \in (Opening .. Horizon + 1) \cup {Null}
    BY <2>2 DEF TermsRow
  <2>. QED
    BY <2>1, <2>2, <2>3, World DEF RunKey
<1>1. run \in pending \cup ended /\ run.dueAt <= now
  <2>1. run \in pending \cup ended
    BY DEF Next, Tick, Capture, ChangeTerms, WriteToSettlementRun, Settle, vars
  <2>. QED
    BY <2>1 DEF RunsOK, NamesBoundary
<1>2. /\ run.method \in {"*", payment'[p].method}
      /\ \/ row.method = run.method
         \/ row.method = "*" /\ run.method \notin Keys'
      /\ row.from <= run.dueAt
      /\ row.to = Null \/ now' < row.to
      /\ ~Throws(run, row)
      /\ payment'[p].reported # Null /\ payment'[p].reported < run.dueAt
      /\ IsEligible(payment'[p].paidAt, row.policy, WindowOf(payment'[p].method), run.dueAt)
  <2>1. run.method \in {"*", payment'[p].method} /\ row.from <= run.dueAt
    BY DEF Promised
  <2>2. \/ row.method = run.method
        \/ row.method = "*" /\ run.method \notin Keys'
    BY DEF Promised, Governs
  <2>3. row.to = Null \/ now' < row.to
    BY DEF Promised
  <2>4. ~Throws(run, row)
    BY DEF Promised, Throws, Ambiguous
  <2>5. payment'[p].reported # Null /\ payment'[p].reported < run.dueAt
    BY DEF Promised, Captured
  <2>6. IsEligible(payment'[p].paidAt, row.policy, WindowOf(payment'[p].method), run.dueAt)
    BY DEF Promised, IsEligible
  <2>. QED
    BY <2>1, <2>2, <2>3, <2>4, <2>5, <2>6
<1>3. ASSUME payment' = payment, rows' = rows, now' = now \/ now' = now + 1, run \in ended
      PROVE  payment'[p].settled # Null
  <2>1. row.to = Null \/ now < row.to
    BY <1>0, <1>2, <1>3
  <2>2. Promised(row, run, p)
    BY <1>2, <1>3, <2>1 DEF Promised, Governs, Keys, Captured
  <2>. QED
    BY <1>3, <2>2 DEF EndedDone
<1>4. ASSUME NEW q \in Payments, Capture(q)
      PROVE  payment'[p].settled # Null
  <2>1. ended' = ended /\ rows' = rows /\ now' = now
    BY <1>4 DEF Capture
  <2>2. p # q
    <3>1. SUFFICES ASSUME p = q PROVE FALSE
      OBVIOUS
    <3>2. payment'[p].reported = now
      BY <1>4, <3>1 DEF Capture, TypeOK
    <3>. QED
      BY <1>0, <1>1, <1>2, <3>2
  <2>3. payment'[p] = payment[p]
    BY <1>4, <2>2 DEF Capture, TypeOK
  <2>4. Promised(row, run, p)
    BY <1>2, <2>1, <2>3 DEF Promised, Governs, Keys, Captured
  <2>. QED
    BY <2>1, <2>3, <2>4 DEF EndedDone
<1>5. ASSUME NEW old \in rows, NEW policy \in Policies, ChangeTerms(old, policy)
      PROVE  payment'[p].settled # Null
  <2>. DEFINE retired == [old EXCEPT !.to = now + 1]
              new == Row(old.method, policy, now + 1)
  <2>1. /\ rows' = (rows \ {old}) \cup {retired, new} /\ old.to = Null
        /\ retired.method = old.method /\ retired.policy = old.policy
        /\ retired.from = old.from
        /\ new.method = old.method /\ new.from = now + 1
    BY <1>5, ChangeShape
  <2>2. ended' = ended /\ payment' = payment /\ now' = now
    BY <1>5 DEF ChangeTerms
  <2>. HIDE DEF retired, new
  <2>3. row # new
    BY <1>0, <1>1, <1>2, <2>1
  <2>4. PICK before \in rows : /\ before.method = row.method /\ before.policy = row.policy
                               /\ before.from = row.from
                               /\ before.to = Null \/ now < before.to
    BY <1>2, <2>1, <2>2, <2>3
  <2>5. Keys \subseteq Keys'
    BY <2>1 DEF Keys
  <2>6. Promised(before, run, p)
    <3>1. Governs(before, run.method)
      BY <1>2, <2>4, <2>5 DEF Governs
    <3>. QED
      BY <1>2, <2>2, <2>4, <3>1 DEF Promised, Captured, Throws
  <2>. QED
    BY <2>2, <2>6 DEF EndedDone
<1>6. ASSUME NEW last \in pending, Settle(last)
      PROVE  payment'[p].settled # Null
  <2>1. now' = now /\ rows' = rows /\ ended' = ended \cup {last}
    BY <1>6 DEF Settle
  <2>2. payment'[p] = IF p \in Claimed(last) THEN [payment[p] EXCEPT !.settled = now]
                      ELSE payment[p]
    BY <1>6 DEF Settle
  <2>3. /\ payment'[p].method = payment[p].method /\ payment'[p].paidAt = payment[p].paidAt
        /\ payment'[p].reported = payment[p].reported
        /\ p \in Claimed(last) => payment'[p].settled = now
        /\ p \notin Claimed(last) => payment'[p].settled = payment[p].settled
    BY <2>2, PaymentShape
  <2>4. Promised(row, run, p)
    BY <1>2, <2>1, <2>3 DEF Promised, Governs, Keys, Captured
  <2>5. CASE run \in ended
    <3>1. payment[p].settled # Null
      BY <2>1, <2>4, <2>5 DEF EndedDone
    <3>. QED
      BY <1>0, <2>3, <3>1, World
  <2>6. CASE run = last /\ payment[p].settled = Null
    <3>1. InForce(row, now)
      BY <1>0, <1>1, <2>4 DEF Promised, InForce
    <3>2. p \in Claimed(run)
      BY <1>0, <1>1, <2>1, <2>4, <2>6, <3>1, ReleasedIsClaimed DEF RowsOK, Promised
    <3>. QED
      BY <1>0, <2>3, <2>6, <3>2, World
  <2>7. CASE payment[p].settled # Null
    BY <1>0, <2>3, <2>7, World
  <2>. QED
    BY <2>1, <2>5, <2>6, <2>7
<1>7. CASE WriteToSettlementRun \/ UNCHANGED vars
  BY <1>3, <1>7 DEF WriteToSettlementRun, vars
<1>8. CASE Tick
  BY <1>3, <1>8 DEF Tick
<1>. QED
  BY <1>4, <1>5, <1>6, <1>7, <1>8 DEF Next

LEMMA CaughtUpLeavesNothing ==
    ASSUME TypeOK, RowsOK, RunsOK, EndedDone
    PROVE  NothingLeftBehind
<1>. SUFFICES ASSUME CaughtUp, NEW row \in rows, NEW run \in RunsFor(row), NEW p \in Payments,
                     row = PolicyFor(run.method, now),
                     run.method \in {"*", payment[p].method},
                     Captured(p), payment[p].reported < run.dueAt,
                     IsEligible(payment[p].paidAt, row.policy,
                                WindowOf(payment[p].method), run.dueAt)
              PROVE  payment[p].settled # Null
  BY DEF NothingLeftBehind
<1>1. Governs(row, run.method) /\ InForce(row, now)
  BY QueryFindsTerms DEF RowsOK
<1>2. ~row.policy.businessDaysOnly
  BY DEF IsEligible, HasRelease
<1>3. run \in ended
  BY <1>1, <1>2 DEF CaughtUp, Due
<1>4. ~Throws(run, row) /\ row.from <= run.dueAt
  <2>1. /\ run.method \in Targets(row) /\ row.from <= run.dueAt
        /\ ~(row.policy.mode = "FOLLOW_UPSTREAM" /\ Ambiguous(run.method))
    BY RunShape
  <2>2. row.policy.mode = "FOLLOW_UPSTREAM" => run.method # "*"
    BY <2>1, World DEF Targets
  <2>. QED
    BY <1>2, <2>1, <2>2 DEF Throws
<1>5. Promised(row, run, p)
  BY <1>1, <1>4 DEF Promised, InForce
<1>. QED
  BY <1>3, <1>5 DEF EndedDone

(***************************************************************************)
(* Once the crons have caught up, whatever the terms that govern a method  *)
(* had released at their last boundary has been settled, for every set of  *)
(* terms a merchant may have: a default, overrides, or both.               *)
(***************************************************************************)
THEOREM NothingIsPassedOver == Spec => []NothingLeftBehind
<1>1. Init => RowsOK /\ EndedDone /\ RunsOK
  BY InitRows DEF Init, RowsOK, EndedDone, RunsOK
<1>2. TypeOK /\ RowsOK /\ [Next]_vars => RowsOK'
  BY ApartKept, CoveredKept DEF RowsOK
<1>3. TypeOK /\ RowsOK /\ RunsOK /\ EndedDone => NothingLeftBehind
  BY CaughtUpLeavesNothing
<1>. QED
  BY <1>1, <1>2, <1>3, InitPayments, TypeCorrect, PaymentsKept, RunsKept, EndedKept, PTL DEF Spec
=============================================================================
