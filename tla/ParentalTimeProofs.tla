------------------------ MODULE ParentalTimeProofs ------------------------
(***************************************************************************)
(* Proofs about ParentalTime, for days of any length, any zones less than  *)
(* a day away from UTC, any schedules, durations and clock readings.       *)
(***************************************************************************)
EXTENDS ParentalTime, TLAPS

---------------------------------------------------------------------------
(* The calendar. *)

LEMMA Calendar ==
    ASSUME NEW t \in Int
    PROVE  /\ DayOf(t) \in Int /\ MinuteOf(t) \in Minutes
           /\ t = Instant(DayOf(t), MinuteOf(t))
           /\ t >= 0 => DayOf(t) \in Nat
BY TimeAssumption DEF DayOf, MinuteOf, Minutes, Instant

LEMMA DateOfInstant ==
    ASSUME NEW d \in Int, NEW m \in Minutes
    PROVE  /\ Instant(d, m) \in Int
           /\ DayOf(Instant(d, m)) = d /\ MinuteOf(Instant(d, m)) = m
BY TimeAssumption DEF DayOf, MinuteOf, Minutes, Instant

LEMMA InstantOrder ==
    ASSUME NEW d \in Int, NEW e \in Int, NEW m \in Minutes, NEW n \in Minutes
    PROVE  (Instant(d, m) < Instant(e, n)) <=> (d < e \/ (d = e /\ m < n))
BY TimeAssumption DEF Minutes, Instant

(* Whole days change the day and leave the minute. *)
LEMMA WholeDays ==
    ASSUME NEW t \in Int, NEW k \in Int
    PROVE  /\ Instant(k, t) \in Int
           /\ DayOf(Instant(k, t)) = k + DayOf(t)
           /\ MinuteOf(Instant(k, t)) = MinuteOf(t)
<1>1. DayOf(t) \in Int /\ MinuteOf(t) \in Minutes /\ t = Instant(DayOf(t), MinuteOf(t))
  BY Calendar
<1>2. Instant(k, t) = Instant(k + DayOf(t), MinuteOf(t))
  BY <1>1, TimeAssumption DEF Instant, Minutes
<1>3. k + DayOf(t) \in Int
  BY <1>1
<1>4. QED
  BY <1>1, <1>2, <1>3, DateOfInstant

LEMMA ScheduleParts ==
    ASSUME NEW s \in Schedules
    PROVE  /\ s.start \in Minutes /\ s.stop \in Minutes
           /\ s.start \in Int /\ s.stop \in Int
           /\ s.days \subseteq 0..6 /\ s.days # {}
BY TimeAssumption DEF Schedules, Minutes

LEMMA ZoneParts ==
    ASSUME NEW z \in Zones, NEW t \in Int
    PROVE  /\ z.before \in Int /\ z.after \in Int /\ z.at \in Int
           /\ -DayLength < z.before /\ z.before < DayLength
           /\ -DayLength < z.after /\ z.after < DayLength
           /\ Offset(z, t) \in Int /\ Local(z, t) \in Int
BY TimeAssumption DEF Offset, Local

(* Shifting weekdays around the week. *)
LEMMA ShiftedDays ==
    ASSUME NEW days, days \subseteq 0..6, days # {}, NEW k \in Int
    PROVE  /\ ShiftWeekdays(days, k) \subseteq 0..6 /\ ShiftWeekdays(days, k) # {}
           /\ \A d \in Int : d % 7 \in days <=> (d + k) % 7 \in ShiftWeekdays(days, k)
           /\ ShiftWeekdays(ShiftWeekdays(days, k), -k) = days
<1>1. \A x \in 0..6 : (x + k) % 7 \in 0..6 /\ (((x + k) % 7) + (-k)) % 7 = x
  OBVIOUS
<1>2. ASSUME NEW d \in Int, NEW x \in 0..6, (d + k) % 7 = (x + k) % 7
      PROVE  x = d % 7
  BY <1>2
<1>3. ASSUME NEW d \in Int PROVE (d + k) % 7 = ((d % 7) + k) % 7
  OBVIOUS
<1>4. ShiftWeekdays(days, k) \subseteq 0..6 /\ ShiftWeekdays(days, k) # {}
  BY <1>1 DEF ShiftWeekdays
<1>5. ASSUME NEW d \in Int
      PROVE  d % 7 \in days <=> (d + k) % 7 \in ShiftWeekdays(days, k)
  <2>1. ASSUME d % 7 \in days PROVE (d + k) % 7 \in ShiftWeekdays(days, k)
    BY <1>3, <2>1 DEF ShiftWeekdays
  <2>2. ASSUME (d + k) % 7 \in ShiftWeekdays(days, k) PROVE d % 7 \in days
    <3>1. PICK x \in days : (d + k) % 7 = (x + k) % 7
      BY <2>2 DEF ShiftWeekdays
    <3>2. x = d % 7
      BY <1>2, <3>1
    <3>3. QED
      BY <3>2
  <2>3. QED
    BY <2>1, <2>2
<1>6. ShiftWeekdays(ShiftWeekdays(days, k), -k) = days
  <2>1. ASSUME NEW x \in days PROVE x \in ShiftWeekdays(ShiftWeekdays(days, k), -k)
    <3>1. (x + k) % 7 \in ShiftWeekdays(days, k)
      BY DEF ShiftWeekdays
    <3>2. x = (((x + k) % 7) + (-k)) % 7
      BY <1>1
    <3>3. QED
      BY <3>1, <3>2 DEF ShiftWeekdays
  <2>2. ASSUME NEW y \in ShiftWeekdays(ShiftWeekdays(days, k), -k) PROVE y \in days
    <3>1. PICK w \in ShiftWeekdays(days, k) : y = (w + (-k)) % 7
      BY DEF ShiftWeekdays
    <3>2. PICK x \in days : w = (x + k) % 7
      BY DEF ShiftWeekdays
    <3>3. x = y
      BY <1>1, <3>1, <3>2
    <3>4. QED
      BY <3>3
  <2>3. QED
    BY <2>1, <2>2
<1>7. QED
  BY <1>4, <1>5, <1>6

(* The least and the greatest of at most two numbers. *)
LEMMA MinOfTwo ==
    ASSUME NEW a \in Int, NEW b \in Int, NEW S, S \subseteq {a, b}, S # {}
    PROVE  Min(S) \in S /\ \A y \in S : Min(S) <= y
<1>1. \E x \in S : \A y \in S : x <= y
  <2>1. S = {a} \/ S = {b} \/ S = {a, b}
    OBVIOUS
  <2>2. a <= b \/ b <= a
    OBVIOUS
  <2>3. a <= a /\ b <= b
    OBVIOUS
  <2>4. QED
    BY <2>1, <2>2, <2>3
<1>2. QED
  BY <1>1, Zenon DEF Min

LEMMA MaxOfTwo ==
    ASSUME NEW a \in Int, NEW b \in Int, NEW S, S \subseteq {a, b}, S # {}
    PROVE  Max(S) \in S /\ \A y \in S : Max(S) >= y
<1>1. \E x \in S : \A y \in S : x >= y
  <2>1. S = {a} \/ S = {b} \/ S = {a, b}
    OBVIOUS
  <2>2. a >= b \/ b >= a
    OBVIOUS
  <2>3. a >= a /\ b >= b
    OBVIOUS
  <2>4. QED
    BY <2>1, <2>2, <2>3
<1>2. QED
  BY <1>1, Zenon DEF Max

(* to_sys gives an instant shown as the local time, or the transition. *)
LEMMA ToSysFound ==
    ASSUME NEW z \in Zones, NEW local \in Int
    PROVE  /\ ToSys(z, local) \in Int
           /\ \/ /\ ToSys(z, local) \in {local - z.before, local - z.after}
                 /\ Local(z, ToSys(z, local)) = local
                 /\ \A t \in {local - z.before, local - z.after} :
                        Local(z, t) = local => ToSys(z, local) <= t
              \/ /\ ToSys(z, local) = z.at
                 /\ \A t \in {local - z.before, local - z.after} : Local(z, t) # local
<1> DEFINE shown == {t \in {local - z.before, local - z.after} : Local(z, t) = local}
<1>1. z.at \in Int /\ local - z.before \in Int /\ local - z.after \in Int
  BY ZoneParts
<1>2. ToSys(z, local) = IF shown = {} THEN z.at ELSE Min(shown)
  BY DEF ToSys
<1>3. CASE shown = {}
  BY <1>1, <1>2, <1>3
<1>4. CASE shown # {}
  <2>1. Min(shown) \in shown /\ \A y \in shown : Min(shown) <= y
    BY <1>1, <1>4, MinOfTwo
  <2>2. QED
    BY <1>1, <1>2, <1>4, <2>1
<1>5. QED
  BY <1>3, <1>4

(* The three cases of to_sys: an instant before the transition, one after   *)
(* it, or the transition itself.                                           *)
LEMMA ToSysCases ==
    ASSUME NEW z \in Zones, NEW l \in Int
    PROVE  ToSys(z, l) = IF l - z.before < z.at THEN l - z.before
                         ELSE IF l - z.after >= z.at THEN l - z.after ELSE z.at
<1> DEFINE x == ToSys(z, l)
<1>1. z.before \in Int /\ z.after \in Int /\ z.at \in Int /\ x \in Int
  BY ZoneParts, ToSysFound
<1>2. CASE /\ x \in {l - z.before, l - z.after} /\ Local(z, x) = l
           /\ \A t \in {l - z.before, l - z.after} : Local(z, t) = l => x <= t
  <2>1. Local(z, l - z.before) = l => x <= l - z.before
    BY <1>2
  <2> HIDE DEF x
  <2>2. QED
    BY <1>1, <1>2, <2>1 DEF Local, Offset, x
<1>3. CASE x = z.at /\ \A t \in {l - z.before, l - z.after} : Local(z, t) # l
  <2>1. Local(z, l - z.before) # l /\ Local(z, l - z.after) # l
    BY <1>3
  <2>2. QED
    BY <1>1, <1>3, <2>1 DEF Local, Offset
<1>4. QED
  BY <1>2, <1>3, ToSysFound

(* to_sys is the first instant at which the clock has reached a local time. *)
LEMMA ToSysFirst ==
    ASSUME NEW z \in Zones, NEW t \in Int, NEW l \in Int
    PROVE  Reached(z, t, l) <=> ToSys(z, l) <= t
<1> DEFINE x == ToSys(z, l)
<1>1. /\ z.before \in Int /\ z.after \in Int /\ z.at \in Int
      /\ -DayLength < z.before /\ z.before < DayLength
      /\ -DayLength < z.after /\ z.after < DayLength
      /\ DayLength \in Nat \ {0}
  BY ZoneParts, TimeAssumption
<1>2. x = IF l - z.before < z.at THEN l - z.before
          ELSE IF l - z.after >= z.at THEN l - z.after ELSE z.at
  BY ToSysCases
<1> HIDE DEF x
<1>3. ASSUME NEW u \in (t - 2 * DayLength)..t, Local(z, u) >= l PROVE x <= t
  BY <1>1, <1>2, <1>3 DEF Local, Offset
<1>4. ASSUME x <= t PROVE \E u \in (t - 2 * DayLength)..t : Local(z, u) >= l
  <2>1. CASE l - z.before < z.at /\ z.at <= t /\ t - 2 * DayLength <= x
    <3>1. x \in (t - 2 * DayLength)..t /\ Local(z, x) >= l
      BY <1>1, <1>2, <1>4, <2>1 DEF Local, Offset
    <3>2. QED
      BY <3>1
  <2>2. CASE ~ (l - z.before < z.at /\ z.at <= t /\ t - 2 * DayLength <= x)
    <3>1. t \in (t - 2 * DayLength)..t /\ Local(z, t) >= l
      BY <1>1, <1>2, <1>4, <2>2 DEF Local, Offset
    <3>2. QED
      BY <3>1
  <2>3. QED
    BY <2>1, <2>2
<1>5. QED
  BY <1>3, <1>4 DEF Reached, x

(* A window keeps its length, or changes it by the jump of the clock. *)
LEMMA ToSysLength ==
    ASSUME NEW z \in Zones, NEW l \in Int, NEW m \in Int, l < m,
           m - l < DayLength, m - l + z.before - z.after < DayLength
    PROVE  ToSys(z, m) < ToSys(z, l) + DayLength
<1>1. /\ z.before \in Int /\ z.after \in Int /\ z.at \in Int /\ DayLength \in Nat
  BY ZoneParts, TimeAssumption
<1>2. QED
  BY <1>1, ToSysCases

---------------------------------------------------------------------------
(* Schedules, shifted by an offset. *)

(* A schedule whose windows all begin and end k minutes later: from UTC to  *)
(* local time with the offset k, back with -k.                             *)
Shifted(s, k) ==
    [start |-> MinuteOf(s.start + k), stop |-> MinuteOf(s.stop + k),
     days |-> ShiftWeekdays(s.days, DayOf(s.start + k))]

LEMMA ShiftedType ==
    ASSUME NEW s \in Schedules, NEW k \in Int
    PROVE  Shifted(s, k) \in Schedules
<1>1. s.start + k \in Int /\ s.stop + k \in Int
  BY ScheduleParts
<1>2. /\ DayOf(s.start + k) \in Int
      /\ MinuteOf(s.start + k) \in Minutes /\ MinuteOf(s.stop + k) \in Minutes
  BY <1>1, Calendar
<1>3. ShiftWeekdays(s.days, DayOf(s.start + k)) \in (SUBSET (0..6)) \ {{}}
  BY <1>2, ScheduleParts, ShiftedDays
<1>4. QED
  BY <1>2, <1>3 DEF Shifted, Schedules

(* Shifting back gives the schedule again. *)
LEMMA ShiftBack ==
    ASSUME NEW s \in Schedules, NEW k \in Int
    PROVE  Shifted(Shifted(s, k), -k) = s
<1> DEFINE q == DayOf(s.start + k)
           r == DayOf(s.stop + k)
<1>1. /\ s.start \in Minutes /\ s.stop \in Minutes /\ s.start \in Int /\ s.stop \in Int
      /\ s.days \subseteq 0..6 /\ s.days # {}
  BY ScheduleParts
<1>2. /\ q \in Int /\ MinuteOf(s.start + k) \in Int /\ s.start + k = Instant(q, MinuteOf(s.start + k))
      /\ r \in Int /\ MinuteOf(s.stop + k) \in Int /\ s.stop + k = Instant(r, MinuteOf(s.stop + k))
  BY <1>1, Calendar, TimeAssumption DEF Minutes
<1>3. /\ MinuteOf(s.start + k) - k = Instant(-q, s.start)
      /\ MinuteOf(s.stop + k) - k = Instant(-r, s.stop)
  BY <1>1, <1>2, TimeAssumption DEF Instant
<1> HIDE DEF q, r
<1>4. /\ MinuteOf(Instant(-q, s.start)) = s.start /\ DayOf(Instant(-q, s.start)) = -q
      /\ MinuteOf(Instant(-r, s.stop)) = s.stop
  <2>1. -q \in Int /\ -r \in Int
    BY <1>2
  <2>2. QED
    BY <1>1, <2>1, DateOfInstant
<1>5. /\ MinuteOf(MinuteOf(s.start + k) + (-k)) = s.start
      /\ DayOf(MinuteOf(s.start + k) + (-k)) = -q
      /\ MinuteOf(MinuteOf(s.stop + k) + (-k)) = s.stop
  BY <1>2, <1>3, <1>4
<1>6. ShiftWeekdays(ShiftWeekdays(s.days, q), -q) = s.days
  BY <1>1, <1>2, ShiftedDays
<1>7. Shifted(s, k) = [start |-> MinuteOf(s.start + k), stop |-> MinuteOf(s.stop + k),
                       days |-> ShiftWeekdays(s.days, q)]
  BY DEF Shifted, q
<1>8. Shifted(Shifted(s, k), -k) = [start |-> s.start, stop |-> s.stop, days |-> s.days]
  BY <1>5, <1>6, <1>7 DEF Shifted
<1>9. QED
  BY <1>8 DEF Schedules

(* The conversion to UTC when both ends exist and have the offset o, on the *)
(* local day D.                                                            *)
LEMMA ConvertWith ==
    ASSUME NEW z \in Zones, NEW t \in Int, NEW s \in Schedules, NEW o \in Int, NEW D \in Int,
           D = DayOf(Local(z, t)),
           SysStart(z, t, s) = Instant(D, s.start) - o,
           SysStop(z, t, s) = Instant(NextDayIf(s.stop <= s.start, D), s.stop) - o
    PROVE  ConvertScheduleTimesToUtc(z, t, s) = Shifted(s, -o)
<1>1. s.start \in Int /\ s.stop \in Int
  BY ScheduleParts
<1>2. NextDayIf(s.stop <= s.start, D) \in Int
  BY DEF NextDayIf
<1> DEFINE E == NextDayIf(s.stop <= s.start, D)
<1>3. /\ SysStart(z, t, s) = Instant(D, s.start + (-o))
      /\ SysStop(z, t, s) = Instant(E, s.stop + (-o))
  BY <1>1, <1>2, TimeAssumption DEF Instant
<1> HIDE DEF E
<1>4. s.start + (-o) \in Int /\ s.stop + (-o) \in Int /\ E \in Int
  BY <1>1, <1>2 DEF E
<1>5. /\ DayOf(SysStart(z, t, s)) = D + DayOf(s.start + (-o))
      /\ MinuteOf(SysStart(z, t, s)) = MinuteOf(s.start + (-o))
      /\ MinuteOf(SysStop(z, t, s)) = MinuteOf(s.stop + (-o))
  BY <1>3, <1>4, WholeDays
<1>6. DayOf(SysStart(z, t, s)) - DayOf(Local(z, t)) = DayOf(s.start + (-o))
  BY <1>4, <1>5, Calendar
<1>7. QED
  BY <1>5, <1>6 DEF ConvertScheduleTimesToUtc, Shifted

LEMMA ConvertType ==
    ASSUME NEW z \in Zones, NEW t \in Int, NEW s \in Schedules
    PROVE  ConvertScheduleTimesToUtc(z, t, s) \in Schedules
<1> DEFINE D == DayOf(Local(z, t))
           E == NextDayIf(s.stop <= s.start, D)
<1>1. D \in Int /\ E \in Int
  BY ZoneParts, Calendar DEF NextDayIf
<1>2. Instant(D, s.start) \in Int /\ Instant(E, s.stop) \in Int
  BY <1>1, ScheduleParts, DateOfInstant
<1>3. SysStart(z, t, s) \in Int /\ SysStop(z, t, s) \in Int
  BY <1>2, ToSysFound DEF SysStart, SysStop
<1>4. /\ DayOf(SysStart(z, t, s)) \in Int
      /\ MinuteOf(SysStart(z, t, s)) \in Minutes /\ MinuteOf(SysStop(z, t, s)) \in Minutes
  BY <1>3, Calendar
<1>5. DayOf(SysStart(z, t, s)) - D \in Int
  BY <1>1, <1>4
<1>6. ShiftWeekdays(s.days, DayOf(SysStart(z, t, s)) - D) \in (SUBSET (0..6)) \ {{}}
  BY <1>5, ScheduleParts, ShiftedDays
<1>7. QED
  BY <1>4, <1>6 DEF ConvertScheduleTimesToUtc, Schedules

(* The conversion is a plain shift when both ends of the window exist and   *)
(* have one offset: the end cannot fall into the gap of a transition when  *)
(* the start has the offset of the transition's far side.                  *)
LEMMA ConvertPlain ==
    ASSUME NEW z \in Zones, NEW t \in Int, NEW s \in Schedules, s.start # s.stop,
           NEW o \in Int, PlainOffset(z, t, s) = {o}
    PROVE  ConvertScheduleTimesToUtc(z, t, s) = Shifted(s, -o)
<1> DEFINE D == DayOf(Local(z, t))
           E == NextDayIf(s.stop <= s.start, D)
           ls == Instant(D, s.start)
           le == Instant(E, s.stop)
           b == SysStart(z, t, s)
           e == SysStop(z, t, s)
<1>1. D \in Int /\ E \in Int
  BY ZoneParts, Calendar DEF NextDayIf
<1>2. ls \in Int /\ le \in Int /\ ls < le
  <2>1. /\ s.start \in Minutes /\ s.stop \in Minutes
        /\ s.start \in Int /\ s.stop \in Int
    BY ScheduleParts
  <2>2. D < E \/ (D = E /\ s.start < s.stop)
    BY <1>1, <2>1 DEF NextDayIf
  <2> HIDE DEF D, E
  <2>3. QED
    BY <1>1, <2>1, <2>2, DateOfInstant, InstantOrder
<1>3. b = ToSys(z, ls) /\ e = ToSys(z, le)
  BY DEF SysStart, SysStop
<1>4. Local(z, b) = ls /\ o = Offset(z, b) /\ o = Offset(z, e)
  BY DEF PlainOffset
<1> HIDE DEF D, E, ls, le, b, e
<1>5. b \in Int /\ e \in Int
  BY <1>2, <1>3, ToSysFound
<1>6. b = ls - o
  BY <1>2, <1>4, <1>5 DEF Local
<1>7. e = le - o
  <2>1. CASE Local(z, e) = le
    BY <1>2, <1>4, <1>5, <2>1 DEF Local
  <2>2. CASE e = z.at /\ Local(z, le - z.after) # le
    <3>1. z.before \in Int /\ z.after \in Int /\ z.at \in Int
      BY ZoneParts
    <3>2. o = z.after
      BY <1>4, <2>2, <3>1 DEF Offset
    <3>3. z.before = z.after \/ z.at <= b
      BY <1>4, <1>5, <3>1, <3>2 DEF Offset
    <3>4. Local(z, le - z.after) = le
      BY <1>2, <1>6, <3>1, <3>2, <3>3 DEF Local, Offset
    <3>5. QED
      BY <2>2, <3>4
  <2>3. QED
    BY <1>2, <1>3, <2>1, <2>2, ToSysFound
<1>8. QED
  BY <1>1, <1>6, <1>7, ConvertWith DEF D, E, ls, le, b, e

---------------------------------------------------------------------------
(* Away from a transition. *)

(* Within three days of a settled instant the offset is the one it has. *)
LEMMA SettledOffset ==
    ASSUME NEW z \in Zones, NEW t \in Int, Settled(z, t),
           NEW u \in Int, t - 3 * DayLength <= u, u <= t + 3 * DayLength
    PROVE  Offset(z, u) = Offset(z, t) /\ Local(z, u) = u + Offset(z, t)
BY TimeAssumption, ZoneParts DEF Settled, Offset, Local

(* A local time less than three days off is shown at one instant only. *)
LEMMA SettledToSys ==
    ASSUME NEW z \in Zones, NEW t \in Int, Settled(z, t),
           NEW local \in Int,
           Local(z, t) - DayLength < local, local < Local(z, t) + 2 * DayLength
    PROVE  ToSys(z, local) = local - Offset(z, t)
<1> DEFINE o == Offset(z, t)
           c == local - o
<1>1. /\ z.before \in Int /\ z.after \in Int /\ z.at \in Int /\ DayLength \in Nat
      /\ -DayLength < z.before /\ z.before < DayLength
      /\ -DayLength < z.after /\ z.after < DayLength
      /\ o \in {z.before, z.after} /\ Local(z, t) = t + o
  BY ZoneParts, TimeAssumption DEF Offset, Local
<1>2. c \in Int /\ t - DayLength < c /\ c < t + 2 * DayLength
  BY <1>1
<1>3. Local(z, c) = local /\ Offset(z, c) = o
  BY <1>1, <1>2, SettledOffset
<1>4. c \in {local - z.before, local - z.after}
  BY <1>1
<1>5. ToSys(z, local) \in {local - z.before, local - z.after}
      /\ Local(z, ToSys(z, local)) = local /\ ToSys(z, local) <= c
  BY <1>3, <1>4, ToSysFound
<1>6. ToSys(z, local) = c
  <2> DEFINE x == ToSys(z, local)
  <2>1. x \in Int /\ x > t - 3 * DayLength /\ x <= t + 3 * DayLength
    BY <1>1, <1>2, <1>5
  <2>2. Local(z, x) = x + o
    BY <1>1, <2>1, SettledOffset
  <2>3. QED
    BY <1>1, <1>5, <2>1, <2>2
<1>7. QED
  BY <1>6

(* The window that opens on day D opens during it and closes within a day. *)
LEMMA WindowExtent ==
    ASSUME NEW s \in Schedules, NEW D \in Int
    PROVE  /\ NextDayIf(s.stop <= s.start, D) \in Int
           /\ Instant(D, s.start) \in Int
           /\ Instant(NextDayIf(s.stop <= s.start, D), s.stop) \in Int
           /\ Instant(D, s.start) < Instant(NextDayIf(s.stop <= s.start, D), s.stop)
           /\ Instant(NextDayIf(s.stop <= s.start, D), s.stop) <= Instant(D, s.start) + DayLength
<1>1. s.start \in Minutes /\ s.stop \in Minutes /\ s.start \in Int /\ s.stop \in Int
  BY ScheduleParts
<1>2. CASE s.stop <= s.start
  BY <1>1, <1>2, TimeAssumption DEF Instant, NextDayIf, Minutes
<1>3. CASE s.start < s.stop
  BY <1>1, <1>3, TimeAssumption DEF Instant, NextDayIf, Minutes
<1>4. QED
  BY <1>1, <1>2, <1>3

(* An instant of the day of t is less than a day away from t. *)
LEMMA SameDay ==
    ASSUME NEW t \in Int, NEW u \in Int, DayOf(t) = DayOf(u)
    PROVE  t - DayLength < u /\ u < t + DayLength
BY TimeAssumption DEF DayOf

LEMMA ConvertSettled ==
    ASSUME NEW z \in Zones, NEW t \in Int, Settled(z, t), NEW s \in Schedules
    PROVE  ConvertScheduleTimesToUtc(z, t, s) = Shifted(s, -Offset(z, t))
<1> DEFINE D == DayOf(Local(z, t))
           E == NextDayIf(s.stop <= s.start, D)
<1>1. Offset(z, t) \in Int /\ Local(z, t) \in Int /\ D \in Int /\ DayLength \in Nat
  BY ZoneParts, Calendar, TimeAssumption
<1>2. Instant(D, s.start) \in Int /\ DayOf(Instant(D, s.start)) = D
  BY <1>1, ScheduleParts, DateOfInstant
<1>3. /\ Local(z, t) - DayLength < Instant(D, s.start)
      /\ Instant(D, s.start) < Local(z, t) + DayLength
  BY <1>1, <1>2, SameDay
<1> HIDE DEF D
<1>4. /\ Instant(E, s.stop) \in Int
      /\ Instant(D, s.start) < Instant(E, s.stop)
      /\ Instant(E, s.stop) <= Instant(D, s.start) + DayLength
  BY <1>1, WindowExtent
<1>5. /\ Local(z, t) - DayLength < Instant(E, s.stop)
      /\ Instant(E, s.stop) < Local(z, t) + 2 * DayLength
      /\ Instant(D, s.start) < Local(z, t) + 2 * DayLength
  BY <1>1, <1>2, <1>3, <1>4
<1> HIDE DEF E
<1>6. /\ ToSys(z, Instant(D, s.start)) = Instant(D, s.start) - Offset(z, t)
      /\ ToSys(z, Instant(E, s.stop)) = Instant(E, s.stop) - Offset(z, t)
  BY <1>2, <1>3, <1>4, <1>5, SettledToSys
<1>7. QED
  BY <1>1, <1>6, ConvertWith DEF D, E, SysStart, SysStop

(* Reading a schedule back shifts it by the offset of the zone: the UTC day *)
(* is corrected until the window opens on the local day of the request.    *)
LEMMA NormalizeSettled ==
    ASSUME NEW z \in Zones, NEW t \in Int, Settled(z, t), NEW s \in Schedules
    PROVE  NormalizeScheduleResponse(z, t, s) = Shifted(s, Offset(z, t))
<1> DEFINE o == Offset(z, t)
           D == DayOf(Local(z, t))
           T == DayOf(ToSys(z, Instant(D, 0)))
           U == T + D - DayOf(Local(z, Instant(T, s.start)))
           E == NextDayIf(s.stop <= s.start, U)
           q == DayOf(s.start + o)
<1>1. /\ o \in Int /\ Local(z, t) \in Int /\ Local(z, t) = t + o /\ D \in Int
      /\ DayLength \in Nat /\ 0 \in Minutes
  BY ZoneParts, Calendar, TimeAssumption DEF Local, Minutes
<1>2. s.start \in Minutes /\ s.stop \in Minutes /\ s.start \in Int /\ s.stop \in Int
  BY ScheduleParts
<1>3. q \in Int /\ s.start + o \in Int /\ s.stop + o \in Int
  BY <1>1, <1>2, Calendar
<1>4. Instant(D, 0) \in Int /\ ToSys(z, Instant(D, 0)) = Instant(D, 0) - o
      /\ t - DayLength < Instant(D, 0) - o /\ Instant(D, 0) - o < t + DayLength
  <2>1. Instant(D, 0) \in Int /\ DayOf(Instant(D, 0)) = D
    BY <1>1, DateOfInstant
  <2>2. /\ Local(z, t) - DayLength < Instant(D, 0)
        /\ Instant(D, 0) < Local(z, t) + DayLength
    BY <1>1, <2>1, SameDay
  <2> HIDE DEF D
  <2>3. Instant(D, 0) < Local(z, t) + 2 * DayLength
    BY <1>1, <2>1, <2>2
  <2>4. QED
    BY <1>1, <2>1, <2>2, <2>3, SettledToSys
<1>5. T \in Int /\ Instant(T, s.start) \in Int
      /\ t - 2 * DayLength < Instant(T, s.start) /\ Instant(T, s.start) < t + 2 * DayLength
  <2>1. Instant(D, 0) - o \in Int /\ T = DayOf(Instant(D, 0) - o)
    BY <1>1, <1>4
  <2>2. T \in Int
    BY <2>1, Calendar
  <2> HIDE DEF T
  <2>3. Instant(T, s.start) \in Int /\ DayOf(Instant(T, s.start)) = T
    BY <1>2, <2>2, DateOfInstant
  <2>4. /\ Instant(D, 0) - o - DayLength < Instant(T, s.start)
        /\ Instant(T, s.start) < Instant(D, 0) - o + DayLength
    BY <2>1, <2>3, SameDay
  <2> HIDE DEF D, o
  <2>5. QED
    BY <1>1, <1>4, <2>1, <2>2, <2>3, <2>4
<1> HIDE DEF T
<1>6. Local(z, Instant(T, s.start)) = Instant(T, s.start + o)
  <2>1. Local(z, Instant(T, s.start)) = Instant(T, s.start) + o
    BY <1>1, <1>5, SettledOffset
  <2>2. QED
    BY <1>1, <1>2, <1>5, <2>1 DEF Instant
<1>7. U = D - q /\ U \in Int
  <2>1. DayOf(Instant(T, s.start + o)) = T + q
    BY <1>3, <1>5, WholeDays
  <2> HIDE DEF q, D
  <2>2. QED
    BY <1>1, <1>3, <1>5, <1>6, <2>1
<1> HIDE DEF U
<1>8. DayOf(Instant(U, s.start + o)) = D /\ Instant(U, s.start + o) \in Int
      /\ MinuteOf(Instant(U, s.start + o)) = MinuteOf(s.start + o)
  <2>1. /\ DayOf(Instant(U, s.start + o)) = U + q /\ Instant(U, s.start + o) \in Int
        /\ MinuteOf(Instant(U, s.start + o)) = MinuteOf(s.start + o)
    BY <1>3, <1>7, WholeDays
  <2> HIDE DEF q, D
  <2>2. QED
    BY <1>1, <1>3, <1>7, <2>1
<1>9. Instant(U, s.start) \in Int /\ Instant(U, s.start + o) = Instant(U, s.start) + o
      /\ t - DayLength < Instant(U, s.start) /\ Instant(U, s.start) < t + DayLength
  <2>1. Instant(U, s.start) \in Int /\ Instant(U, s.start + o) = Instant(U, s.start) + o
    BY <1>1, <1>2, <1>7 DEF Instant
  <2>2. /\ Local(z, t) - DayLength < Instant(U, s.start + o)
        /\ Instant(U, s.start + o) < Local(z, t) + DayLength
    BY <1>1, <1>8, SameDay
  <2> HIDE DEF o
  <2>3. QED
    BY <1>1, <2>1, <2>2
<1>10. Local(z, Instant(U, s.start)) = Instant(U, s.start + o)
  BY <1>1, <1>9, SettledOffset
<1>11. E \in Int /\ Instant(E, s.stop) \in Int
       /\ t - 3 * DayLength <= Instant(E, s.stop) /\ Instant(E, s.stop) <= t + 3 * DayLength
  <2>1. /\ E \in Int /\ Instant(E, s.stop) \in Int
        /\ Instant(U, s.start) < Instant(E, s.stop)
        /\ Instant(E, s.stop) <= Instant(U, s.start) + DayLength
    BY <1>7, WindowExtent
  <2> HIDE DEF E
  <2>2. QED
    BY <1>1, <1>9, <2>1
<1>12. Local(z, Instant(E, s.stop)) = Instant(E, s.stop + o)
       /\ MinuteOf(Instant(E, s.stop + o)) = MinuteOf(s.stop + o)
  <2>1. Local(z, Instant(E, s.stop)) = Instant(E, s.stop) + o
    BY <1>11, SettledOffset
  <2> HIDE DEF E
  <2>2. Instant(E, s.stop) + o = Instant(E, s.stop + o)
    BY <1>1, <1>2, <1>11 DEF Instant
  <2>3. MinuteOf(Instant(E, s.stop + o)) = MinuteOf(s.stop + o)
    BY <1>3, <1>11, WholeDays
  <2>4. QED
    BY <2>1, <2>2, <2>3
<1>13. DayOf(Local(z, Instant(U, s.start))) - U = q
  <2> HIDE DEF q, D
  <2>1. QED
    BY <1>1, <1>3, <1>7, <1>8, <1>10
<1>14. NormalizeScheduleResponse(z, t, s) =
         [start |-> MinuteOf(Local(z, Instant(U, s.start))),
          stop  |-> MinuteOf(Local(z, Instant(E, s.stop))),
          days  |-> ShiftWeekdays(s.days, DayOf(Local(z, Instant(U, s.start))) - U)]
  BY DEF NormalizeScheduleResponse, U, T
<1>15. QED
  BY <1>8, <1>10, <1>12, <1>13, <1>14 DEF Shifted

---------------------------------------------------------------------------
(* Windows. *)

WindowEnd(s, d) == Instant(NextDayIf(s.stop <= s.start, d), s.stop)

(* At l, the window of s that opened on day d is open. *)
Window(s, d, l) ==
    /\ d % 7 \in s.days
    /\ Instant(d, s.start) <= l
    /\ l < WindowEnd(s, d)

(* Only the windows of today and of yesterday can be open. *)
LEMMA OpenWindow ==
    ASSUME NEW s \in Schedules, NEW l \in Int
    PROVE  InLocalWindow(s, l) <=> \E d \in Int : Window(s, d, l)
<1>1. DayOf(l) \in Int /\ DayOf(l) - 1 \in Int
  BY Calendar
<1>2. ASSUME NEW d \in Int, Window(s, d, l) PROVE d \in {DayOf(l) - 1, DayOf(l)}
  <2>1. /\ Instant(d, s.start) \in Int /\ WindowEnd(s, d) \in Int
        /\ WindowEnd(s, d) <= Instant(d, s.start) + DayLength
    BY WindowExtent DEF WindowEnd
  <2>2. Instant(d, s.start) <= l /\ l < Instant(d, s.start) + DayLength
    BY <1>2, <2>1, TimeAssumption DEF Window
  <2>3. s.start \in Minutes
    BY ScheduleParts
  <2>4. d * DayLength <= l /\ l < d * DayLength + 2 * DayLength
    BY <2>2, <2>3, TimeAssumption DEF Instant, Minutes
  <2>5. d <= DayOf(l) /\ DayOf(l) < d + 2
    BY <2>4, TimeAssumption DEF DayOf
  <2>6. QED
    BY <1>1, <2>5
<1>3. QED
  BY <1>1, <1>2 DEF InLocalWindow, Window, WindowEnd

(* The stop time falls on one day only after the start. *)
LEMMA EndDay ==
    ASSUME NEW s \in Schedules, NEW d \in Int, NEW f \in Int,
           Instant(d, s.start) < Instant(f, s.stop),
           Instant(f, s.stop) <= Instant(d, s.start) + DayLength
    PROVE  f = NextDayIf(s.stop <= s.start, d)
<1>1. s.start \in Minutes /\ s.stop \in Minutes /\ s.start \in Int /\ s.stop \in Int
  BY ScheduleParts
<1>2. d < f \/ (d = f /\ s.start < s.stop)
  BY <1>1, InstantOrder
<1>3. Instant(f, s.stop) <= Instant(d + 1, s.start)
  BY <1>1, TimeAssumption DEF Instant
<1>4. ~ (Instant(d + 1, s.start) < Instant(f, s.stop))
  BY <1>1, <1>3, DateOfInstant
<1>5. ~ (d + 1 < f \/ (d + 1 = f /\ s.start < s.stop))
  BY <1>1, <1>4, InstantOrder
<1>6. QED
  BY <1>1, <1>2, <1>5 DEF NextDayIf

LEMMA ShiftedProper ==
    ASSUME NEW s \in Schedules, NEW k \in Int, s.start # s.stop
    PROVE  Shifted(s, k).start # Shifted(s, k).stop
<1>1. ASSUME Shifted(s, k).start = Shifted(s, k).stop PROVE s.start = s.stop
  <2>1. Shifted(Shifted(s, k), -k).start = Shifted(Shifted(s, k), -k).stop
    BY <1>1 DEF Shifted
  <2>2. QED
    BY <2>1, ShiftBack
<1>2. QED
  BY <1>1

(* Shifting a schedule shifts each of its windows. *)
LEMMA WindowShift ==
    ASSUME NEW s \in Schedules, NEW k \in Int, NEW d \in Int, NEW l \in Int
    PROVE  Window(s, d, l) <=> Window(Shifted(s, k), d + DayOf(s.start + k), l + k)
<1> DEFINE q == DayOf(s.start + k)
           r == DayOf(s.stop + k)
           E == NextDayIf(s.stop <= s.start, d)
           v == Shifted(s, k)
<1>1. /\ s.start \in Minutes /\ s.stop \in Minutes /\ s.start \in Int /\ s.stop \in Int
      /\ s.days \subseteq 0..6 /\ s.days # {} /\ DayLength \in Nat
  BY ScheduleParts, TimeAssumption
<1>2. v \in Schedules /\ v.start = MinuteOf(s.start + k) /\ v.stop = MinuteOf(s.stop + k)
      /\ v.days = ShiftWeekdays(s.days, q)
  BY ShiftedType DEF Shifted
<1>3. /\ q \in Int /\ s.start + k = Instant(q, v.start)
      /\ r \in Int /\ s.stop + k = Instant(r, v.stop)
  BY <1>1, <1>2, Calendar
<1>4. /\ E \in Int /\ Instant(d, s.start) \in Int /\ Instant(E, s.stop) \in Int
      /\ Instant(d, s.start) < Instant(E, s.stop)
      /\ Instant(E, s.stop) <= Instant(d, s.start) + DayLength
  BY WindowExtent
<1>5. v.start \in Int /\ v.stop \in Int
  BY <1>2, ScheduleParts
<1> HIDE DEF q, r, E, v
<1>6. /\ Instant(d + q, v.start) = Instant(d, s.start) + k
      /\ Instant(E + r, v.stop) = Instant(E, s.stop) + k
  BY <1>1, <1>3, <1>4, <1>5 DEF Instant
<1>7. E + r = NextDayIf(v.stop <= v.start, d + q)
  <2>1. d + q \in Int /\ E + r \in Int
    BY <1>3, <1>4
  <2>2. /\ Instant(d + q, v.start) < Instant(E + r, v.stop)
        /\ Instant(E + r, v.stop) <= Instant(d + q, v.start) + DayLength
    BY <1>1, <1>4, <1>6
  <2>3. QED
    BY <1>2, <2>1, <2>2, EndDay
<1>8. d % 7 \in s.days <=> (d + q) % 7 \in v.days
  BY <1>1, <1>2, <1>3, ShiftedDays
<1>9. WindowEnd(s, d) = Instant(E, s.stop) /\ WindowEnd(v, d + q) = Instant(E + r, v.stop)
  BY <1>7 DEF WindowEnd, E
<1>10. /\ Instant(d, s.start) <= l <=> Instant(d + q, v.start) <= l + k
       /\ l < WindowEnd(s, d) <=> l + k < WindowEnd(v, d + q)
  BY <1>4, <1>6, <1>9
<1>11. Window(s, d, l) <=> Window(v, d + q, l + k)
  BY <1>8, <1>10 DEF Window
<1>12. QED
  BY <1>11 DEF v, q

LEMMA LocalWindowShift ==
    ASSUME NEW s \in Schedules, NEW k \in Int, NEW l \in Int
    PROVE  InLocalWindow(s, l) <=> InLocalWindow(Shifted(s, k), l + k)
<1>1. Shifted(s, k) \in Schedules /\ l + k \in Int /\ DayOf(s.start + k) \in Int
  BY ShiftedType, ScheduleParts, Calendar
<1>2. ASSUME NEW d \in Int, Window(s, d, l)
      PROVE  \E e \in Int : Window(Shifted(s, k), e, l + k)
  <2>1. d + DayOf(s.start + k) \in Int
    BY <1>1
  <2>2. QED
    BY <1>2, <2>1, WindowShift
<1>3. ASSUME NEW e \in Int, Window(Shifted(s, k), e, l + k)
      PROVE  \E d \in Int : Window(s, d, l)
  <2>1. /\ e - DayOf(s.start + k) \in Int
        /\ (e - DayOf(s.start + k)) + DayOf(s.start + k) = e
    BY <1>1
  <2>2. QED
    BY <1>3, <2>1, WindowShift
<1>4. QED
  BY <1>1, <1>2, <1>3, OpenWindow

---------------------------------------------------------------------------
(* Evaluation: ScheduleUntil is the end of the open window. *)

LEMMA UntilOpen ==
    ASSUME NEW s \in Schedules, NEW t \in Nat, ScheduleUntil(s, t) # Inactive
    PROVE  \E d \in Int : Window(s, d, t) /\ ScheduleUntil(s, t) = WindowEnd(s, d)
<1>1. s.start \in Minutes /\ s.stop \in Minutes /\ s.start \in Int /\ s.stop \in Int
  BY ScheduleParts
<1>2. /\ DayOf(t) \in Int /\ DayOf(t) - 1 \in Int /\ MinuteOf(t) \in Minutes
      /\ t = Instant(DayOf(t), MinuteOf(t))
  BY Calendar
<1>3. ((DayOf(t) % 7) + 6) % 7 = (DayOf(t) - 1) % 7
  BY <1>2
<1>4. CASE /\ DayOf(t) % 7 \in s.days /\ s.start <= MinuteOf(t)
           /\ ScheduleUntil(s, t) = WindowEnd(s, DayOf(t))
           /\ s.stop <= s.start \/ MinuteOf(t) < s.stop
  <2>1. Instant(DayOf(t), s.start) <= t
    BY <1>1, <1>2, <1>4, TimeAssumption DEF Instant, Minutes
  <2>2. t < WindowEnd(s, DayOf(t))
    BY <1>1, <1>2, <1>4, TimeAssumption DEF Instant, Minutes, WindowEnd, NextDayIf
  <2>3. QED
    BY <1>2, <1>4, <2>1, <2>2 DEF Window
<1>5. CASE /\ (DayOf(t) - 1) % 7 \in s.days /\ MinuteOf(t) < s.stop
           /\ s.stop <= s.start
           /\ ScheduleUntil(s, t) = WindowEnd(s, DayOf(t) - 1)
  <2>1. Instant(DayOf(t) - 1, s.start) <= t
    BY <1>1, <1>2, <1>5, TimeAssumption DEF Instant, Minutes
  <2>2. t < WindowEnd(s, DayOf(t) - 1)
    BY <1>1, <1>2, <1>5, TimeAssumption DEF Instant, Minutes, WindowEnd, NextDayIf
  <2>3. QED
    BY <1>2, <1>5, <2>1, <2>2 DEF Window
<1>6. QED
  BY <1>1, <1>2, <1>3, <1>4, <1>5 DEF ScheduleUntil, WindowEnd, NextDayIf, Inactive

LEMMA OpenUntil ==
    ASSUME NEW s \in Schedules, s.start # s.stop, NEW t \in Nat, NEW d \in Int, Window(s, d, t)
    PROVE  ScheduleUntil(s, t) = WindowEnd(s, d) /\ WindowEnd(s, d) > t
<1>1. s.start \in Minutes /\ s.stop \in Minutes /\ s.start \in Int /\ s.stop \in Int
  BY ScheduleParts
<1>2. /\ DayOf(t) \in Int /\ MinuteOf(t) \in Minutes /\ MinuteOf(t) \in Int
      /\ t = Instant(DayOf(t), MinuteOf(t))
  BY Calendar, TimeAssumption DEF Minutes
<1>3. d % 7 \in s.days /\ Instant(d, s.start) <= t /\ t < WindowEnd(s, d)
  BY DEF Window
<1>4. WindowEnd(s, d) \in Int
  BY WindowExtent DEF WindowEnd
<1>5. ~ (t < Instant(d, s.start))
  BY <1>3, WindowExtent
<1>6. ~ (DayOf(t) < d \/ (DayOf(t) = d /\ MinuteOf(t) < s.start))
  BY <1>1, <1>2, <1>5, InstantOrder
<1>7. CASE s.start < s.stop
  <2>1. WindowEnd(s, d) = Instant(d, s.stop)
    BY <1>1, <1>7 DEF WindowEnd, NextDayIf
  <2>2. DayOf(t) < d \/ (DayOf(t) = d /\ MinuteOf(t) < s.stop)
    BY <1>1, <1>2, <1>3, <2>1, InstantOrder
  <2>3. DayOf(t) = d /\ MinuteOf(t) < s.stop /\ s.start <= MinuteOf(t)
    BY <1>1, <1>2, <1>6, <2>2
  <2>4. QED
    BY <1>3, <1>4, <1>7, <2>1, <2>3 DEF ScheduleUntil
<1>8. CASE s.stop < s.start
  <2>1. WindowEnd(s, d) = Instant(d + 1, s.stop)
    BY <1>1, <1>8 DEF WindowEnd, NextDayIf
  <2>2. DayOf(t) < d + 1 \/ (DayOf(t) = d + 1 /\ MinuteOf(t) < s.stop)
    BY <1>1, <1>2, <1>3, <2>1, InstantOrder
  <2>3. \/ DayOf(t) = d /\ s.start <= MinuteOf(t)
        \/ DayOf(t) = d + 1 /\ MinuteOf(t) < s.stop /\ ~ (s.start <= MinuteOf(t))
    BY <1>1, <1>2, <1>6, <1>8, <2>2
  <2>4. (((d + 1) % 7) + 6) % 7 = d % 7
    OBVIOUS
  <2>5. QED
    BY <1>1, <1>3, <1>4, <1>8, <2>1, <2>3, <2>4 DEF ScheduleUntil
<1>9. QED
  BY <1>1, <1>7, <1>8

(* The evaluation in UTC is the local reference, read in UTC. *)
LEMMA UntilIsWindow ==
    ASSUME NEW s \in Schedules, s.start # s.stop, NEW t \in Nat
    PROVE  ScheduleUntil(s, t) # Inactive <=> InLocalWindow(s, t)
<1>1. ASSUME NEW d \in Int, Window(s, d, t) PROVE ScheduleUntil(s, t) # Inactive
  <2>1. ScheduleUntil(s, t) = WindowEnd(s, d) /\ WindowEnd(s, d) > t
    BY <1>1, OpenUntil
  <2>2. WindowEnd(s, d) \in Int
    BY WindowExtent DEF WindowEnd
  <2>3. QED
    BY <2>1, <2>2 DEF Inactive
<1>2. QED
  BY <1>1, UntilOpen, OpenWindow

(* An active rule stays active until its end, and is inactive then. *)
LEMMA ScheduleRuns ==
    ASSUME NEW s \in Schedules, NEW t \in Nat, ScheduleUntil(s, t) # Inactive
    PROVE  /\ ScheduleUntil(s, t) \in Nat /\ ScheduleUntil(s, t) > t
           /\ \A u \in t..(ScheduleUntil(s, t) - 1) : ScheduleUntil(s, u) = ScheduleUntil(s, t)
           /\ ScheduleUntil(s, ScheduleUntil(s, t)) = Inactive
<1>1. s.start \in Minutes /\ s.stop \in Minutes /\ s.start \in Int /\ s.stop \in Int
  BY ScheduleParts
<1>2. s.start # s.stop
  BY <1>1 DEF ScheduleUntil
<1>3. PICK d \in Int : Window(s, d, t) /\ ScheduleUntil(s, t) = WindowEnd(s, d)
  BY UntilOpen
<1> DEFINE v == WindowEnd(s, d)
<1>4. v \in Nat /\ v > t
  BY <1>2, <1>3, OpenUntil, WindowExtent DEF WindowEnd
<1>5. ASSUME NEW u \in t..(v - 1) PROVE ScheduleUntil(s, u) = v
  <2>1. u \in Nat /\ t <= u /\ u < v
    BY <1>4
  <2>2. Window(s, d, u)
    BY <1>3, <2>1, WindowExtent DEF Window
  <2>3. QED
    BY <1>2, <2>1, <2>2, OpenUntil
<1>6. ScheduleUntil(s, v) = Inactive
  <2>1. MinuteOf(v) = s.stop
    BY <1>1, WindowExtent, DateOfInstant DEF WindowEnd
  <2> HIDE DEF v
  <2>2. QED
    BY <1>1, <1>2, <2>1 DEF ScheduleUntil
<1>7. QED
  BY <1>3, <1>4, <1>5, <1>6

LEMMA ScheduleUntilType ==
    ASSUME NEW s \in Schedules, NEW t \in Nat
    PROVE  ScheduleUntil(s, t) \in Nat
BY ScheduleRuns DEF Inactive

AccessRules == [startDate : Nat, startTime : Minutes, stopDate : Nat, stopTime : Minutes]

LEMMA AccessUntilType ==
    ASSUME NEW a \in AccessRules \cup {Permanent}, NEW t \in Nat
    PROVE  /\ AccessUntil(a, t) \in Int
           /\ a # Permanent => AccessUntil(a, t) # Never /\ AccessEnd(a) \in Nat
<1>1. CASE a = Permanent
  BY <1>1 DEF AccessUntil, Never
<1>2. CASE a # Permanent
  <2>1. a.startDate \in Nat /\ a.stopDate \in Nat /\ a.stopTime \in Minutes
    BY <1>2 DEF AccessRules
  <2>2. AccessEnd(a) \in Nat
    BY <2>1, TimeAssumption DEF AccessEnd, Instant, Minutes
  <2>3. QED
    BY <1>2, <2>2 DEF AccessUntil, Inactive, Never
<1>3. QED
  BY <1>1, <1>2

LEMMA AccessRuns ==
    ASSUME NEW a \in AccessRules, a # Permanent, NEW t \in Nat, AccessUntil(a, t) # Inactive
    PROVE  /\ AccessUntil(a, t) > t
           /\ \A u \in t..(AccessUntil(a, t) - 1) : AccessUntil(a, u) = AccessUntil(a, t)
           /\ AccessUntil(a, AccessUntil(a, t)) = Inactive
<1>1. AccessEnd(a) \in Nat
  BY AccessUntilType
<1>2. Instant(a.startDate, a.startTime) \in Nat
  BY TimeAssumption DEF AccessRules, Instant, Minutes
<1>3. /\ AccessUntil(a, t) = AccessEnd(a)
      /\ ~ (t < Instant(a.startDate, a.startTime)) /\ ~ (t >= AccessEnd(a))
  BY DEF AccessUntil
<1>4. QED
  BY <1>1, <1>2, <1>3 DEF AccessUntil

---------------------------------------------------------------------------
(* The inductive invariant. *)

(* The schedule kept is the one asked for, shifted by the offset it was     *)
(* converted with, whenever that offset was one.                           *)
WishInv ==
    schedule # None =>
        /\ wish.local \in Schedules /\ wish.local.start # wish.local.stop
        /\ \A o \in Int : wish.offset = {o} => schedule = Shifted(wish.local, -o)

(* The schedule kept opens and closes in UTC when the window of the day of  *)
(* the request did, if that day was one of the weekdays.                   *)
FirstInv ==
    schedule # None /\ wish.first # None =>
        LET f == wish.first IN
        /\ f.zone \in Zones /\ f.from \in Int /\ f.to \in Int
        /\ f.from < f.to /\ f.to - f.from < DayLength
        /\ schedule.start = MinuteOf(ToSys(f.zone, f.from))
        /\ schedule.stop = MinuteOf(ToSys(f.zone, f.to))
        /\ DayOf(ToSys(f.zone, f.from)) % 7 \in schedule.days

(* The client-access rule that pass 2 makes at instant n for d minutes. *)
Dated(n, d) ==
    [startDate |-> DayOf(n), startTime |-> MinuteOf(n),
     stopDate |-> DayOf(n + d) + 1, stopTime |-> MinuteOf(n + d)]

(* A timed rule was dated at some instant, with the duration asked for. *)
AccessInv ==
    access \notin {None, Permanent} =>
        duration \in Durations /\ \E n \in Nat : access = Dated(n, duration)

TimeInv == TimeTypeOK /\ WishInv /\ FirstInv /\ AccessInv

LEMMA RequestsAreSchedules ==
    ASSUME NEW s \in ScheduleRequests
    PROVE  s \in Schedules /\ s.start # s.stop
BY TimeAssumption DEF ScheduleRequests, Schedules

LEMMA DatedType ==
    ASSUME NEW n \in Nat, NEW d \in Nat
    PROVE  Dated(n, d) \in AccessRules
<1>1. n + d \in Nat
  OBVIOUS
<1>2. DayOf(n) \in Nat /\ MinuteOf(n) \in Minutes
  BY Calendar
<1>3. DayOf(n + d) \in Nat /\ MinuteOf(n + d) \in Minutes
  BY <1>1, Calendar
<1>4. QED
  BY <1>2, <1>3 DEF Dated, AccessRules

(* Saving converts both ends of the window of the day of the request. *)
LEMMA FirstWindowSaved ==
    ASSUME NEW z \in Zones, NEW t \in Int, NEW s \in Schedules, s.start # s.stop,
           FirstWindow(z, t, s) # None
    PROVE  LET f == FirstWindow(z, t, s)
               v == ConvertScheduleTimesToUtc(z, t, s)
           IN  /\ f.zone \in Zones /\ f.from \in Int /\ f.to \in Int
               /\ f.from < f.to /\ f.to - f.from < DayLength
               /\ v.start = MinuteOf(ToSys(f.zone, f.from))
               /\ v.stop = MinuteOf(ToSys(f.zone, f.to))
               /\ DayOf(ToSys(f.zone, f.from)) % 7 \in v.days
<1> DEFINE D == DayOf(Local(z, t))
           E == NextDayIf(s.stop <= s.start, D)
           b == SysStart(z, t, s)
<1>1. D \in Int /\ E \in Int
  BY ZoneParts, Calendar DEF NextDayIf
<1>2. /\ s.start \in Minutes /\ s.stop \in Minutes /\ s.start \in Int /\ s.stop \in Int
      /\ s.days \subseteq 0..6 /\ s.days # {}
  BY ScheduleParts
<1>3. /\ D % 7 \in s.days
      /\ FirstWindow(z, t, s) = [zone |-> z, from |-> Instant(D, s.start), to |-> Instant(E, s.stop)]
  BY DEF FirstWindow
<1>4. ConvertScheduleTimesToUtc(z, t, s) =
        [start |-> MinuteOf(b), stop |-> MinuteOf(SysStop(z, t, s)),
         days |-> ShiftWeekdays(s.days, DayOf(b) - D)]
  BY DEF ConvertScheduleTimesToUtc
<1>5. b = ToSys(z, Instant(D, s.start)) /\ SysStop(z, t, s) = ToSys(z, Instant(E, s.stop))
  BY DEF SysStart, SysStop
<1>6. /\ Instant(D, s.start) \in Int /\ Instant(E, s.stop) \in Int
      /\ Instant(D, s.start) < Instant(E, s.stop)
      /\ Instant(E, s.stop) <= Instant(D, s.start) + DayLength
  BY <1>1, WindowExtent
<1>7. Instant(E, s.stop) # Instant(D, s.start) + DayLength
  <2>1. Instant(D, s.start) + DayLength = Instant(D + 1, s.start)
    BY <1>1, <1>2, TimeAssumption DEF Instant
  <2> HIDE DEF D, E
  <2>2. MinuteOf(Instant(D + 1, s.start)) = s.start /\ MinuteOf(Instant(E, s.stop)) = s.stop
    BY <1>1, <1>2, DateOfInstant
  <2>3. QED
    BY <2>1, <2>2
<1>8. DayOf(b) % 7 \in ShiftWeekdays(s.days, DayOf(b) - D)
  <2>1. DayOf(b) \in Int
    BY <1>5, <1>6, ToSysFound, Calendar
  <2> HIDE DEF D, b
  <2>2. DayOf(b) - D \in Int /\ D + (DayOf(b) - D) = DayOf(b)
    BY <1>1, <2>1
  <2>3. (D + (DayOf(b) - D)) % 7 \in ShiftWeekdays(s.days, DayOf(b) - D)
    BY <1>1, <1>2, <1>3, <2>2, ShiftedDays
  <2>4. QED
    BY <2>2, <2>3
<1> HIDE DEF D, E, b
<1>9. Instant(E, s.stop) - Instant(D, s.start) < DayLength
  BY <1>6, <1>7, TimeAssumption
<1>10. QED
  BY <1>3, <1>4, <1>5, <1>6, <1>8, <1>9

LEMMA TimeInit == Init => TimeInv
BY TimeAssumption DEF Init, TimeInv, TimeTypeOK, WishInv, FirstInv, AccessInv

LEMMA TimeStep == TimeInv /\ [Next]_vars => TimeInv'
<1> SUFFICES ASSUME TimeInv, [Next]_vars PROVE TimeInv'
  OBVIOUS
<1> USE TimeAssumption DEF TimeInv
<1>1. CASE Tick
  BY <1>1 DEF Tick, TimeTypeOK, WishInv, FirstInv, AccessInv
<1>2. CASE PutLocation
  BY <1>2 DEF PutLocation, Start, TimeTypeOK, WishInv, FirstInv, AccessInv
<1>3. CASE ResolveSubscriberTimezone
  BY <1>3 DEF ResolveSubscriberTimezone, Start, TimeTypeOK, WishInv, FirstInv, AccessInv
<1>4. CASE SaveSchedule
  <2>1. PICK s \in ScheduleRequests :
            /\ schedule' = ConvertScheduleTimesToUtc(resolved, now, s)
            /\ wish' = [local |-> s, offset |-> PlainOffset(resolved, now, s),
                        first |-> FirstWindow(resolved, now, s)]
    BY <1>4 DEF SaveSchedule
  <2>2. resolved \in Zones /\ now \in Int
    BY <1>4 DEF SaveSchedule, TimeTypeOK
  <2>3. s \in Schedules /\ s.start # s.stop
    BY RequestsAreSchedules
  <2>4. PlainOffset(resolved, now, s) \subseteq Int
    BY <2>2, ZoneParts DEF PlainOffset
  <2>5. schedule' \in Schedules
    BY <2>1, <2>2, <2>3, ConvertType
  <2>6. wish' \in [local : Schedules, offset : SUBSET Int,
                   first : [zone : Zones, from : Int, to : Int] \cup {None}]
    <3>1. DayOf(Local(resolved, now)) \in Int
      BY <2>2, ZoneParts, Calendar
    <3>2. FirstWindow(resolved, now, s) \in [zone : Zones, from : Int, to : Int] \cup {None}
      BY <2>2, <2>3, <3>1, WindowExtent DEF FirstWindow
    <3>3. QED
      BY <2>1, <2>3, <2>4, <3>2
  <2>7. TimeTypeOK'
    BY <1>4, <2>5, <2>6 DEF SaveSchedule, TimeTypeOK
  <2>8. /\ wish'.local = s /\ wish'.offset = PlainOffset(resolved, now, s)
        /\ wish'.first = FirstWindow(resolved, now, s)
    BY <2>1
  <2>9. WishInv'
    <3>1. ASSUME NEW o \in Int, wish'.offset = {o}
          PROVE  schedule' = Shifted(wish'.local, -o)
      <4>1. PlainOffset(resolved, now, s) = {o}
        BY <2>8, <3>1
      <4>2. ConvertScheduleTimesToUtc(resolved, now, s) = Shifted(s, -o)
        BY <2>2, <2>3, <4>1, ConvertPlain
      <4>3. QED
        BY <2>1, <2>8, <4>2
    <3>2. QED
      BY <2>3, <2>8, <3>1 DEF WishInv
  <2>10. AccessInv'
    BY <1>4 DEF SaveSchedule, AccessInv
  <2>11. FirstInv'
    <3>1. ASSUME wish'.first # None
          PROVE  /\ wish'.first.zone \in Zones
                 /\ wish'.first.from \in Int /\ wish'.first.to \in Int
                 /\ wish'.first.from < wish'.first.to
                 /\ wish'.first.to - wish'.first.from < DayLength
                 /\ schedule'.start = MinuteOf(ToSys(wish'.first.zone, wish'.first.from))
                 /\ schedule'.stop = MinuteOf(ToSys(wish'.first.zone, wish'.first.to))
                 /\ DayOf(ToSys(wish'.first.zone, wish'.first.from)) % 7 \in schedule'.days
      BY <2>1, <2>2, <2>3, <2>8, <3>1, FirstWindowSaved
    <3>2. QED
      BY <3>1 DEF FirstInv
  <2>12. QED
    BY <2>7, <2>9, <2>10, <2>11
<1>5. CASE SaveScheduleFails
  BY <1>5 DEF SaveScheduleFails, TimeTypeOK, WishInv, FirstInv, AccessInv
<1>6. CASE DeleteSchedule
  BY <1>6 DEF DeleteSchedule, Start, TimeTypeOK, WishInv, FirstInv, AccessInv
<1>7. CASE CheckBlock
  BY <1>7 DEF CheckBlock, Start, TimeTypeOK, WishInv, FirstInv, AccessInv
<1>8. CASE CreateBlock
  <2>1. checked \in Durations /\ checked \in Nat /\ now \in Nat
    BY <1>8 DEF CreateBlock, TimeTypeOK
  <2>2. access' = Dated(now, checked) /\ duration' = checked
    BY <1>8 DEF CreateBlock, Dated
  <2>3. access' \in AccessRules
    BY <2>1, <2>2, DatedType
  <2>4. TimeTypeOK'
    BY <1>8, <2>1, <2>3 DEF CreateBlock, TimeTypeOK, AccessRules
  <2>5. AccessInv'
    BY <2>1, <2>2 DEF AccessInv
  <2>6. WishInv' /\ FirstInv'
    BY <1>8 DEF CreateBlock, WishInv, FirstInv
  <2>7. QED
    BY <2>4, <2>5, <2>6
<1>9. CASE CreateBlockFails
  BY <1>9 DEF CreateBlockFails, TimeTypeOK, WishInv, FirstInv, AccessInv
<1>10. CASE BlockForever
  BY <1>10 DEF BlockForever, Start, TimeTypeOK, WishInv, FirstInv, AccessInv
<1>11. CASE AllowClient
  BY <1>11 DEF AllowClient, Start, TimeTypeOK, WishInv, FirstInv, AccessInv
<1>12. CASE UNCHANGED vars
  BY <1>12 DEF vars, TimeTypeOK, WishInv, FirstInv, AccessInv
<1>13. QED
  BY <1>1, <1>2, <1>3, <1>4, <1>5, <1>6, <1>7, <1>8, <1>9, <1>10, <1>11, <1>12 DEF Next

LEMMA TimeInvHolds == Spec => []TimeInv
BY TimeInit, TimeStep, PTL DEF Spec

(* The types, whatever the zones, the requests and the clock: in particular *)
(* a stored schedule keeps at least one weekday, each in 0..6, and minutes *)
(* of the day (ConvertScheduleTimesToUtc, ShiftWeekdays).                  *)
THEOREM TimeTypeTheorem == Spec => []TimeTypeOK
<1>1. TimeInv => TimeTypeOK
  BY DEF TimeInv
<1>2. QED
  BY <1>1, TimeInvHolds, PTL

---------------------------------------------------------------------------
(* The topology blocks the client exactly when the subscriber's own clock   *)
(* is inside the window asked for, while the offset is the one of the      *)
(* conversion (ConvertScheduleTimesToUtc, IsRuleActive).                   *)
THEOREM BlocksTheorem == Spec => []BlocksAsWished
<1>1. TimeInv => BlocksAsWished
  <2> SUFFICES ASSUME TimeInv, schedule # None, wish.offset = {Offset(zone, now)}
               PROVE  ScheduleUntil(schedule, now) # Inactive
                        <=> InLocalWindow(wish.local, Local(zone, now))
    BY DEF BlocksAsWished
  <2> DEFINE o == Offset(zone, now)
             w == wish.local
  <2>1. /\ now \in Nat /\ o \in Int /\ -o \in Int /\ Local(zone, now) = now + o
        /\ now + o \in Int /\ (now + o) + (-o) = now
    BY TimeAssumption, ZoneParts DEF TimeInv, TimeTypeOK, Local
  <2>2. w \in Schedules /\ w.start # w.stop /\ schedule = Shifted(w, -o)
    BY <2>1 DEF TimeInv, WishInv
  <2> HIDE DEF o, w
  <2>3. schedule \in Schedules /\ schedule.start # schedule.stop
    BY <2>1, <2>2, ShiftedType, ShiftedProper
  <2>4. ScheduleUntil(schedule, now) # Inactive <=> InLocalWindow(schedule, now)
    BY <2>1, <2>3, UntilIsWindow
  <2>5. InLocalWindow(w, now + o) <=> InLocalWindow(Shifted(w, -o), (now + o) + (-o))
    BY <2>1, <2>2, LocalWindowShift
  <2>6. QED
    BY <2>1, <2>2, <2>4, <2>5 DEF w
<1>2. QED
  BY <1>1, TimeInvHolds, PTL

(* On the day a schedule is saved the client is blocked from the moment the *)
(* subscriber's clock reaches the start until it reaches the stop, across  *)
(* any transition that leaves the window below a whole day (to_sys of both *)
(* ends in ConvertScheduleTimesToUtc, then IsRuleActive).                  *)
THEOREM FirstWindowTheorem == Spec => []FirstWindowExact
<1>1. TimeInv => FirstWindowExact
  <2> DEFINE f == wish.first
             z == f.zone
             b == ToSys(z, f.from)
             e == ToSys(z, f.to)
             until == ScheduleUntil(schedule, now)
  <2> SUFFICES ASSUME TimeInv, schedule # None, f # None,
                      f.to - f.from + z.before - z.after < DayLength,
                      Reached(z, now, f.from), ~Reached(z, now, f.to)
               PROVE  until > now /\ Reached(z, until, f.to) /\ ~Reached(z, until - 1, f.to)
    BY DEF FirstWindowExact
  <2>1. /\ z \in Zones /\ f.from \in Int /\ f.to \in Int
        /\ f.from < f.to /\ f.to - f.from < DayLength
        /\ schedule.start = MinuteOf(b) /\ schedule.stop = MinuteOf(e)
        /\ DayOf(b) % 7 \in schedule.days
    BY DEF TimeInv, FirstInv
  <2>2. now \in Nat /\ schedule \in Schedules /\ DayLength \in Nat
    BY TimeAssumption DEF TimeInv, TimeTypeOK
  <2>3. b \in Int /\ e \in Int
    BY <2>1, ToSysFound
  <2>4. b <= now /\ ~ (e <= now)
    BY <2>1, <2>2, ToSysFirst
  <2>5. e < b + DayLength
    BY <2>1, ToSysLength
  <2> DEFINE d == DayOf(b)
             g == DayOf(e)
  <2>6. /\ d \in Int /\ b = Instant(d, schedule.start) /\ schedule.start \in Minutes
        /\ g \in Int /\ e = Instant(g, schedule.stop) /\ schedule.stop \in Minutes
    BY <2>1, <2>3, Calendar
  <2>7. d % 7 \in schedule.days
    BY <2>1
  <2> HIDE DEF b, e, d, g
  <2>8. schedule.start # schedule.stop
    <3>1. SUFFICES ASSUME schedule.start = schedule.stop PROVE FALSE
      OBVIOUS
    <3>2. ~ (schedule.start < schedule.start)
      BY <2>6, TimeAssumption DEF Minutes
    <3>3. Instant(d, schedule.start) < Instant(g, schedule.start)
      BY <2>2, <2>3, <2>4, <2>6, <3>1
    <3>4. d < g
      BY <2>6, <3>3, <3>2, InstantOrder
    <3>5. Instant(d + 1, schedule.start) = b + DayLength
      BY <2>2, <2>6, TimeAssumption DEF Instant, Minutes
    <3>6. Instant(g, schedule.start) < Instant(d + 1, schedule.start)
      BY <2>5, <2>6, <3>1, <3>5
    <3>7. g < d + 1
      BY <2>6, <3>6, <3>2, InstantOrder
    <3>8. QED
      BY <2>6, <3>4, <3>7
  <2>9. WindowEnd(schedule, d) = e
    <3>1. /\ Instant(d, schedule.start) < Instant(g, schedule.stop)
          /\ Instant(g, schedule.stop) <= Instant(d, schedule.start) + DayLength
      BY <2>2, <2>3, <2>4, <2>5, <2>6
    <3>2. g = NextDayIf(schedule.stop <= schedule.start, d)
      BY <2>2, <2>6, <3>1, EndDay
    <3>3. QED
      BY <2>6, <3>2 DEF WindowEnd
  <2>10. Window(schedule, d, now)
    BY <2>2, <2>3, <2>4, <2>6, <2>7, <2>9 DEF Window
  <2>11. until = e /\ e > now
    BY <2>2, <2>6, <2>8, <2>9, <2>10, OpenUntil
  <2>12. Reached(z, e, f.to) /\ ~Reached(z, e - 1, f.to)
    <3>1. e <= e /\ ~ (e <= e - 1) /\ e - 1 \in Int
      BY <2>3
    <3>2. QED
      BY <2>1, <2>3, <3>1, ToSysFirst DEF e
  <2>13. QED
    BY <2>11, <2>12
<1>2. QED
  BY <1>1, TimeInvHolds, PTL

(* Away from a transition a schedule reads back as it was entered           *)
(* (NormalizeScheduleResponse undoes ConvertScheduleTimesToUtc).           *)
THEOREM ReadsBackTheorem == Spec => []ReadsBack
<1>1. TimeInv => ReadsBack
  <2> SUFFICES ASSUME TimeInv, schedule # None, wish.offset = {Offset(zone, now)},
                      Settled(zone, now)
               PROVE  NormalizeScheduleResponse(zone, now, schedule) = wish.local
    BY DEF ReadsBack
  <2> DEFINE o == Offset(zone, now)
  <2>1. now \in Int /\ zone \in Zones /\ schedule \in Schedules
    BY DEF TimeInv, TimeTypeOK
  <2>2. o \in Int /\ -o \in Int /\ -(-o) = o
    BY <2>1, ZoneParts
  <2>3. wish.local \in Schedules /\ schedule = Shifted(wish.local, -o)
    BY <2>2 DEF TimeInv, WishInv
  <2>4. NormalizeScheduleResponse(zone, now, schedule) = Shifted(schedule, o)
    BY <2>1, NormalizeSettled
  <2> HIDE DEF o
  <2>5. Shifted(Shifted(wish.local, -o), -(-o)) = wish.local
    BY <2>2, <2>3, ShiftBack
  <2>6. QED
    BY <2>2, <2>3, <2>4, <2>5
<1>2. QED
  BY <1>1, TimeInvHolds, PTL

(* Away from a transition, saving what is shown changes nothing: reading    *)
(* and writing do not drift (NormalizeScheduleResponse, then               *)
(* ConvertScheduleTimesToUtc), in every zone the subscriber moved to.      *)
THEOREM ResaveTheorem == Spec => []ResaveIsStable
<1>1. TimeInv => ResaveIsStable
  <2> SUFFICES ASSUME TimeInv, schedule # None, Settled(zone, now)
               PROVE  ConvertScheduleTimesToUtc(zone, now,
                          NormalizeScheduleResponse(zone, now, schedule)) = schedule
    BY DEF ResaveIsStable
  <2> DEFINE o == Offset(zone, now)
  <2>1. now \in Int /\ zone \in Zones /\ schedule \in Schedules
    BY DEF TimeInv, TimeTypeOK
  <2>2. o \in Int
    BY <2>1, ZoneParts
  <2>3. NormalizeScheduleResponse(zone, now, schedule) = Shifted(schedule, o)
    BY <2>1, NormalizeSettled
  <2>4. Shifted(schedule, o) \in Schedules
    BY <2>1, <2>2, ShiftedType
  <2>5. ConvertScheduleTimesToUtc(zone, now, Shifted(schedule, o))
          = Shifted(Shifted(schedule, o), -o)
    BY <2>1, <2>4, ConvertSettled
  <2>6. QED
    BY <2>1, <2>2, <2>3, <2>5, ShiftBack
<1>2. QED
  BY <1>1, TimeInvHolds, PTL

(* A timed block dated on the day it ends holds for its duration and no     *)
(* longer (ApplyClientAccessChanges dates stop_date a day late and         *)
(* IsRuleActive compensates).                                              *)
THEOREM TimedBlockTheorem == Spec => []TimedBlockLasts
<1>1. TimeInv => TimedBlockLasts
  <2> SUFFICES ASSUME TimeInv, access \notin {None, Permanent},
                      DayOf(Instant(access.startDate, access.startTime) + duration)
                          = access.startDate,
                      NEW t \in 0..(Horizon + DayLength)
               PROVE  AccessUntil(access, t) # Inactive
                        <=> t \in Instant(access.startDate, access.startTime)
                                   ..(Instant(access.startDate, access.startTime) + duration - 1)
    BY DEF TimedBlockLasts
  <2>1. duration \in Nat \ {0}
    BY TimeAssumption DEF TimeInv, AccessInv
  <2>2. PICK n \in Nat : access = Dated(n, duration)
    BY DEF TimeInv, AccessInv
  <2>3. /\ access.startDate = DayOf(n) /\ access.startTime = MinuteOf(n)
        /\ access.stopTime = MinuteOf(n + duration)
    BY <2>2 DEF Dated
  <2>4. n + duration \in Nat /\ t \in Nat
    BY <2>1, TimeAssumption
  <2>5. /\ n = Instant(access.startDate, access.startTime)
        /\ DayOf(n) \in Int /\ MinuteOf(n) \in Minutes
    BY <2>3, Calendar
  <2>6. /\ n + duration = Instant(DayOf(n), MinuteOf(n + duration))
        /\ MinuteOf(n + duration) \in Minutes
    BY <2>3, <2>4, <2>5, Calendar
  <2>7. MinuteOf(n) < MinuteOf(n + duration)
    <3>1. Instant(DayOf(n), MinuteOf(n)) < Instant(DayOf(n), MinuteOf(n + duration))
      BY <2>1, <2>3, <2>5, <2>6
    <3>2. QED
      BY <2>5, <2>6, <3>1, InstantOrder
  <2>8. AccessEnd(access) = n + duration
    <3>1. MinuteOf(n) \in Int /\ MinuteOf(n + duration) \in Int
      BY <2>5, <2>6, TimeAssumption DEF Minutes
    <3>2. QED
      BY <2>3, <2>6, <2>7, <3>1 DEF AccessEnd
  <2>9. QED
    BY <2>1, <2>4, <2>5, <2>8 DEF AccessUntil, Inactive
<1>2. QED
  BY <1>1, TimeInvHolds, PTL

---------------------------------------------------------------------------
(* The rules of a client together. *)

LEMMA EndsOf ==
    ASSUME TimeInv, NEW t \in Nat
    PROVE  /\ schedule # None => ScheduleUntil(schedule, t) \in Int
           /\ access # None => AccessUntil(access, t) \in Int
           /\ \A u \in ActiveEnds(t) : u # Inactive
           /\ ActiveEnds(t) # {} /\ Never \notin ActiveEnds(t) =>
                 /\ GetBlockedClients(t) \in ActiveEnds(t)
                 /\ \A u \in ActiveEnds(t) : u <= GetBlockedClients(t)
<1>1. schedule # None => ScheduleUntil(schedule, t) \in Int
  BY ScheduleUntilType DEF TimeInv, TimeTypeOK
<1>2. access # None => AccessUntil(access, t) \in Int
  BY AccessUntilType DEF TimeInv, TimeTypeOK, AccessRules
<1>3. \A u \in ActiveEnds(t) : u # Inactive
  BY DEF ActiveEnds
<1>4. ASSUME ActiveEnds(t) # {}, Never \notin ActiveEnds(t)
      PROVE  /\ GetBlockedClients(t) \in ActiveEnds(t)
             /\ \A u \in ActiveEnds(t) : u <= GetBlockedClients(t)
  <2> DEFINE a == IF schedule = None THEN 0 ELSE ScheduleUntil(schedule, t)
             b == IF access = None THEN 0 ELSE AccessUntil(access, t)
             S == ActiveEnds(t)
  <2>1. a \in Int /\ b \in Int
    BY <1>1, <1>2
  <2>2. S \subseteq {a, b}
    BY DEF ActiveEnds
  <2>3. GetBlockedClients(t) = Max(S)
    BY <1>4 DEF GetBlockedClients
  <2> HIDE DEF a, b, S
  <2>4. S # {}
    BY <1>4 DEF S
  <2>5. Max(S) \in S /\ \A y \in S : Max(S) >= y
    BY <2>1, <2>2, <2>4, MaxOfTwo
  <2>6. \A y \in S : y <= Max(S)
    BY <2>1, <2>2, <2>5
  <2>7. QED
    BY <2>3, <2>5, <2>6 DEF S
<1>5. QED
  BY <1>1, <1>2, <1>3, <1>4

(* A client with an active rule is shown as blocked. *)
LEMMA BlockedByRule ==
    ASSUME TimeInv, NEW t \in Nat, ActiveEnds(t) # {}
    PROVE  GetBlockedClients(t) # Inactive
<1>1. CASE Never \in ActiveEnds(t)
  BY <1>1 DEF GetBlockedClients, Never, Inactive
<1>2. CASE Never \notin ActiveEnds(t)
  BY <1>2, EndsOf
<1>3. QED
  BY <1>1, <1>2

(* blocked_until is the end of the longest active rule: the client is       *)
(* blocked until then, and each rule active now has ended by then          *)
(* (GetBlockedClients, the maximum over IsRuleActive).                     *)
THEOREM BlockedUntilTheorem == Spec => []BlockedUntilHonest
<1>1. TimeInv => BlockedUntilHonest
  <2> DEFINE u == GetBlockedClients(now)
  <2> SUFFICES ASSUME TimeInv, u \notin {Inactive, Never}
               PROVE  /\ u > now
                      /\ \A t \in now..(u - 1) : GetBlockedClients(t) # Inactive
                      /\ access # Permanent
                      /\ schedule # None => \E t \in now..u : ScheduleUntil(schedule, t) = Inactive
                      /\ access # None => \E t \in now..u : AccessUntil(access, t) = Inactive
    BY DEF BlockedUntilHonest
  <2>1. now \in Nat
    BY TimeAssumption DEF TimeInv, TimeTypeOK
  <2>2. ActiveEnds(now) # {} /\ Never \notin ActiveEnds(now)
    BY DEF GetBlockedClients
  <2>3. u \in ActiveEnds(now) /\ \A v \in ActiveEnds(now) : v <= u
    BY <2>1, <2>2, EndsOf
  <2> HIDE DEF u
  <2>4. access # Permanent
    <3>1. SUFFICES ASSUME access = Permanent PROVE Never \in ActiveEnds(now)
      BY <2>2
    <3>2. AccessUntil(access, now) = Never /\ access # None
      BY <3>1, TimeAssumption DEF AccessUntil
    <3>3. QED
      BY <3>2 DEF ActiveEnds, Never, Inactive
  <2>5. ASSUME schedule # None
        PROVE  /\ schedule \in Schedules
               /\ \A t \in Nat : ScheduleUntil(schedule, t) \in Int
               /\ ScheduleUntil(schedule, now) # Inactive
                     => ScheduleUntil(schedule, now) \in ActiveEnds(now)
    BY <2>5, EndsOf DEF TimeInv, TimeTypeOK, ActiveEnds
  <2>6. ASSUME access # None
        PROVE  /\ access \in AccessRules
               /\ \A t \in Nat : AccessUntil(access, t) \in Int
               /\ AccessUntil(access, now) # Inactive
                     => AccessUntil(access, now) \in ActiveEnds(now)
    BY <2>4, <2>6, EndsOf DEF TimeInv, TimeTypeOK, ActiveEnds, AccessRules
  <2>7. \/ schedule # None /\ u = ScheduleUntil(schedule, now) /\ u # Inactive
        \/ access # None /\ u = AccessUntil(access, now) /\ u # Inactive
    BY <2>3 DEF ActiveEnds
  <2>8. u \in Int
    BY <2>1, <2>5, <2>6, <2>7
  <2>9. u > now /\ \A t \in now..(u - 1) : GetBlockedClients(t) # Inactive
    <3>1. CASE schedule # None /\ u = ScheduleUntil(schedule, now) /\ u # Inactive
      <4>1. u > now /\ \A t \in now..(u - 1) : ScheduleUntil(schedule, t) = u
        BY <2>1, <2>5, <3>1, ScheduleRuns
      <4>2. \A t \in now..(u - 1) : u \in ActiveEnds(t) /\ t \in Nat
        BY <2>1, <2>8, <3>1, <4>1 DEF ActiveEnds
      <4>3. QED
        BY <4>1, <4>2, BlockedByRule
    <3>2. CASE access # None /\ u = AccessUntil(access, now) /\ u # Inactive
      <4>1. u > now /\ \A t \in now..(u - 1) : AccessUntil(access, t) = u
        BY <2>1, <2>4, <2>6, <3>2, AccessRuns
      <4>2. \A t \in now..(u - 1) : u \in ActiveEnds(t) /\ t \in Nat
        BY <2>1, <2>8, <3>2, <4>1 DEF ActiveEnds
      <4>3. QED
        BY <4>1, <4>2, BlockedByRule
    <3>3. QED
      BY <2>7, <3>1, <3>2
  <2>10. ASSUME schedule # None
         PROVE  \E t \in now..u : ScheduleUntil(schedule, t) = Inactive
    <3> DEFINE v == ScheduleUntil(schedule, now)
    <3>1. CASE v = Inactive
      BY <2>1, <2>8, <2>9, <3>1
    <3>2. CASE v # Inactive
      <4>1. v > now /\ v \in Int /\ ScheduleUntil(schedule, v) = Inactive
        BY <2>1, <2>5, <2>10, <3>2, ScheduleRuns
      <4>2. v <= u
        BY <2>3, <2>5, <2>10, <3>2
      <4> HIDE DEF v
      <4>3. v \in now..u
        BY <2>1, <2>8, <4>1, <4>2
      <4>4. QED
        BY <4>1, <4>3
    <3>3. QED
      BY <3>1, <3>2
  <2>11. ASSUME access # None
         PROVE  \E t \in now..u : AccessUntil(access, t) = Inactive
    <3> DEFINE v == AccessUntil(access, now)
    <3>1. CASE v = Inactive
      BY <2>1, <2>8, <2>9, <3>1
    <3>2. CASE v # Inactive
      <4>1. v > now /\ v \in Int /\ AccessUntil(access, v) = Inactive
        BY <2>1, <2>4, <2>6, <2>11, <3>2, AccessRuns
      <4>2. v <= u
        BY <2>3, <2>6, <2>11, <3>2
      <4> HIDE DEF v
      <4>3. v \in now..u
        BY <2>1, <2>8, <4>1, <4>2
      <4>4. QED
        BY <4>1, <4>3
    <3>3. QED
      BY <3>1, <3>2
  <2>12. QED
    BY <2>4, <2>9, <2>10, <2>11
<1>2. QED
  BY <1>1, TimeInvHolds, PTL
===========================================================================
