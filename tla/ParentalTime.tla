--------------------------- MODULE ParentalTime ---------------------------
(***************************************************************************)
(* Time in parental control.  A schedule is entered in the local time of   *)
(* the subscriber, kept in UTC by the parental-control service, converted  *)
(* back when it is read, and evaluated in UTC when the topology is shown.  *)
(* A timed client block is checked against midnight in one pass of a       *)
(* configure request and dated in another, with other calls in between.    *)
(*                                                                         *)
(* An instant is a number of minutes; a day has DayLength of them and a    *)
(* week seven days.  A time zone is an offset that changes once, at the    *)
(* instant `at` (daylight saving); before = after gives a fixed zone.  No  *)
(* zone is a whole day or more away from UTC.                              *)
(* The minute is the only unit: seconds are left out.                      *)
(***************************************************************************)
EXTENDS Integers, FiniteSets, FiniteSetsExt

CONSTANTS
    DayLength,   \* minutes in a day
    Zones,       \* the zones a location may be given: [before, after, at]
    Weekdays,    \* the sets of weekdays a request may name
    Durations,   \* the block durations a request may ask for
    Horizon,     \* bound: the last instant
    MaxRequests, \* bound: the requests of a behaviour
    None,        \* nothing there
    Permanent    \* the client-access rule without an end

ASSUME TimeAssumption ==
    /\ DayLength \in Nat \ {0}
    /\ Horizon \in Nat /\ MaxRequests \in Nat
    /\ Zones \subseteq [before : (1 - DayLength)..(DayLength - 1),
                        after : (1 - DayLength)..(DayLength - 1), at : Nat]
    /\ Weekdays \subseteq ((SUBSET (0..6)) \ {{}})
    /\ Durations \subseteq (Nat \ {0})
    /\ None # Permanent

VARIABLES
    now,       \* the clock of the portal
    zone,      \* the zone of the location linked to the subscriber's venue
    resolved,  \* the zone a schedule request in progress has read, or None
    schedule,  \* the schedule the service keeps, in UTC, or None
    wish,      \* ghost: what the subscriber last asked for, or None
    checked,   \* the duration that passed the midnight check, or None
    access,    \* the client-access rule the service keeps, or None
    duration,  \* ghost: the duration asked for with access
    requests   \* requests started

vars == <<now, zone, resolved, schedule, wish, checked, access, duration, requests>>

Minutes == 0..(DayLength - 1)

---------------------------------------------------------------------------
(* Calendar and zones: the date library. *)

DayOf(t) == t \div DayLength
MinuteOf(t) == t % DayLength
Instant(day, minute) == day * DayLength + minute

Offset(z, t) == IF t < z.at THEN z.before ELSE z.after
Local(z, t) == t + Offset(z, t)

(* to_sys(local, choose::earliest): the first instant shown as this local  *)
(* time, and the transition itself when the clocks skip it.                *)
ToSys(z, local) ==
    LET shown == {t \in {local - z.before, local - z.after} : Local(z, t) = local}
    IN  IF shown = {} THEN z.at ELSE Min(shown)

(* No transition is near enough to matter to a conversion done at t. *)
Settled(z, t) == z.before = z.after \/ z.at \notin (t - 3 * DayLength)..(t + 3 * DayLength)

---------------------------------------------------------------------------
(* The conversions of a schedule [start, stop, days]. *)

(* Mutant: no wrap at the end of the week. *)
ShiftWeekdaysNoWrap(days, shift) == {d + shift : d \in days}

(* Mutant: clamped at the ends of the week. *)
ShiftWeekdaysClamped(days, shift) ==
    {IF d + shift > 6 THEN 6 ELSE IF d + shift < 0 THEN 0 ELSE d + shift : d \in days}

ShiftWeekdays(days, shift) == {(d + shift) % 7 : d \in days}

NextDayIf(overnight, day) == IF overnight THEN day + 1 ELSE day

(* The UTC instants at which a local schedule starts and stops today. *)
SysStart(z, t, s) == ToSys(z, Instant(DayOf(Local(z, t)), s.start))
SysStop(z, t, s) ==
    ToSys(z, Instant(NextDayIf(s.stop <= s.start, DayOf(Local(z, t))), s.stop))

(* Mutant: the weekdays stay local. *)
ConvertScheduleTimesToUtcKeepingDays(z, t, s) ==
    [start |-> MinuteOf(SysStart(z, t, s)), stop |-> MinuteOf(SysStop(z, t, s)), days |-> s.days]

(* Mutant: both ends with the offset of the request. *)
ConvertScheduleTimesToUtcOneOffset(z, t, s) ==
    LET begin == s.start - Offset(z, t) IN
    [start |-> MinuteOf(begin), stop |-> MinuteOf(s.stop - Offset(z, t)),
     days |-> ShiftWeekdays(s.days, DayOf(begin))]

ConvertScheduleTimesToUtc(z, t, s) ==
    LET begin == SysStart(z, t, s) IN
    [start |-> MinuteOf(begin),
     stop  |-> MinuteOf(SysStop(z, t, s)),
     days  |-> ShiftWeekdays(s.days, DayOf(begin) - DayOf(Local(z, t)))]

(* Mutant: the weekdays follow the stop time. *)
NormalizeScheduleResponseShiftingStop(z, t, s) ==
    LET begin == Local(z, Instant(DayOf(t), s.start))
        end   == Local(z, Instant(NextDayIf(s.stop <= s.start, DayOf(t)), s.stop))
    IN  [start |-> MinuteOf(begin), stop |-> MinuteOf(end),
         days |-> ShiftWeekdays(s.days, DayOf(end) - DayOf(t))]

NormalizeScheduleResponse(z, t, s) ==
    LET localDay  == DayOf(Local(z, t))
        tentative == DayOf(ToSys(z, Instant(localDay, 0)))
        utcDay    == tentative + localDay - DayOf(Local(z, Instant(tentative, s.start)))
        begin     == Local(z, Instant(utcDay, s.start))
        end       == Local(z, Instant(NextDayIf(s.stop <= s.start, utcDay), s.stop))
    IN  [start |-> MinuteOf(begin),
         stop  |-> MinuteOf(end),
         days  |-> ShiftWeekdays(s.days, DayOf(begin) - utcDay)]

---------------------------------------------------------------------------
(* Rules as the topology evaluates them.  Until is the instant at which a   *)
(* rule active at t ends, Never for a permanent one, Inactive otherwise.   *)

Inactive == 0
Never == -1

(* A weekly rule: days are the UTC weekdays on which a window starts. *)
ScheduleUntil(s, t) ==
    LET today     == DayOf(t) % 7
        yesterday == (today + 6) % 7
        minute    == MinuteOf(t)
    IN  IF s.start < s.stop
        THEN IF today \in s.days /\ s.start <= minute /\ minute < s.stop
             THEN Instant(DayOf(t), s.stop) ELSE Inactive
        ELSE IF s.start = s.stop THEN Inactive
        ELSE IF today \in s.days /\ s.start <= minute THEN Instant(DayOf(t) + 1, s.stop)
        ELSE IF yesterday \in s.days /\ minute < s.stop THEN Instant(DayOf(t), s.stop)
        ELSE Inactive

(* Mutant: the stop date is taken as it is. *)
AccessEndAsDated(a) == Instant(a.stopDate, a.stopTime)

(* When a timed rule ends: stop_date is dated a day late by the request, so *)
(* the start date counts unless the times wrap around.                     *)
AccessEnd(a) ==
    Instant(IF a.stopTime >= a.startTime THEN a.startDate ELSE a.stopDate, a.stopTime)

AccessUntil(a, t) ==
    IF a = Permanent THEN Never
    ELSE IF t < Instant(a.startDate, a.startTime) \/ t >= AccessEnd(a) THEN Inactive
    ELSE AccessEnd(a)

(* The ends of the rules on the client that are active at t. *)
ActiveEnds(t) ==
    {u \in (IF schedule = None THEN {} ELSE {ScheduleUntil(schedule, t)})
           \cup (IF access = None THEN {} ELSE {AccessUntil(access, t)}) : u # Inactive}

(* Mutant: the first rule to end wins. *)
GetBlockedClientsShortest(t) ==
    LET ends == ActiveEnds(t)
    IN  IF ends = {} THEN Inactive ELSE IF Never \in ends THEN Never ELSE Min(ends)

(* blocked_until of the client, Inactive when it is not blocked. *)
GetBlockedClients(t) ==
    LET ends == ActiveEnds(t)
    IN  IF ends = {} THEN Inactive ELSE IF Never \in ends THEN Never ELSE Max(ends)

---------------------------------------------------------------------------
Init ==
    /\ now = 0
    /\ zone \in Zones
    /\ resolved = None /\ schedule = None /\ wish = None
    /\ checked = None /\ access = None /\ duration = None
    /\ requests = 0

Start == requests < MaxRequests /\ requests' = requests + 1

Tick ==
    /\ now < Horizon
    /\ now' = now + 1
    /\ UNCHANGED <<zone, resolved, schedule, wish, checked, access, duration, requests>>

(* The subscriber moves: PUT of the location. *)
PutLocation ==
    /\ Start
    /\ zone' \in Zones \ {zone}
    /\ UNCHANGED <<now, resolved, schedule, wish, checked, access, duration>>

(* POST or PUT of a schedule, as far as reading the zone. *)
ResolveSubscriberTimezone ==
    /\ resolved = None
    /\ Start
    /\ resolved' = zone
    /\ UNCHANGED <<now, zone, schedule, wish, checked, access, duration>>

(* The bodies ParseAndValidateScheduleRequest lets through. *)
ScheduleRequests ==
    {s \in [start : Minutes, stop : Minutes, days : Weekdays] : s.start # s.stop}

(* Ghost: the offset of the conversion, when both ends existed and had it. *)
PlainOffset(z, t, s) ==
    {o \in {z.before, z.after} :
        /\ Local(z, SysStart(z, t, s)) = Instant(DayOf(Local(z, t)), s.start)
        /\ o = Offset(z, SysStart(z, t, s))
        /\ o = Offset(z, SysStop(z, t, s))}

(* Ghost: the window of the day of the request, by the subscriber's clock,  *)
(* or None when that is not one of the weekdays.                           *)
FirstWindow(z, t, s) ==
    LET day == DayOf(Local(z, t)) IN
    IF day % 7 \in s.days
    THEN [zone |-> z, from |-> Instant(day, s.start),
          to |-> Instant(NextDayIf(s.stop <= s.start, day), s.stop)]
    ELSE None

(* The rest of it: the validated request is converted and kept. *)
SaveSchedule ==
    /\ resolved # None
    /\ resolved' = None
    /\ \E s \in ScheduleRequests :
          /\ schedule' = ConvertScheduleTimesToUtc(resolved, now, s)
          /\ wish' = [local |-> s, offset |-> PlainOffset(resolved, now, s),
                      first |-> FirstWindow(resolved, now, s)]
    /\ UNCHANGED <<now, zone, checked, access, duration, requests>>

(* Resolving, converting or the service fails: the request ends in an error. *)
SaveScheduleFails ==
    /\ resolved # None
    /\ resolved' = None
    /\ UNCHANGED <<now, zone, schedule, wish, checked, access, duration, requests>>

DeleteSchedule ==
    /\ Start
    /\ schedule # None
    /\ schedule' = None /\ wish' = None
    /\ UNCHANGED <<now, zone, resolved, checked, access, duration>>

(* Pass 1 of a timed deny: it must end on the day it is checked. *)
CheckBlock ==
    /\ checked = None
    /\ Start
    /\ checked' \in {d \in Durations : DayOf(now + d) = DayOf(now)}
    /\ UNCHANGED <<now, zone, resolved, schedule, wish, access, duration>>

(* Pass 2: the rule is dated from the clock at the time of the call. *)
CreateBlock ==
    /\ checked # None
    /\ checked' = None
    /\ access' = [startDate |-> DayOf(now), startTime |-> MinuteOf(now),
                  stopDate |-> DayOf(now + checked) + 1, stopTime |-> MinuteOf(now + checked)]
    /\ duration' = checked
    /\ UNCHANGED <<now, zone, resolved, schedule, wish, requests>>

CreateBlockFails ==
    /\ checked # None
    /\ checked' = None
    /\ UNCHANGED <<now, zone, resolved, schedule, wish, access, duration, requests>>

BlockForever ==
    /\ Start
    /\ access' = Permanent /\ duration' = None
    /\ UNCHANGED <<now, zone, resolved, schedule, wish, checked>>

AllowClient ==
    /\ Start
    /\ access # None
    /\ access' = None /\ duration' = None
    /\ UNCHANGED <<now, zone, resolved, schedule, wish, checked>>

Next ==
    \/ Tick \/ PutLocation
    \/ ResolveSubscriberTimezone \/ SaveSchedule \/ SaveScheduleFails \/ DeleteSchedule
    \/ CheckBlock \/ CreateBlock \/ CreateBlockFails \/ BlockForever \/ AllowClient

Spec == Init /\ [][Next]_vars

---------------------------------------------------------------------------
Schedules == [start : Minutes, stop : Minutes, days : (SUBSET (0..6)) \ {{}}]

(* Types.  A stored schedule keeps at least one weekday, each in 0..6, and *)
(* minutes of the day, whatever the zone shifted them by (ShiftWeekdays).  *)
TimeTypeOK ==
    /\ now \in 0..Horizon
    /\ zone \in Zones
    /\ resolved \in Zones \cup {None}
    /\ schedule \in Schedules \cup {None}
    /\ wish \in [local : Schedules, offset : SUBSET Int,
                 first : [zone : Zones, from : Int, to : Int] \cup {None}] \cup {None}
    /\ checked \in Durations \cup {None}
    /\ access \in {None, Permanent} \cup
                  [startDate : Nat, startTime : Minutes, stopDate : Nat, stopTime : Minutes]
    /\ duration \in Durations \cup {None}
    /\ requests \in 0..MaxRequests

(* The local reference: at local time l the last window of s to open, on   *)
(* its own local weekday, has not closed.                                  *)
InLocalWindow(s, l) ==
    \E day \in {DayOf(l) - 1, DayOf(l)} :
        /\ day % 7 \in s.days
        /\ Instant(day, s.start) <= l
        /\ l < Instant(NextDayIf(s.stop <= s.start, day), s.stop)

(* Conversion, weekday shift and evaluation agree: as long as the offset is *)
(* the one the schedule was converted with, the topology shows the client  *)
(* blocked exactly when the subscriber's own clock and weekday are inside  *)
(* the window that was asked for (ConvertScheduleTimesToUtc, IsRuleActive). *)
BlocksAsWished ==
    schedule # None /\ wish.offset = {Offset(zone, now)}
        => (ScheduleUntil(schedule, now) # Inactive <=> InLocalWindow(wish.local, Local(zone, now)))

(* At t the subscriber's clock shows the local time l, or has shown it or a *)
(* later one already.                                                      *)
Reached(z, t, l) == \E u \in (t - 2 * DayLength)..t : Local(z, u) >= l

(* On the day a schedule is saved the client is blocked from the moment the *)
(* subscriber's clock reaches the start until the moment it reaches the    *)
(* stop, and blocked_until says so, even if the clock is put forward or    *)
(* back on the way, by so little that the window stays below a whole day   *)
(* (to_sys of both ends in ConvertScheduleTimesToUtc).                     *)
FirstWindowExact ==
    schedule # None /\ wish.first # None =>
        LET z     == wish.first.zone
            until == ScheduleUntil(schedule, now)
        IN  /\ wish.first.to - wish.first.from + z.before - z.after < DayLength
            /\ Reached(z, now, wish.first.from) /\ ~Reached(z, now, wish.first.to)
            => until > now /\ Reached(z, until, wish.first.to) /\ ~Reached(z, until - 1, wish.first.to)

(* Away from a transition, a schedule reads back as it was entered, in     *)
(* every zone with the offset it was converted with, on every later day    *)
(* (NormalizeScheduleResponse).                                            *)
ReadsBack ==
    schedule # None /\ wish.offset = {Offset(zone, now)} /\ Settled(zone, now)
        => NormalizeScheduleResponse(zone, now, schedule) = wish.local

(* Away from a transition, saving a schedule as it is shown changes        *)
(* nothing in the service, even when the zone or its offset changed since  *)
(* it was entered: reading and writing do not drift                        *)
(* (NormalizeScheduleResponse, then ConvertScheduleTimesToUtc).            *)
ResaveIsStable ==
    schedule # None /\ schedule.start # schedule.stop /\ Settled(zone, now)
        => ConvertScheduleTimesToUtc(zone, now, NormalizeScheduleResponse(zone, now, schedule))
               = schedule

(* blocked_until is the end of the longest active rule: the client stays   *)
(* blocked until then and each rule active now has ended by then           *)
(* (GetBlockedClients, the maximum over IsRuleActive).                     *)
BlockedUntilHonest ==
    LET until == GetBlockedClients(now) IN
    until \notin {Inactive, Never} =>
        /\ until > now
        /\ \A t \in now..(until - 1) : GetBlockedClients(t) # Inactive
        /\ access # Permanent
        /\ schedule # None => \E t \in now..until : ScheduleUntil(schedule, t) = Inactive
        /\ access # None => \E t \in now..until : AccessUntil(access, t) = Inactive

(* A timed block dated on the day it ends holds for its duration and no    *)
(* longer, although its stop_date is a day late (ApplyClientAccessChanges  *)
(* and IsRuleActive compensate for each other).                            *)
TimedBlockLasts ==
    access \notin {None, Permanent} =>
        LET begin == Instant(access.startDate, access.startTime) IN
        DayOf(begin + duration) = access.startDate =>
            \A t \in 0..(Horizon + DayLength) :
                AccessUntil(access, t) # Inactive <=> t \in begin..(begin + duration - 1)

(* What the API documentation says of a timed block: its end does not cross *)
(* midnight (openapi, ClientAccess duration).                              *)
TimedBlockWithinDay ==
    access \notin {None, Permanent} => DayOf(AccessEnd(access)) = access.startDate
===========================================================================
