CHECK_DEADLOCK FALSE
SPECIFICATION Spec
CONSTANTS
    DayLength = 3
    Zones <- MCZones
    Weekdays <- MCWeekdays
    Durations <- MCDurations
    Horizon = 8
    None = None
    Permanent = Permanent
    MaxRequests = 1
INVARIANT TimedBlockWithinDay
