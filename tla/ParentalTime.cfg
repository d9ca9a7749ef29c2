CHECK_DEADLOCK FALSE
SPECIFICATION Spec
CONSTANTS
    DayLength = 3
    Zones <- MCZones
    Weekdays <- MCWeekdays
    Durations <- MCDurations
    Horizon = 26
    None = None
    Permanent = Permanent
    MaxRequests = 3
INVARIANTS
    TimeTypeOK
    BlocksAsWished
    FirstWindowExact
    ReadsBack
    ResaveIsStable
    BlockedUntilHonest
    TimedBlockLasts
