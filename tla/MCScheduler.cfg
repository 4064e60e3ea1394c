CONSTANTS
    Tasks = {t1}
    Callers = {c1}
    Schedules = {daily, hourly}
    Jobs = {j1, j2}
    None = none
SPECIFICATION FairSpec
INVARIANTS TypeOK SchedulesMatchRows RestartsBringServersBack
PROPERTY ExecutionsEnd
CHECK_DEADLOCK FALSE
