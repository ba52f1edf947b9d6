\* The same window with every block exactly on schedule.
CONSTANTS
    BlockSpan = 10
    Day = 1440
    Height = 10801
    Target0 = 1440000
    Offsets = {0}

SPECIFICATION Spec

INVARIANT OnScheduleKeepsTarget
