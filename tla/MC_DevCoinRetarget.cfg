\* DevCoin after height 10800: one-day target span, ten-minute blocks, so a
\* window of 144 blocks, 143 of them sorted and trimmed.  Time is in minutes.
CONSTANTS
    BlockSpan = 10
    Day = 1440
    Height = 10801
    Target0 = 1440000
    Offsets <- MCOffsets

SPECIFICATION Spec

INVARIANT OutlierBounded
