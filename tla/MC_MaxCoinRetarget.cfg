\* Block spacings of 30 s to 10 min, heights on both sides of the switch at 199
CONSTANTS
    BlockSpans = {30, 60, 120, 600}
    Heights = {198, 199, 200}
SPECIFICATION Spec
INVARIANT WindowBounded
