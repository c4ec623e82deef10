SPECIFICATION FairSpec
CONSTANTS
    Decisions = {d1, d2, d3, d4, d5}
    BufferMax = 3
    PageMax = 3
    MaxInterrupted = 2
INVARIANTS TypeOK CaughtUp ShownOnce
PROPERTY ShownInTheEnd
CHECK_DEADLOCK FALSE
