SPECIFICATION FairSpec
CONSTANTS
    Room = {r1}
    None = None
    Scenarios <- Checked
INVARIANTS
    OrderedNothingLost
    LoadedRedacted
PROPERTIES
    NotForgotten
    CrawlFinishes
CHECK_DEADLOCK FALSE
