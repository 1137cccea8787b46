SPECIFICATION FairSpec
CONSTANTS
    a = a
    b = b
    r1 = r1
    r2 = r2
    None = None
    Line <- Lines
    Revision <- Revisions
    Links <- LinksOf
    View = {1, 2}
    Ticking = {1}
    Source <- Sources
    Prior <- First
    MaxTick = 1
    MaxEvents = 4
    MaxEpoch = 1
    MaxNotices = 2
INVARIANTS
    TypeOK
    NoNoticeLost
    CurrentIsRecomputed
PROPERTIES
    HealthyViewsCatchUp
CHECK_DEADLOCK FALSE
