SPECIFICATION FairSpec
CONSTANTS
    s1 = s1
    s2 = s2
    n1 = n1
    f1 = f1
    p1 = p1
    p2 = p2
    NoScrape = NoScrape
    Scrapes <- MCScrapes
    Node <- MCNode
    Timeline <- MCTimeline
    Local <- MCLocal
    Object <- MCObject
    Registered <- MCRegistered
    Workers = 2
INVARIANTS
    TypeOK
    WorkersInside
    UpIsHonest
PROPERTIES
    BackupsMoveOn
    EveryScrapeEnds
