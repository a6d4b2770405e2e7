SPECIFICATION FairSpec
CONSTANTS
    s1 = s1
    s2 = s2
    p = p
    b = b
    e1 = e1
    e2 = e2
    e3 = e3
    NoToken = NoToken
    Scrape <- MCScrape
    Object <- MCObject
    Primary <- p
    Session <- MCSession
    Of <- MCOf
    Fault <- FaultKind
INVARIANTS
    TypeOK
    NoSessionLeft
    ExitCodeTells
PROPERTIES
    EndsWhenAsked
