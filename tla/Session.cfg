\* Two workers, one client, the four holders, servers that fail in every way.
SPECIFICATION FairSpec
CONSTANTS
    w1 = w1
    w2 = w2
    c1 = c1
    x = x
    y = y
    p = p
    NoValue = NoValue
    NoId = NoId
    Workers <- TwoWorkers
    Clients <- OneClient
    Vars <- OneVar
    Texts <- OneText
    Values <- CompoundValues
    Holders = {"internal", "redis", "memcached", "jwt"}
    Ttl = TRUE
    Attempts = 2
    Faults = {"no connection", "no reply", "error reply"}
    Ids = {1, 2, 3}
INVARIANTS
    TypeOK
    AnswerMeansSaved
    CookieStored
PROPERTIES
    Answered
