\* Two variables: what a request keeps of those that its script leaves alone.
SPECIFICATION Spec
CONSTANTS
    w1 = w1
    w2 = w2
    c1 = c1
    x = x
    y = y
    p = p
    NoValue = NoValue
    NoId = NoId
    Workers <- TwoWorkers
    Clients <- OneClient
    Vars <- TwoVars
    Texts <- OneText
    Values <- CompoundValues
    Holders = {"internal", "redis", "memcached", "jwt"}
    Ttl = TRUE
    Attempts = 2
    Faults = {"no connection", "no reply", "error reply"}
    Ids = {1, 2, 3, 4}
PROPERTIES
    LoadedSessionKept
SYMMETRY Symmetry
