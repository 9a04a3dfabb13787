\* Two workers race for two documents under every configuration file: with and
\* without the cache, with a broken, missing or edited configuration.
SPECIFICATION Spec
CONSTANTS
    w1 = w1
    w2 = w2
    u1 = u1
    u2 = u2
    NoWorker = NoWorker
    Workers <- MCWorkers
    Urls <- MCUrls
    Files <- MCFiles
    MaxApps = 2
INVARIANTS
    IInv
    SameInstance
    NoParseWasted
PROPERTIES
    CacheGrows
    LockReleased
    GetAppAtomic
