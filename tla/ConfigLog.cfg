\* A configuration file that is missing, or edited before a SIGHUP.
SPECIFICATION Spec
CONSTANTS
    w1 = w1
    w2 = w2
    u1 = u1
    u2 = u2
    NoWorker = NoWorker
    Workers <- MCWorkers
    Urls <- OneUrl
    Files <- MCFiles
    MaxApps = 2
PROPERTIES
    ConfigAsLogged
