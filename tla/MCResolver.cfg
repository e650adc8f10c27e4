\* Two lookups, the ticker and a reload or an early end of a context race; the DNS
\* setup changes once.
SPECIFICATION Spec
CONSTANTS
    Clients = {p1, p2}
    Ticker = Ticker
    Reloader = Reloader
    Free = Free
    Hosts = {h1}
    Servers = {sA, sB}
    dA = dA
    dB = dB
    dM = dM
    sA = sA
    sB = sB
    NoConfig = NoConfig
    NoDiscovery = NoDiscovery
    Discoveries <- MCDiscoveries
    Configs <- MCMixed
    ManualOf <- MCManualOf
    NetOf <- MCNetChange
    Route <- MCRoute
    MaxDisturbances = 1
    MaxContextEnds = 1
SYMMETRY Symmetry
CONSTRAINT EndsEarly
INVARIANTS CacheCurrent ReloadSettles AnswerNotOlder
PROPERTIES DiscoveryForward
