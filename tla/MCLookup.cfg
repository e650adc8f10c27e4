\* Every zone of four names and an honest server, or one that sends any three records.
\* Then DNS comes back while lookups of two names, ticker and reload compete.
SPECIFICATION LookupSpec
CONSTANTS
    Clients = {p1}
    Ticker = Ticker
    Reloader = Reloader
    Free = Free
    Hosts = {h1, h2}
    Servers = {sA, sB}
    dA = dA
    dB = dB
    dM = dM
    sA = sA
    sB = sB
    NoConfig = NoConfig
    NoDiscovery = NoDiscovery
    Discoveries <- MCDiscoveries
    Configs <- MCSizes
    ManualOf <- MCManualOf
    NetOf <- MCNetOutage
    Route <- MCRoute
    MaxDisturbances = 1
    MaxContextEnds = 1
    Names = {a, b, c, d}
    Host = a
    NoName = NoName
    Limit = 2
    MaxTtl = 1
    Worlds = {"honest", "lying"}
INVARIANTS CacheBounded Exact TtlBounded Linked
PROPERTIES LookupReturns Converges Terminates
