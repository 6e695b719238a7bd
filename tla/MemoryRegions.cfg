SPECIFICATION Spec
CONSTANTS
    Addrs = {m1}
    Storage = {s1}
    m1 = m1
    s1 = s1
    t1 = t1
    t2 = t2
    Gpus = {1, 2}
    Devices = {0, 2}
    Domains = {1, 2}
    Threads = {t1, t2}
    Providers = {"efa", "verbs"}
    Tidy = TRUE
    FreshStorage = TRUE
    MaxLen = 2
    MaxEras = 2
    MaxFailures = 1
    Recvs = 2
CHECK_DEADLOCK FALSE
INVARIANTS
    HandlesUsable
    NoStaleMr
    BuffersInUse
