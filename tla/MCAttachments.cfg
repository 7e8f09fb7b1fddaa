SPECIFICATION Spec
CONSTANTS
    Photos = {p1, p2}
    Workers = {w1, w2}
    Temps = {t1, t2}
    Commits = {c1, c2}
    MaxCount = 1
    MaxTries = 2
    MaxDefers = 1
    Faults = {"lost", "storage", "server", "phone", "reopen", "gate"}
    MaxFaults = 1
    NoOne = NoOne
SYMMETRY Renaming
INVARIANTS Inv LiveHasBytes
PROPERTIES ClaimProtects OriginalGoesLast
CHECK_DEADLOCK FALSE
