SPECIFICATION FairSpec
CONSTANTS
    IoThreads = {w1, w2}
    Clients = {c1, c2, c3}
    maxSessionCount = 2
    MaxFailures = 1
    Main = Main
    NoClient = NoClient
INVARIANTS EventInOnePlace SlotsAccounted
PROPERTIES AdmissionSpec ClientsAnswered
CHECK_DEADLOCK FALSE
