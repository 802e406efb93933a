SPECIFICATION FairSpec
CONSTANTS
    Threads = {t1, t2, t3}
    Errors = {"lost", "other"}
    ConnectErrors = {"lost", "other"}
    DiscErrors = {"lost", "other"}
    MaxBuf = 3
    NoThread = NoThread
CHECK_DEADLOCK FALSE
INVARIANTS OneSendInFlight OwnedWhilePending DisconnectOnce NoStranded ReceiveAlive
PROPERTIES ConnectionSpec EndNotified BuffersLeave
