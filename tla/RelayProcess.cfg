CONSTANT Programs = {"start", "cleanup", "requeue", "dry-run", "embedded", "wal"}
SPECIFICATION FairSpec
INVARIANTS
    Inv
    AtMostOneMoreTick
    KeepsPolling
    CleanExit
PROPERTY StopHonoured
