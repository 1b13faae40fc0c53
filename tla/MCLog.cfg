SPECIFICATION FairSpec
CONSTANTS
    Threads = {t1, t2, t3}
    Free = free
    Levels = {0, 1}
    Streams = {"stderr", "file"}
    Stderr = "stderr"
    MaxCalls = 3
INVARIANTS  SettingsStick NoInterleaving
PROPERTY CallsReturn
