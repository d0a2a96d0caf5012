SPECIFICATION SerialSpec
CONSTANTS
    Clients = {c1}
    SubCap = 1
    SockCap = 1
    MaxChunks = 2
    MaxOpens = 2
    Procs = {tui, shell, send}
    Tuis = {tui}
    Senders = {send}
    Taken = {shell}
    NoProc = NoProc
    MaxStarts = 5
    MaxKills = 1
INVARIANTS SessionInv SoleOwner
PROPERTIES CloseReturns
CHECK_DEADLOCK FALSE
