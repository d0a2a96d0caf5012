SPECIFICATION OwnerFairSpec
CONSTANTS
    Procs = {tui, shell}
    Tuis = {tui}
    Senders = {}
    Taken = {shell}
    NoProc = NoProc
    MaxStarts = 2
    MaxKills = 1
PROPERTIES OpenReturns
CHECK_DEADLOCK FALSE
