CONSTANTS
    Conns = {c1, c2}
    Accounts = {acc1, acc2, rel}
    Relays = {rel}
    NoAccount = none
    Start = acc1
    Reserve = {}
    Models = {"plain", "provider"}
    Attempts = 2
    Retries = 1
    ProbeFaults = FALSE
    MaxTurns = 1
    MaxRefusals = 2
    MaxSwitches = 1
SPECIFICATION FairSpec
INVARIANTS TypeOK ToolCallIsNotCut OneMarkPerRefusal
PROPERTIES HandshakeEnds
