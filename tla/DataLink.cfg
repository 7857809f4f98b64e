SPECIFICATION FairSpec
CONSTANTS
    a = a
    b = b
    None = None
    Stations = {a, b}
    ModeNames = {"call", "talk", "hold", "rej", "peer", "cut", "copy", "srej", "xid", "v22", "busy"}
    Modes <- ChosenModes
    Mod8 = 3
    Mod128 = 4
    SrejCap = 2
    ChannelCap = 2
INVARIANTS TypeOK NoSilentLoss SduIntact ReadAsSent SrejAgreed WindowKept
PROPERTIES ImplementsService WaitingEnds DataSettles
CHECK_DEADLOCK FALSE
