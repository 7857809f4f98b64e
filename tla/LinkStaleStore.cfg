SPECIFICATION Spec
CONSTANTS
    a = a
    b = b
    None = None
    Stations = {a, b}
    ModeNames = {"stale"}
    Modes <- ChosenModes
    Mod8 = 4
    Mod128 = 4
    SrejCap = 2
    ChannelCap = 2
PROPERTIES ImplementsService
CHECK_DEADLOCK FALSE
