SPECIFICATION PartSpec
CONSTANTS
    Alarm = {a1, a2}
    Head = head
    Delays = {0, 1}
    Returns = {0, 1, 2}
    MayStop <- OnlyItself
    MaxTicks = 4
    US = 6
    Rates = {1, 2, 3, 6}
    Seconds = {0, 1, 4}
    Zones = {0, 60}
    LastTick = 14
    IntMax = 31
    Word = 64
    PerMicro = 5
    Requests = {0, 1, 5, 6, 7, 11, 12, 13, 23, 31, 42, 62, 63}
    MaxFds = 5
    Null = null
    Uart = uart
    OpenFlags = {{"WRONLY"}, {"RDWR", "NONBLOCK", "EXCL", "DEV"}}
    NIrq = 2
    Sizes = {0, 3, 4}
    HeapStart = 2
    HeapLimit = 12
INVARIANTS
    TypesOK
    LinksInverse
    TimeKept
    FilesKept
    InterruptsSafe
PROPERTIES
    CallbacksRight
    LocksHold
CHECK_DEADLOCK FALSE
