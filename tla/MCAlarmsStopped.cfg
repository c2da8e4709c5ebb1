SPECIFICATION Spec
CONSTANTS
    Alarm = {a1, a2}
    Head = head
    Delays = {0, 1}
    Returns = {0, 1, 2}
    MayStop <- AnyAlarm
    MaxTicks = 4
PROPERTY
    CallsOnlyRegistered
CHECK_DEADLOCK FALSE
