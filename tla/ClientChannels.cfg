\* Two changes of the backend, two channels, two faults, two calls of connect().
CONSTANTS
    MaxChanges = 2
    MaxOpens = 2
    MaxFaults = 2
    MaxConnects = 2
    SameTick = FALSE
SPECIFICATION Spec
INVARIANT ClientChannelsInv
PROPERTY WaiterServed
PROPERTY ChannelsEnd
CHECK_DEADLOCK FALSE
