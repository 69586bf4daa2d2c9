SPECIFICATION Spec
CONSTANTS
    NoValue = NoValue
    Child = {p, q}
    NoChild = NoChild
    MaxFaults = 2
INVARIANTS TypeOK MountedWhenTold PassMeansPassed GuestGetsThisRun
PROPERTIES OwnersDeviceStays HostReturns
CHECK_DEADLOCK FALSE
