\* Up to three interfaces, two clients and two SIGINTs.
CONSTANTS
    Lists <- AllLists
    MaxClients = 2
    MaxSignals = 2
SPECIFICATION Spec
INVARIANTS
    TypeOK
    InterruptQueued
    HandOff
    BoundToEth
    CleanEnd
