SPECIFICATION BusSpec
CONSTANTS
    Nodes <- Named2
    Spi <- Parts
    MaxDev = 2
    Transfers = 2
    UsbFaults = 3
    Kinds = {"refused", "lost", "late"}
INVARIANTS
    MessagesWhole
    HandedBack
PROPERTIES
    BridgeStops
