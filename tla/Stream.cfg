\* The table of Subscribers with one bridge among three clients for two places.
SPECIFICATION StreamSpec
CONSTANTS
    Clients = {c1, c2, c3}
    Bridge = c1
    MaxClients = 2
    Room = 3
    Payload = 2
    Stall = 2
INVARIANTS
    TableIsOpenSockets
    EachOnItsOwn
    Aligned
PROPERTIES
    DeliveredFirst
