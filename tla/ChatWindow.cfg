SPECIFICATION Spec
CONSTANTS
    k1 = k1
    k2 = k2
    Client = {k1, k2}
    NoClient = NoClient
    NoChat = NoChat
    LocalId <- LocalIds
    Message <- Messages
    MaxRows = 3
    MaxPosted = 1
SYMMETRY Clients
INVARIANTS TypeOK HeaderTellsOfCurrentChat RowsAreDue StatusIsTheLastHeard
