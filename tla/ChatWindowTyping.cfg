SPECIFICATION FairSpec
CONSTANTS
    k1 = k1
    k2 = k2
    Client = {k1}
    NoClient = NoClient
    NoChat = NoChat
    LocalId <- LocalIds
    Message <- Messages
    MaxRows = 0
    MaxPosted = 0
PROPERTIES TypingStops
