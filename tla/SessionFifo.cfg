SPECIFICATION FairFifoSpec
CONSTANTS
    Alice = Alice
    Bob = Bob
    NoSession = NoSession
    ByteBase = 2
    BundleOneTime <- BobsOneTimeKey
    MaxSend = 17
    MaxReceive = 0
INVARIANTS TypeOK HandshakeAgrees MessageKeysUsedOnce
PROPERTIES ImplementsReliableChannel EventualDelivery
CHECK_DEADLOCK FALSE
