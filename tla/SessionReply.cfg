SPECIFICATION FifoSpec
CONSTANTS
    Alice = Alice
    Bob = Bob
    NoSession = NoSession
    ByteBase = 2
    BundleOneTime <- BobsOneTimeKey
    MaxSend = 2
    MaxReceive = 0
INVARIANTS ReplyTriggersRatchet
CHECK_DEADLOCK FALSE
