SPECIFICATION FaultySpec
CONSTANTS
    Alice = Alice
    Bob = Bob
    NoSession = NoSession
    ByteBase = 2
    BundleOneTime <- NoOneTimeKey
    MaxSend = 3
    MaxReceive = 4
INVARIANTS NeverRatchets
PROPERTIES ImplementsLossyChannel FailureIsFinal
CHECK_DEADLOCK FALSE
