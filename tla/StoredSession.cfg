SPECIFICATION StoredSpec
CONSTANTS
    Alice = Alice
    Bob = Bob
    NoSession = NoSession
    ByteBase = 2
    BundleOneTime <- NoOneTimeKey
    MaxSend = 2
    MaxReceive = 0
    MaxKeys = 2
    OneTimeUse = {FALSE}
    Keeper = {Alice}
    MaxRestarts = 1
INVARIANTS RatchetedIsNeverUnderstood SavedKeysSealOnce
PROPERTIES RatchetedIsDeaf
CHECK_DEADLOCK FALSE
