\* Two threads, three appends each, a kill and a reopen at any moment.
CONSTANTS
    Producers = {vcpu, net}
    NoOne = NoOne
    Msgs <- MCMsgs
    MaxSeq = 3
    DiskErrors = FALSE

SPECIFICATION FairSpec
INVARIANTS
    TypeOK
    NoInterleaving
    NoTornRecord
    ReturnedIsDurable
    ProducerOrder
PROPERTIES
    ImplementsAtomicLog
    LockIsReleased
CHECK_DEADLOCK FALSE
