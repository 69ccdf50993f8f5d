\* Two threads on a disk that may refuse any write.
CONSTANTS
    Producers = {vcpu, net}
    NoOne = NoOne
    Msgs <- MCMsgs
    MaxSeq = 2
    DiskErrors = TRUE
SPECIFICATION Spec
INVARIANTS
    NoInterleaving
    ProducerOrder
CHECK_DEADLOCK FALSE
