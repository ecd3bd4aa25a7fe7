\* Two messages fit the kernel's queue, so that a third one is queued in the
\* object; one message of the peer and its end are read apart or together.
CONSTANTS
    SendBuf = 2
    MaxIn = 2
    MaxOut = 4
SPECIFICATION FairSpec
CHECK_DEADLOCK FALSE
INVARIANTS
    ExactlyOnce
    SendStateAgrees
    ClosesProperly
PROPERTY SendsAndCloses
