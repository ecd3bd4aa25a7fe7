CONSTANTS
    BufSize = 2
    SendBuf = 2
    MaxIn = 3
    MaxOut = 3
    Families = {"inet", "unix"}
SPECIFICATION FairSpec
INVARIANTS SendStateAgrees NormalCloseIsComplete EscapeOnlyAfterFailedSend
PROPERTY SendsAndCloses
CHECK_DEADLOCK FALSE
