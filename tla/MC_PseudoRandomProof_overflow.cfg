CONSTANTS
    MaxRelays = 4
    BlockHashes = {bh1}
    SessionHeader = hdr
INIT InitAsBuilt
NEXT Next
INVARIANT NoParseIntPanic
