CONSTANTS
    MaxRelays = 4
    BlockHashes = {bh1, bh2}
    SessionHeader = hdr
INIT InitAsBuilt
NEXT Next
INVARIANT PayloadBindsBlockHash
