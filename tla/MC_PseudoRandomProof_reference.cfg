CONSTANTS
    MaxRelays = 4
    BlockHashes = {bh1}
    SessionHeader = hdr
INIT InitReference
NEXT Next
INVARIANT TypeOK
INVARIANT CodeMatchesSpec
