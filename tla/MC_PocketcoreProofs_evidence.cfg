CONSTANTS
    Headers <- MCOneHeader
    Chains <- MCChains
    SessionFrequency = 2
    ProofWaitingPeriod = 2
    ClaimExpiration = 2
    UnverifiedProofExpiration = 4
    MaxRelays = 2
    MaxHeight = 10
    MaxRestarts = 1
    Digest <- NoOverflowDigest
    ByValueDecode = "Decodes"
    BroadcastCanFail = FALSE
SPECIFICATION FairSpec
PROPERTY SettledEvidenceReleased
