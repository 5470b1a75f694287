CONSTANTS
    MaxItems = 6
    MaxLimit = 4
    MaxValidators = 5
    MaxApplications = 5
INIT Init
NEXT Next
INVARIANT TypeOK
INVARIANT PagesPartitionList
