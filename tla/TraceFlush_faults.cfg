\* All three functions, batches of up to three records, every failure.
SPECIFICATION FairFlushSpec
CONSTANTS
    Functions <- AllFunctions
    MaxInvocations = 3
    MaxRecords = 3
    FlushFaults <- AllFaults
INVARIANTS
    FlushTypeOK
    NewsletterFlushed
    LagsByOne
PROPERTIES
    ReturnedCompletes
