SPECIFICATION FairSpec
CONSTANTS
    Calls = {k1, k2}
    First = "v6"
    MaxRecords = 2
INVARIANTS RepliesFindCall HandleIsPending PreferenceKept
PROPERTIES ImplementsPromise CallsEnd
