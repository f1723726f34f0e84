SPECIFICATION FairStoreSpec
CONSTANTS
    MaxSnaps = 2
    Floor = 1
    Percent = 20
    Retries = 2
    MaxAllowed = 1
    MaxFaults = 2
    MaxSaves = 1
INVARIANTS
    
    SyncTakesOnlyWhatWasCounted
PROPERTIES
    RestoreIsSafe
    
