CONSTANTS
    i1 = i1
    i2 = i2
    Images = {i1, i2}
    Bad = Bad
    MaxBatch = 2
    MaxPerDay = 3
    Retention = 2
    Day = 2
    LastMessage = 4
    MaxNow = 6
    MaxCrashes = 2
SPECIFICATION FairSpec
INVARIANTS QuarantineTypeOK FilesAccountedFor NoImagesWithoutGrant QuotaBoundsWork
PROPERTIES FilesGo
CHECK_DEADLOCK FALSE
