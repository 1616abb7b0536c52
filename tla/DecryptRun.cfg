SPECIFICATION FairSpec
CONSTANT Options <- MCOptions
INVARIANTS TypeOK NoCleanupTwice CloseIsLast ReleasedOutputNotPartial DeviceCopySound UninterruptedRunIsClean
PROPERTY UninstallOnlyOurs Terminates
