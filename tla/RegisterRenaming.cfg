CONSTANTS
    PhyRegNum = 6
    IsaRegNum = 3
SPECIFICATION Spec
INVARIANTS TypeOK NoTokenTwice BackupIsInflightThenFree
           TableIsYoungest FreeIsUnreachable NoRegisterLeaks
           EmptyListMeansWriterInFlight
