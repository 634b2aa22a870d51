SPECIFICATION Spec
CONSTANTS
    a1 = a1
    a3 = a3
    Addrs = {a1}
    Ripemd = a3
    Fields = {"nonce"}
    MaxBalance = 1
    MaxJournal = 3
    MaxRevisions = 2
    MaxLogs = 1
    DeleteEmpty = TRUE
    InitTries <- MCInitTries
INVARIANTS  UndoFinds
 
CHECK_DEADLOCK FALSE
