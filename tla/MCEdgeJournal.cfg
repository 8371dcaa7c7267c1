CONSTANTS
    Requests = {r1, r2}
    MaxGen = 2
    MaxRecords = 2
    WalCapacity = 3
    CompactAt = 2
    MaxSeq = 5
    FaultModels = {{"power", "write"}, {"exit", "sync"}, {"exit", "power"}}
SPECIFICATION Spec
SYMMETRY Symmetry
INVARIANTS JournalTypeOK RecoveryIsTotal ExecutedAtMostOnce ReportedResultSurvives
PROPERTY JournalImplementsContract
