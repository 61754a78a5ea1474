SPECIFICATION LedgerSpec
CONSTANTS
    Decisions = {1, 2, 3}
    Resources = {1, 2}
    Paths = {p1}
    NoPath = NoPath
    MaxU64 = 5
    MaxLedgerEntries = 5
    Rates = {1, 3}
INVARIANTS
    LedgerTypeOK
    TotalsExact
    EntryCountExact
    Releasable
