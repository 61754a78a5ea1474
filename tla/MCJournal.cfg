SPECIFICATION JournalSpec
CONSTANTS
    SyncsName = TRUE
    MaxJournalRecords = 5
    MaxPayloads = 5
    MaxLive = 1
INVARIANTS
    AcknowledgedDurable
    FramesCounted
PROPERTY
    ImplementsLog
