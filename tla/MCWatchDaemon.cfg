\* Every behaviour goes on: the last daemon never stops, and time passes.
CONSTANTS
    d1 = d1
    d2 = d2
    Instances = {d1, d2}
    NoInstance = NoInstance
    Signals <- Announced
    NoSignal = 0
    SignalLease = 1
    MaxEdits = 1
    MaxTroubles = 1
SPECIFICATION FairSpec
INVARIANTS
    TypeOK
    ProcessedSignalsWerePulled
    SleepersMissNoSignal
PROPERTIES
    LeasedSignalsStayPut
    StoredSignalsAreProcessed
    EditsArePulled
