SPECIFICATION FairSpec
CONSTANTS
    r1 = r1
    r2 = r2
    Registrars = {r1, r2}
    Library = Library
    Registration <- MCRegistration
    Documents <- MCDocuments
    Base = 16
    SizeWidth = 1
    TypeMask = 4
    Noise = {0, 2, 8, 15}
    Envelopes <- MCEnvelopes
    DataTexts <- MCDataTexts
    DebugTexts <- MCDebugTexts
    TextsV2 <- MCTextsV2
INVARIANTS
    TypeOK
    SchemaFitsCallback
    FlagsTruthful
    WellFormedHandled
    ErrorsUnderstood
    FailuresExplained
    InBounds
    ParsedWellFormed
    RoundTrip
PROPERTY Processed
