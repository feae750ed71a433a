CONSTANTS
    Givens <- MCGivens
    LowerOf <- MCLowerOf
    IntOf <- MCIntOf
    FloatOf <- MCFloatOf
    TruncOf <- MCTruncOf
    Upper <- MCUpper
    UriMasked <- MCUriMasked
    Placeholders <- MCPlaceholders
SPECIFICATION Spec
INVARIANTS
    LastWordHolds
    SourcesAreTrue
    SecretsAreSafe
    SummaryHidesSecrets
    FieldsTakeTheirTexts
CHECK_DEADLOCK FALSE
