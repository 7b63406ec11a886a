SPECIFICATION Spec
CONSTANTS
    NONE = NONE
    Uuids <- MCUuids
    Lexical <- MCLexical
    Conforms <- SchemaConforms
    Render <- RenderSource
    Decode <- DecodeCanonical
    Schema <- MCSchema
    Adc <- MCAdc
    KindOf <- MCKindOf
    Requests <- MCRequests
    DefaultAlias <- MCDefaultAlias
    Epochs = {"t1", "t2"}
    Minter <- Rounds
    CounterWidth = 8
INVARIANTS
    ConstructedWhole
    EndsInTheSet
    AuthorityBacked
    SuppliedKept
    OrderFree
    MintsFarApart
CHECK_DEADLOCK FALSE
