SPECIFICATION Spec
CONSTANTS
    MaxChars = 5
    MaxTokens = 6
    Catalog <- MCCatalog
    DefaultSchema = "p"
INVARIANTS
    LiteralsAgree
    OneStatementAtCursor
    NamesReadBack
    NearestWins
    RelationSlots
    OfferedResolves
CHECK_DEADLOCK FALSE
