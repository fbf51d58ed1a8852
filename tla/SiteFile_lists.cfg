SPECIFICATION LibrarySpec
CONSTANTS
    maxInt = 127
    rightMargin = 20
    precision = 4
    MaxEdits = 2
    MaxTyped = 2
    MaxNumber = 300
    Scalars <- MCScalars
    Paths <- MCPaths
    Names <- MCNames
    CommentTexts <- MCCommentTexts
    Lexemes <- MCLexemes
    Seeds <- MCSeeds
    SeedBytes <- MCSeedBytes
    Seqs = {0, 1}
    Phrases <- MCPhrases
    Listable <- MCListable
    SectionName <- MCSectionName
    OtherName <- MCOtherName
    MaxLines = 3
    Thread = {m, c1, c2}
    Main = m
    Identity <- MCIdentity
    IdentityRow <- MCIdentityRow
    RowOf <- MCRowOf
    OfRow <- MCOfRow
    Text <- MCText
    NoThread = NoThread
    NoValue = NoValue
    MaxFaults = 1
    MaxCrashes = 2
INVARIANT DomainsLookedUp
CHECK_DEADLOCK FALSE
