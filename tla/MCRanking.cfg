CONSTANTS
    Docs <- MCDocs
    Terms <- MCTerms
    Shards = {s1, s2}
    Texts <- MCTexts
    Queries <- MCQueries
    Embed <- MCEmbed
    EmbedQuery <- MCEmbedQuery
    RrfK = 1
    Multiplier = 2
    MaxDepth = 3
    MaxTokens = 2
SPECIFICATION Spec
INVARIANTS
    TypeOK
    IndexIsDerived
    ValidateSeesDamage
    StatsMergeExactly
    SearchIsSingleNode
    HybridIsSingleNode
    FusionKeepsAgreement
